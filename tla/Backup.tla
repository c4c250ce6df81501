------------------------------- MODULE Backup -------------------------------
\* Scheduled and manual backups: the scheduler goroutine with its 30 s ticker, the
\* runs that it and the page start under runMu, the uploads and the retention at
\* each target, the history in router.yaml, edits of the settings and restarts.
\*
\* Time is counted in units of 15 s; the ticker fires at odd units, so that it is
\* never aligned with a minute.  Uploads take any time.
EXTENDS Integers, Sequences, Functions, FiniteSets, FiniteSetsExt

CONSTANTS
  Targets,
  Schedules,       \* a set of [minute, hour, dayOfMonth, month, dayOfWeek]
  MinutesPerHour, HoursPerDay, DaysPerWeek, DaysPerMonth, MonthsPerYear,
  Retentions,
  MaxHistory,      \* MaxBackupHistory, 50 in the code
  MaxTime, MaxManual,
  MaxEvents,       \* edits and faults together
  MaxCrashes

ASSUME BackupAssumption ==
  /\ {MinutesPerHour, HoursPerDay, DaysPerWeek, DaysPerMonth, MonthsPerYear} \subseteq Nat \ {0}
  /\ IsFiniteSet(Targets)
  /\ Retentions \subseteq Nat \ {0}
  /\ MaxHistory \in Nat \ {0}
  /\ {MaxTime, MaxManual, MaxEvents, MaxCrashes} \subseteq Nat

VARIABLES
  now,
  tick,      \* the time in the ticker's channel, or None
  cfg,       \* [enabled, schedule, retention, targets]
  nextFire,  \* the scheduler's variable; None is the zero time
  lastRun,   \* cfg.Backup.LastRun
  history,   \* cfg.Backup.History: [started, targets, status]
  caller,    \* what the scheduler and the page are doing
  run,       \* the run that holds runMu, or NoRun
  disk,      \* router.yaml: [cfg, lastRun, history]
  files,     \* the backups at each target: [at, whole]
  log,       \* [first, fired, active]: the scheduler's first tick and last firing since
             \* the start-up, and when a run was last under way
  manual, edits, faults, crashes

vars == <<now, tick, cfg, nextFire, lastRun, history, caller, run, disk, files,
          log, manual, edits, faults, crashes>>

None == -1
NoRun == [step |-> "none"]
Minute(t) == t \div 4

\* The fields of a minute in a small calendar.
Fields(m) ==
  LET day == m \div (MinutesPerHour * HoursPerDay) IN
  [minute |-> m % MinutesPerHour,
   hour |-> (m \div MinutesPerHour) % HoursPerDay,
   day |-> 1 + (day % DaysPerMonth),
   month |-> 1 + ((day \div DaysPerMonth) % MonthsPerYear),
   weekday |-> day % DaysPerWeek]

AllDays == 1 .. DaysPerMonth
AllWeekdays == 0 .. (DaysPerWeek - 1)

\* Cron's rule for days: when both fields are restricted either one suffices.
Matches(s, m) ==
  LET f == Fields(m)
      dom == f.day \in s.dayOfMonth
      dow == f.weekday \in s.dayOfWeek
  IN /\ f.minute \in s.minute /\ f.hour \in s.hour /\ f.month \in s.month
     /\ \/ s.dayOfMonth = AllDays /\ s.dayOfWeek = AllWeekdays
        \/ s.dayOfMonth = AllDays /\ dow
        \/ s.dayOfWeek = AllWeekdays /\ dom
        \/ s.dayOfMonth # AllDays /\ s.dayOfWeek # AllWeekdays /\ (dom \/ dow)

\* Mutant: a minute too many is skipped.
AfterSkips(s, after) ==
  LET later == {m \in (Minute(after) + 2) .. (Minute(MaxTime) + 1) : Matches(s, m)}
  IN IF later = {} THEN None ELSE 4 * Min(later)

\* Next: the first matching minute after the one `after` lies in.
After(s, after) ==
  LET later == {m \in (Minute(after) + 1) .. (Minute(MaxTime) + 1) : Matches(s, m)}
  IN IF later = {} THEN None ELSE 4 * Min(later)

Init ==
  /\ now = 0 /\ tick = None
  /\ \E s \in Schedules, k \in Retentions :
       cfg = [enabled |-> TRUE, schedule |-> s, retention |-> k,
              targets |-> CHOOSE ts \in [1 .. Cardinality(Targets) -> Targets] : IsInjective(ts)]
  /\ disk = [cfg |-> cfg, lastRun |-> None, history |-> <<>>]
  /\ nextFire = None /\ lastRun = None
  /\ history = <<>>
  /\ caller = [sched |-> "idle", page |-> "idle"]
  /\ run = NoRun
  /\ files = [t \in Targets |-> {}]
  /\ log = [first |-> None, fired |-> None, active |-> None]
  /\ manual = 0 /\ edits = 0 /\ faults = 0 /\ crashes = 0

-----------------------------------------------------------------------------
\* The ticker drops a tick when the one before has not been taken.  Copying to a
\* target takes any time; every other step is taken before the clock moves on.
Advance ==
  /\ now < MaxTime
  /\ ~(tick # None /\ caller.sched = "idle")
  /\ \/ run.step = "rename"
     \/ run = NoRun /\ \A c \in DOMAIN caller : caller[c] # "calls"
  /\ now' = now + 1
  /\ tick' = IF now' % 2 = 1 /\ tick = None THEN now' ELSE tick
  /\ UNCHANGED <<cfg, nextFire, lastRun, history, disk, caller, run, files, log,
                 manual, edits, faults, crashes>>

\* A tick: recompute nextFire when there is none or a run was begun after it, and
\* call RunNow when it is due.
TakeTick ==
  /\ tick # None /\ caller.sched = "idle"
  /\ tick' = None
  /\ LET nf == IF nextFire = None \/ nextFire < lastRun THEN After(cfg.schedule, tick) ELSE nextFire
         due == cfg.enabled /\ nf # None /\ tick >= nf
     IN /\ nextFire' = IF ~cfg.enabled THEN None
                       ELSE IF due THEN After(cfg.schedule, tick + 4) ELSE nf
        /\ caller' = [caller EXCEPT !.sched = IF due THEN "calls" ELSE "idle"]
        /\ log' = [log EXCEPT !.first = IF @ = None THEN tick ELSE @,
                              !.fired = IF due THEN tick ELSE @]
  /\ UNCHANGED <<now, cfg, lastRun, history, disk, run, files, manual, edits, faults, crashes>>

\* HandleRunNow.
Click ==
  /\ caller.page = "idle" /\ manual < MaxManual
  /\ manual' = manual + 1
  /\ caller' = [caller EXCEPT !.page = "calls"]
  /\ UNCHANGED <<now, tick, cfg, nextFire, lastRun, history, disk, run, files, log,
                 edits, faults, crashes>>

-----------------------------------------------------------------------------
\* runOnce takes runMu, copies the settings and refuses to run without a target (or
\* a passphrase).
Begin ==
  \E c \in {"sched", "page"} :
    /\ caller[c] = "calls" /\ run = NoRun
    /\ IF cfg.targets = <<>>
       THEN run' = NoRun /\ caller' = [caller EXCEPT ![c] = "idle"]
       ELSE /\ run' = [by |-> c, started |-> now, keep |-> cfg.retention, todo |-> cfg.targets,
                       want |-> Range(cfg.targets),
                       step |-> "export", good |-> {}, bad |-> {}]
            /\ caller' = [caller EXCEPT ![c] = "runs"]
    /\ log' = [log EXCEPT !.active = now]
    /\ UNCHANGED <<now, tick, cfg, nextFire, lastRun, history, disk, files,
                   manual, edits, faults, crashes>>

Running(step) == run # NoRun /\ run.step = step
Ok == UNCHANGED faults
Event == edits + faults < MaxEvents
Fault == Event /\ faults' = faults + 1

\* recordHistory appends, trims and saves; runMu is released.  A save that fails is
\* only logged.
Record(status, saved) ==
  LET h == Append(history, [started |-> run.started, targets |-> run.good, status |-> status])
      n == Len(h)
  IN /\ history' = SubSeq(h, 1 + (IF n > MaxHistory THEN n - MaxHistory ELSE 0), n)
     /\ lastRun' = run.started
     /\ disk' = IF saved THEN [cfg |-> cfg, lastRun |-> lastRun', history |-> history'] ELSE disk
     /\ run' = NoRun
     /\ caller' = [caller EXCEPT ![run.by] = "idle"]
     /\ log' = [log EXCEPT !.active = now]

\* The encrypted archive; without one the run is recorded as an error.
Export ==
  /\ Running("export")
  /\ \/ Ok /\ run' = [run EXCEPT !.step = "upload"]
        /\ UNCHANGED <<history, lastRun, disk, caller, log>>
     \/ Fault /\ Record("error", TRUE)
     \/ /\ Fault   \* the archive cannot be examined: nothing is recorded
        /\ run' = NoRun /\ caller' = [caller EXCEPT ![run.by] = "idle"]
        /\ log' = [log EXCEPT !.active = now]
        /\ UNCHANGED <<history, lastRun, disk>>
  /\ UNCHANGED <<now, tick, cfg, nextFire, files, manual, edits, crashes>>

\* Mutant: the archive is copied under its final name.
UploadInPlace ==
  /\ Running("upload") /\ run.todo # <<>>
  /\ files' = [files EXCEPT ![Head(run.todo)] = @ \cup {[at |-> run.started, whole |-> FALSE]}]
  /\ run' = [run EXCEPT !.step = "rename"]
  /\ UNCHANGED <<now, tick, cfg, nextFire, lastRun, history, disk, caller, log,
                 manual, edits, faults, crashes>>

\* The next target: the archive is copied under a temporary name, ...
UploadStarts ==
  /\ Running("upload") /\ run.todo # <<>>
  /\ \/ Ok /\ run' = [run EXCEPT !.step = "rename"]
     \/ Fault /\ run' = [run EXCEPT !.bad = @ \cup {Head(run.todo)}, !.todo = Tail(@)]
  /\ UNCHANGED <<now, tick, cfg, nextFire, lastRun, history, disk, caller, files, log,
                 manual, edits, crashes>>

\* ... and renamed; when either fails the temporary file is removed.
UploadEnds ==
  /\ Running("rename")
  /\ LET t == Head(run.todo) IN
     \/ /\ Ok
        /\ files' = [files EXCEPT ![t] = @ \cup {[at |-> run.started, whole |-> TRUE]}]
        /\ run' = [run EXCEPT !.step = "cleanup"]
     \/ /\ Fault
        /\ run' = [run EXCEPT !.bad = @ \cup {t}, !.todo = Tail(@), !.step = "upload"]
        /\ UNCHANGED files
  /\ UNCHANGED <<now, tick, cfg, nextFire, lastRun, history, disk, caller, log,
                 manual, edits, crashes>>

\* Mutant: one backup too few is kept.
ExcessOffByOne(fs, keep) == {f \in fs : Cardinality({g \in fs : g.at > f.at}) >= keep - 1}

\* cleanupLocal, cleanupSFTP, cleanupS3: all but the `keep` newest.
Excess(fs, keep) == {f \in fs : Cardinality({g \in fs : g.at > f.at}) >= keep}

\* The first removal that fails ends the clean-up, which is only logged.
Cleanup ==
  /\ Running("cleanup")
  /\ LET t == Head(run.todo)
         old == Excess(files[t], run.keep)
     IN /\ \/ Ok /\ files' = [files EXCEPT ![t] = @ \ old]
           \/ /\ old # {} /\ Fault
              /\ \E f \in old : files' = [files EXCEPT ![t] = @ \ {g \in old : g.at > f.at}]
        /\ run' = [run EXCEPT !.good = @ \cup {t}, !.todo = Tail(@), !.step = "upload"]
  /\ UNCHANGED <<now, tick, cfg, nextFire, lastRun, history, disk, caller, log,
                 manual, edits, crashes>>

\* After the last target: no upload succeeded, some did, or all did.
Finish ==
  /\ Running("upload") /\ run.todo = <<>>
  /\ LET status == IF run.good = {} THEN "error" ELSE IF run.bad # {} THEN "partial" ELSE "ok"
     IN \/ Ok /\ Record(status, TRUE)
        \/ Fault /\ Record(status, FALSE)
  /\ UNCHANGED <<now, tick, cfg, nextFire, files, manual, edits, crashes>>

-----------------------------------------------------------------------------
\* The copy of the list that HandleDeleteTarget makes.
Without(list, i) == SubSeq(list, 1, i - 1) \o SubSeq(list, i + 1, Len(list))

\* HandleSaveSchedule, HandleAddTarget and HandleDeleteTarget, at any time.  A name
\* in use is refused, so that at most one target has the name that is deleted.
Edit ==
  /\ Event /\ edits' = edits + 1
  /\ \/ \E e \in BOOLEAN, s \in Schedules, k \in Retentions :
          cfg' = [cfg EXCEPT !.enabled = e, !.schedule = s, !.retention = k]
     \/ \E t \in Targets \ Range(cfg.targets) : cfg' = [cfg EXCEPT !.targets = Append(@, t)]
     \/ \E i \in DOMAIN cfg.targets : cfg' = [cfg EXCEPT !.targets = Without(@, i)]
  /\ disk' = [cfg |-> cfg', lastRun |-> lastRun, history |-> history]
  /\ UNCHANGED <<now, tick, nextFire, lastRun, history, caller, run, files, log,
                 manual, faults, crashes>>

\* The process stops anywhere and starts again with router.yaml.
Restart ==
  /\ crashes < MaxCrashes /\ crashes' = crashes + 1
  /\ cfg' = disk.cfg /\ lastRun' = disk.lastRun /\ history' = disk.history
  /\ tick' = None /\ nextFire' = None /\ run' = NoRun
  /\ caller' = [sched |-> "idle", page |-> "idle"]
  /\ log' = [log EXCEPT !.first = None, !.fired = None]
  /\ UNCHANGED <<now, disk, files, manual, edits, faults>>

Next == \/ Advance \/ TakeTick \/ Click \/ Begin
        \/ Export \/ UploadStarts \/ UploadEnds \/ Cleanup \/ Finish
        \/ Edit \/ Restart

Spec == Init /\ [][Next]_vars

-----------------------------------------------------------------------------
Status == {"ok", "partial", "error"}
File == [at : 0 .. MaxTime, whole : BOOLEAN]

\* Every variable has the type the code gives it, and the history obeys its limit.
TypeOK ==
  /\ now \in 0 .. MaxTime /\ tick \in (0 .. MaxTime) \cup {None}
  /\ nextFire \in Int /\ lastRun \in (0 .. MaxTime) \cup {None}
  /\ Range(cfg.targets) \subseteq Targets
  /\ history \in Seq([started : 0 .. MaxTime, targets : SUBSET Targets, status : Status])
  /\ Len(history) <= MaxHistory
  /\ caller \in [{"sched", "page"} -> {"idle", "calls", "runs"}]
  /\ run = NoRun \/ run.todo \in Seq(Targets)
  /\ files \in [Targets -> SUBSET File]

\* "Per-target retention prunes old backups (newest N kept)" (CHANGELOG): whatever
\* the interleaving of runs, edits and restarts, a backup is removed only when as
\* many newer complete ones as the run is to keep stay at the target.
NewestKept ==
  [][\A t \in Targets : \A f \in files[t] \ files'[t] :
       Cardinality({g \in files'[t] : g.whole /\ g.at > f.at}) >= run.keep]_vars

\* The targets that the latest history entry names hold a complete backup at least
\* as new as that entry, also when a later run was cut off in the middle.
HistoryRestorable ==
  history # <<>> =>
    LET last == history[Len(history)] IN
    \A t \in last.targets : \E f \in files[t] : f.whole /\ f.at >= last.started

\* "fires runOnce when the configured cron schedule next matches" (server.go).  With
\* unchanged settings, the scheduler lets a matching minute pass without calling
\* RunNow only when a run was under way in that minute, within the tick before it,
\* or began later, whatever the runs take and with manual runs among them.  Only
\* the minute that follows a firing is left out: the code asks for the first match
\* after the next minute.  And no matching minute is fired twice: between two
\* firings there is a new one.
SlotsCovered ==
  [][edits = 0 =>
       /\ tick # None /\ tick' = None /\ log.first # None /\ log'.fired = log.fired
            /\ crashes' = crashes =>
          \A m \in (Minute(log.first) + 1) .. Minute(tick) :
            Matches(cfg.schedule, m) =>
              \/ run # NoRun \/ log.active > 4 * m - 2
              \/ log.fired # None /\ Minute(log.fired) = m - 1
       /\ log.fired # None /\ log'.fired \notin {None, log.fired} =>
          \E m \in (Minute(log.fired) + 1) .. Minute(log'.fired) : Matches(cfg.schedule, m)]_vars
=============================================================================
