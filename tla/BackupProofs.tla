---------------------------- MODULE BackupProofs ----------------------------
(* What Backup promises for any targets, schedules, retentions and history limit,
   and any number of runs, edits, faults and restarts: retention removes a backup only
   behind as many newer ones as the run is to keep, what the history says was
   backed up can be restored, and the scheduler leaves out no minute that matches unless a
   run was under way. *)
EXTENDS Backup, FiniteSetTheorems, SequenceTheorems, WellFoundedInduction,
        NaturalsInduction, TLAPS

Times == 0 .. MaxTime
Entries == [started : Times, targets : SUBSET Targets, status : Status]
Archives == [at : Times, whole : {TRUE}]
Runs == [by : {"sched", "page"}, started : Times, keep : Nat \ {0}, todo : Seq(Targets),
         want : SUBSET Targets, step : {"export", "upload", "rename", "cleanup"},
         good : SUBSET Targets, bad : SUBSET Targets]

\* Target t holds a complete backup of time at, or a newer one.
Holds(t, at) == \E f \in files[t] : f.whole /\ f.at >= at

\* Every entry of a history can be restored from each target it names.
Restorable(h) ==
  \A i \in 1 .. Len(h) : \A t \in h[i].targets : Holds(t, h[i].started)

\* The settings a run copies, in memory and in router.yaml.
Settings(c) == c.retention \in Retentions /\ c.targets \in Seq(Targets)

\* The types that the other parts rest on; no target ever holds half an archive.
ShapeInv ==
  /\ now \in Times
  /\ Settings(cfg) /\ Settings(disk.cfg)
  /\ history \in Seq(Entries) /\ disk.history \in Seq(Entries)
  /\ run = NoRun \/ run \in Runs
  /\ files \in [Targets -> SUBSET Archives]

\* What the run under way has in hand: there is a target to rename or to clean up at,
\* and the targets counted as good, and the one being cleaned up, hold the archive.
RunInv ==
  run # NoRun =>
    /\ run.step \in {"rename", "cleanup"} => run.todo # <<>>
    /\ run.step = "cleanup" => Holds(Head(run.todo), run.started)
    /\ \A t \in run.good : Holds(t, run.started)

\* The inductive invariant.
Inv == ShapeInv /\ RunInv /\ Restorable(history) /\ Restorable(disk.history)

-----------------------------------------------------------------------------
\* A complete backup is known by its time.
LEMMA ArchiveFields ==
  ASSUME NEW g \in Archives
  PROVE  /\ g.whole /\ g.at \in Times /\ g.at \in Int
         /\ MaxTime - g.at \in Nat
         /\ g = [at |-> g.at, whole |-> TRUE]
<1>1. g.whole = TRUE /\ g.at \in Times /\ g = [at |-> g.at, whole |-> g.whole]
  BY Zenon DEF Archives
<1>2. MaxTime \in Nat
  BY BackupAssumption
<1>3. QED
  BY <1>1, <1>2 DEF Times

\* The backups at a target are finitely many: no two have the same time.
LEMMA BackupsAreFinite ==
  ASSUME NEW S \in SUBSET Archives
  PROVE  IsFiniteSet(S)
<1> DEFINE at == [g \in S |-> g.at]
<1>1. IsFiniteSet(Times)
  <2>1. MaxTime \in Int
    BY BackupAssumption
  <2>2. QED
    BY <2>1, FS_Interval DEF Times
<1>2. at \in [S -> Times]
  BY ArchiveFields
<1>3. \A g, h \in S : g.at = h.at => g = h
  BY Zenon, ArchiveFields
<1>4. at \in Injection(S, Times)
  BY <1>2, <1>3 DEF Injection, IsInjective
<1>5. QED
  BY <1>1, <1>4, FS_Injection

\* A set of backups with any of its excess removed keeps, for each one removed, as many
\* newer ones as the limit says: the newest one removed had that many, and none of
\* them is removed (cleanupLocal, cleanupSFTP and cleanupS3, also when a removal fails
\* half way).
LEMMA RemovalKeepsNewest ==
  ASSUME NEW S \in SUBSET Archives, NEW keep \in Nat \ {0},
         NEW R \in SUBSET Excess(S, keep), NEW f \in R
  PROVE  Cardinality({g \in S \ R : g.whole /\ g.at > f.at}) >= keep
<1> DEFINE Age(g) == MaxTime - g.at
           Ages == {Age(g) : g \in R}
           Kept == {g \in S \ R : g.whole /\ g.at > f.at}
<1>0. MaxTime \in Nat
  BY BackupAssumption
<1>1. R \subseteq S /\ S \subseteq Archives
  BY Zenon DEF Excess
<1>2. \A g \in R : Age(g) \in Nat
  BY <1>1, ArchiveFields
<1>3. PICK a \in Ages : \A b \in Ages : ~(<<b, a>> \in OpToRel(<, Nat))
  <2>1. Ages \subseteq Nat /\ Ages # {}
    BY <1>2
  <2>2. QED
    BY Zenon, <2>1, NatLessThanWellFounded, WFMin
<1>4. PICK e \in R : a = Age(e)
  OBVIOUS
<1>5. \A g \in R : g.at <= e.at
  <2> TAKE g \in R
  <2>1. ~(Age(g) < Age(e))
    BY Zenon, <1>2, <1>3, <1>4 DEF OpToRel
  <2>2. g.at \in Int /\ e.at \in Int
    BY <1>1, ArchiveFields
  <2>3. QED
    BY <1>0, <2>1, <2>2
<1>6. {g \in S : g.at > e.at} \subseteq Kept
  <2>1. \A g \in S : g.whole /\ g.at \in Int
    BY ArchiveFields
  <2>2. QED
    BY <1>1, <1>5, <2>1
<1>7. IsFiniteSet(S)
  BY BackupsAreFinite
<1>8. Cardinality({g \in S : g.at > e.at}) >= keep
  BY DEF Excess
<1>9. IsFiniteSet(Kept) /\ Cardinality({g \in S : g.at > e.at}) <= Cardinality(Kept)
  <2>1. IsFiniteSet(Kept)
    BY <1>7, FS_Subset
  <2>2. QED
    BY <1>6, <2>1, FS_Subset
<1>10. Cardinality(Kept) \in Nat /\ Cardinality({g \in S : g.at > e.at}) \in Nat
  BY <1>6, <1>9, FS_Subset, FS_CardinalityType
<1>11. QED
  BY <1>8, <1>9, <1>10

-----------------------------------------------------------------------------
\* The targets a run has still to serve.
LEMMA RunFields ==
  ASSUME ShapeInv, RunInv, run # NoRun
  PROVE  /\ run \in Runs /\ run.started \in Times /\ run.keep \in Nat \ {0}
         /\ run.good \in SUBSET Targets /\ run.todo \in Seq(Targets)
         /\ run.todo # <<>> => Head(run.todo) \in Targets /\ Tail(run.todo) \in Seq(Targets)
<1>1. run \in Runs
  BY DEF ShapeInv
<1>2. /\ run.started \in Times /\ run.keep \in Nat \ {0}
      /\ run.good \in SUBSET Targets /\ run.todo \in Seq(Targets)
  BY <1>1 DEF Runs
<1>3. QED
  BY <1>1, <1>2, HeadTailProperties

\* The ways a run moves on keep its type.
LEMMA MovedOn ==
  ASSUME ShapeInv, RunInv, run # NoRun, run.todo # <<>>
  PROVE  LET t == Head(run.todo) IN
         /\ [run EXCEPT !.step = "rename"] \in Runs
         /\ [run EXCEPT !.step = "cleanup"] \in Runs
         /\ [run EXCEPT !.bad = @ \cup {t}, !.todo = Tail(@)] \in Runs
         /\ [run EXCEPT !.bad = @ \cup {t}, !.todo = Tail(@), !.step = "upload"] \in Runs
         /\ [run EXCEPT !.good = @ \cup {t}, !.todo = Tail(@), !.step = "upload"] \in Runs
<1>1. run \in Runs /\ Head(run.todo) \in Targets /\ Tail(run.todo) \in Seq(Targets)
  BY RunFields
<1> DEFINE u == Head(run.todo)
           rest == Tail(run.todo)
<1>2. u \in Targets /\ rest \in Seq(Targets)
  BY <1>1
<1> HIDE DEF u, rest
<1>3. [run EXCEPT !.bad = @ \cup {u}, !.todo = rest] \in Runs
  BY Zenon, <1>1, <1>2 DEF Runs
<1>4. [run EXCEPT !.bad = @ \cup {u}, !.todo = rest, !.step = "upload"] \in Runs
  BY Zenon, <1>1, <1>2 DEF Runs
<1>5. [run EXCEPT !.good = @ \cup {u}, !.todo = rest, !.step = "upload"] \in Runs
  BY Zenon, <1>1, <1>2 DEF Runs
<1>6. [run EXCEPT !.step = "rename"] \in Runs /\ [run EXCEPT !.step = "cleanup"] \in Runs
  BY <1>1 DEF Runs
<1>7. QED
  BY <1>3, <1>4, <1>5, <1>6 DEF u, rest

\* What a step does to the backups: it takes some of the excess away at one target, or
\* leaves every backup there is.
LEMMA Removal ==
  ASSUME ShapeInv, RunInv, [Next]_vars, NEW t \in Targets, NEW f \in files[t], f \notin files'[t]
  PROVE  /\ run # NoRun
         /\ Cardinality({g \in files'[t] : g.whole /\ g.at > f.at}) >= run.keep
<1>1. files \in [Targets -> SUBSET Archives]
  BY DEF ShapeInv
<1>2. CASE Cleanup
  <2>1. run # NoRun /\ run.todo # <<>>
    BY <1>2 DEF Cleanup, Running, RunInv
  <2> DEFINE u == Head(run.todo)
             old == Excess(files[u], run.keep)
  <2>2. PICK R \in SUBSET old : files' = [files EXCEPT ![u] = @ \ R]
    <3>1. CASE files' = [files EXCEPT ![u] = @ \ old]
      BY Zenon, <3>1
    <3>2. CASE \E e \in old : files' = [files EXCEPT ![u] = @ \ {g \in old : g.at > e.at}]
      BY Zenon, <3>2
    <3>3. QED
      BY <1>2, <3>1, <3>2 DEF Cleanup
  <2>3. t = u /\ f \in R /\ files'[t] = files[t] \ R
    BY <1>1, <2>2
  <2>4. files[t] \in SUBSET Archives /\ run.keep \in Nat \ {0}
    BY <1>1, <2>1, RunFields
  <2>5. QED
    BY <2>1, <2>2, <2>3, <2>4, RemovalKeepsNewest
<1>3. CASE UploadEnds
  BY <1>1, <1>3 DEF UploadEnds
<1>4. ASSUME ~Cleanup, ~UploadEnds PROVE files' = files
  BY Zenon, <1>4 DEF Next, vars, Advance, TakeTick, Click, Begin, Export, UploadStarts, Finish, Edit, Restart
<1>5. QED
  BY <1>2, <1>3, <1>4

\* A target that can restore something goes on being able to.
LEMMA HoldsStays ==
  ASSUME ShapeInv, RunInv, ShapeInv', [Next]_vars, NEW t \in Targets, NEW at \in Times, Holds(t, at)
  PROVE  Holds(t, at)'
<1>1. PICK f \in files[t] : f.whole /\ f.at >= at
  BY DEF Holds
<1>2. CASE f \in files'[t]
  BY <1>1, <1>2 DEF Holds
<1>3. CASE f \notin files'[t]
  <2> DEFINE Newer == {g \in files'[t] : g.whole /\ g.at > f.at}
  <2>1. Cardinality(Newer) >= run.keep /\ run.keep \in Nat \ {0}
    BY <1>3, Removal, RunFields
  <2>2. Newer # {}
    BY <2>1, FS_EmptySet
  <2>3. PICK g \in files'[t] : g.whole /\ g.at > f.at
    BY <2>2
  <2>4. f \in Archives /\ g \in Archives
    BY DEF ShapeInv
  <2>5. f.at \in Int /\ g.at \in Int /\ at \in Int
    BY <2>4, ArchiveFields DEF Times
  <2>6. QED
    BY <1>1, <2>3, <2>5 DEF Holds
<1>4. QED
  BY <1>2, <1>3

\* Removing a target from the list leaves a list of targets.
LEMMA WithoutType ==
  ASSUME NEW S, NEW s \in Seq(S), NEW i \in 1 .. Len(s)
  PROVE  Without(s, i) \in Seq(S)
<1>1. SubSeq(s, 1, i - 1) \in Seq(S)
  BY SubSeqProperties
<1>2. SubSeq(s, i + 1, Len(s)) \in Seq(S)
  BY SubSeqProperties
<1>3. QED
  BY <1>1, <1>2, ConcatProperties DEF Without

\* What recordHistory leaves in the list: entries that were there and the one it adds,
\* which is the last.
LEMMA RecordedHistory ==
  ASSUME ShapeInv, run \in Runs, NEW status \in Status, NEW saved, Record(status, saved)
  PROVE  /\ history' \in Seq(Entries)
         /\ \A i \in 1 .. Len(history') :
              \/ \E j \in 1 .. Len(history) : history'[i] = history[j]
              \/ history'[i] = [started |-> run.started, targets |-> run.good, status |-> status]
         /\ disk' = disk \/ (disk'.history = history' /\ disk'.cfg = cfg)
         /\ run' = NoRun
<1> DEFINE e == [started |-> run.started, targets |-> run.good, status |-> status]
           h == Append(history, e)
           n == Len(h)
           from == 1 + (IF n > MaxHistory THEN n - MaxHistory ELSE 0)
<1>1. history \in Seq(Entries) /\ e \in Entries
  BY DEF ShapeInv, Entries, Runs
<1>2. /\ h \in Seq(Entries) /\ n = Len(history) + 1
      /\ \A i \in 1 .. Len(history) : h[i] = history[i]
      /\ h[n] = e
  BY <1>1, AppendProperties
<1>3. MaxHistory \in Nat /\ n \in Nat /\ from \in Nat \ {0} /\ Len(history) \in Nat
  BY <1>1, <1>2, BackupAssumption
<1>4. history' = SubSeq(h, from, n)
  BY DEF Record
<1> HIDE DEF e, h, n, from
<1>5. \A i \in from .. n : h[i] \in Entries
  BY <1>2, <1>3 DEF n
<1>6. /\ SubSeq(h, from, n) \in Seq(Entries)
      /\ Len(SubSeq(h, from, n)) = IF from <= n THEN n - from + 1 ELSE 0
      /\ \A i \in 1 .. n - from + 1 : SubSeq(h, from, n)[i] = h[from + i - 1]
  BY <1>3, <1>5, SubSeqProperties
<1>7. \A i \in 1 .. Len(history') : \E j \in 1 .. n : history'[i] = h[j]
  <2> TAKE i \in 1 .. Len(history')
  <2>1. i \in 1 .. n - from + 1 /\ from + i - 1 \in 1 .. n
    BY <1>3, <1>4, <1>6
  <2>2. QED
    BY Zenon, <1>4, <1>6, <2>1
<1>8. \A j \in 1 .. n : h[j] = e \/ (j \in 1 .. Len(history) /\ h[j] = history[j])
  BY <1>2, <1>3
<1>9. \A i \in 1 .. Len(history') : history'[i] = e \/ \E j \in 1 .. Len(history) : history'[i] = history[j]
  BY <1>7, <1>8
<1>10. disk' = disk \/ (disk'.history = history' /\ disk'.cfg = cfg)
  BY Zenon DEF Record
<1>11. run' = NoRun
  BY DEF Record
<1>12. history' \in Seq(Entries)
  BY <1>4, <1>6
<1>13. \A i \in 1 .. Len(history') :
         \/ \E j \in 1 .. Len(history) : history'[i] = history[j]
         \/ history'[i] = [started |-> run.started, targets |-> run.good, status |-> status]
  BY <1>9 DEF e
<1>14. QED
  BY <1>10, <1>11, <1>12, <1>13, Zenon

\* The histories in memory and in router.yaml change when a run is recorded, or are
\* copies of each other.
LEMMA HistoryWrites ==
  ASSUME [Next]_vars
  PROVE  \/ \E status \in Status, saved \in BOOLEAN : Record(status, saved) /\ run # NoRun
         \/ /\ history' \in {history, disk.history}
            /\ disk'.history \in {history, disk.history}
<1>1. CASE Export
  BY Zenon, <1>1 DEF Export, Running, Status
<1>2. CASE Finish
  BY Zenon, <1>2 DEF Finish, Running, Status
<1>3. CASE Restart
  BY <1>3 DEF Restart
<1>4. CASE Edit
  BY Zenon, <1>4 DEF Edit
<1>5. ASSUME ~Export, ~Finish, ~Restart, ~Edit PROVE UNCHANGED <<history, disk>>
  BY SMTT(30), <1>5 DEF Next, vars, Advance, TakeTick, Click, Begin, UploadStarts, UploadEnds, Cleanup
<1>6. QED
  BY <1>1, <1>2, <1>3, <1>4, <1>5

\* The first state satisfies the invariant.
LEMMA InvInit == Init => Inv
<1> SUFFICES ASSUME Init PROVE Inv
  OBVIOUS
<1> DEFINE some == CHOOSE ts \in [1 .. Cardinality(Targets) -> Targets] : IsInjective(ts)
<1>1. some \in Seq(Targets)
  <2>1. IsFiniteSet(Targets)
    BY BackupAssumption
  <2>2. Cardinality(Targets) \in Nat /\ ExistsBijection(1 .. Cardinality(Targets), Targets)
    BY <2>1, FS_CardinalityType
  <2>3. \E s \in [1 .. Cardinality(Targets) -> Targets] : IsInjective(s)
    BY <2>2 DEF ExistsBijection, Bijection, Injection
  <2>4. some \in [1 .. Cardinality(Targets) -> Targets]
    BY <2>3
  <2>5. QED
    BY <2>2, <2>4
<1>2. Settings(cfg) /\ disk.cfg = cfg /\ disk.history = <<>> /\ history = <<>>
  BY <1>1 DEF Init, Settings
<1>3. files \in [Targets -> SUBSET Archives] /\ now \in Times /\ run = NoRun
  BY BackupAssumption DEF Init, Times
<1>4. ShapeInv
  BY <1>2, <1>3 DEF ShapeInv
<1>5. Restorable(<<>>)
  BY DEF Restorable
<1>6. QED
  BY <1>2, <1>3, <1>4, <1>5 DEF Inv, RunInv

\* Every step keeps the types.
LEMMA ShapeStep == ShapeInv /\ RunInv /\ [Next]_vars => ShapeInv'
<1> SUFFICES ASSUME ShapeInv, RunInv, [Next]_vars PROVE ShapeInv'
  OBVIOUS
<1>1. now' \in Times
  <2>1. now' = now \/ (now < MaxTime /\ now' = now + 1)
    BY Zenon DEF Next, vars, Advance, TakeTick, Click, Begin, Export, UploadStarts, UploadEnds, Cleanup,
           Finish, Edit, Restart
  <2>2. QED
    BY <2>1, BackupAssumption DEF ShapeInv, Times
<1>2. Settings(cfg)' /\ Settings(disk.cfg)'
  <2>1. CASE Edit
    <3>1. Settings(cfg)'
      <4>1. CASE \E e \in BOOLEAN, s \in Schedules, k \in Retentions :
                   cfg' = [cfg EXCEPT !.enabled = e, !.schedule = s, !.retention = k]
        BY <4>1 DEF ShapeInv, Settings
      <4>2. CASE \E t \in Targets \ Range(cfg.targets) : cfg' = [cfg EXCEPT !.targets = Append(@, t)]
        BY <4>2, AppendProperties DEF ShapeInv, Settings
      <4>3. CASE \E i \in DOMAIN cfg.targets : cfg' = [cfg EXCEPT !.targets = Without(@, i)]
        <5>1. cfg.targets \in Seq(Targets) /\ DOMAIN cfg.targets = 1 .. Len(cfg.targets)
          BY DEF ShapeInv, Settings
        <5>2. PICK i \in 1 .. Len(cfg.targets) : cfg' = [cfg EXCEPT !.targets = Without(@, i)]
          BY <4>3, <5>1
        <5>3. Without(cfg.targets, i) \in Seq(Targets)
          BY <5>1, WithoutType
        <5>4. cfg'.targets \in {cfg.targets, Without(cfg.targets, i)} /\ cfg'.retention = cfg.retention
          BY <5>2
        <5>5. QED
          BY <5>1, <5>3, <5>4 DEF ShapeInv, Settings
      <4>4. QED
        BY Zenon, <2>1, <4>1, <4>2, <4>3 DEF Edit
    <3>2. QED
      BY Zenon, <2>1, <3>1 DEF Edit, Settings
  <2>2. CASE Restart
    BY <2>2 DEF Restart, ShapeInv, Settings
  <2>3. ASSUME ~Edit, ~Restart PROVE cfg' = cfg /\ (disk'.cfg = disk.cfg \/ disk'.cfg = cfg)
    <3>1. CASE Export
      BY <3>1 DEF Export, Record
    <3>2. CASE Finish
      BY <3>2 DEF Finish, Record
    <3>3. CASE TakeTick
      BY <3>3 DEF TakeTick
    <3>4. CASE ~Export /\ ~Finish /\ ~TakeTick
      BY <2>3, <3>4 DEF Next, vars, Advance, Click, Begin, UploadStarts, UploadEnds, Cleanup
    <3>5. QED
      BY <3>1, <3>2, <3>3, <3>4
  <2>4. QED
    BY <2>1, <2>2, <2>3 DEF ShapeInv, Settings
<1>3. history' \in Seq(Entries) /\ disk'.history \in Seq(Entries)
  <2>1. CASE \E status \in Status, saved \in BOOLEAN : Record(status, saved) /\ run # NoRun
    BY Zenon, <2>1, RecordedHistory DEF ShapeInv
  <2>2. CASE /\ history' \in {history, disk.history}
             /\ disk'.history \in {history, disk.history}
    BY <2>2 DEF ShapeInv
  <2>3. QED
    BY <2>1, <2>2, HistoryWrites
<1>4. run' = NoRun \/ run' \in Runs
  <2>1. CASE Begin
    <3>1. cfg.retention \in Nat \ {0} /\ cfg.targets \in Seq(Targets)
      BY Zenon, BackupAssumption DEF ShapeInv, Settings
    <3>2. Range(cfg.targets) \in SUBSET Targets
      BY <3>1, ElementOfSeq DEF Range
    <3>3. now \in Times
      BY DEF ShapeInv
    <3>4. QED
      BY <2>1, <3>1, <3>2, <3>3 DEF Begin, Runs
  <2>2. CASE Export
    BY <2>2, RunFields DEF Export, Running, Record, Runs
  <2>3. CASE UploadStarts
    <3>1. run # NoRun /\ run.todo # <<>>
      BY <2>3 DEF UploadStarts, Running
    <3>2. QED
      BY <2>3, <3>1, MovedOn DEF UploadStarts
  <2>4. CASE UploadEnds
    <3>1. run # NoRun /\ run.todo # <<>>
      BY <2>4 DEF UploadEnds, Running, RunInv
    <3>2. QED
      BY <2>4, <3>1, MovedOn DEF UploadEnds
  <2>5. CASE Cleanup
    <3>1. run # NoRun /\ run.todo # <<>>
      BY <2>5 DEF Cleanup, Running, RunInv
    <3>2. QED
      BY <2>5, <3>1, MovedOn DEF Cleanup
  <2>6. CASE Finish
    BY <2>6 DEF Finish, Record
  <2>7. CASE Restart
    BY <2>7 DEF Restart
  <2>8. CASE Advance \/ TakeTick \/ Click \/ Edit \/ UNCHANGED vars
    BY Zenon, <2>8 DEF Advance, TakeTick, Click, Edit, vars, ShapeInv
  <2>9. QED
    BY <2>1, <2>2, <2>3, <2>4, <2>5, <2>6, <2>7, <2>8 DEF Next
<1>5. files' \in [Targets -> SUBSET Archives]
  <2>1. CASE UploadEnds
    <3>1. run.started \in Times /\ files \in [Targets -> SUBSET Archives]
      BY <2>1, RunFields DEF UploadEnds, Running, ShapeInv
    <3>2. [at |-> run.started, whole |-> TRUE] \in Archives
      BY <3>1 DEF Archives
    <3>3. CASE files' = files
      BY <3>1, <3>3
    <3>4. CASE files' = [files EXCEPT ![Head(run.todo)] = @ \cup {[at |-> run.started, whole |-> TRUE]}]
      BY Zenon, <3>1, <3>2, <3>4
    <3>5. QED
      BY <2>1, <3>3, <3>4 DEF UploadEnds
  <2>2. CASE Cleanup
    BY <2>2 DEF Cleanup, ShapeInv
  <2>3. ASSUME ~Cleanup, ~UploadEnds PROVE files' = files
    BY Zenon, <2>3 DEF Next, vars, Advance, TakeTick, Click, Begin, Export, UploadStarts, Finish, Edit, Restart
  <2>4. QED
    BY <2>1, <2>2, <2>3 DEF ShapeInv
<1>6. QED
  BY <1>1, <1>2, <1>3, <1>4, <1>5 DEF ShapeInv, Settings

\* The run under way counts as good only targets that hold its archive: the clean-up
\* at one target takes none of it away, and neither does any other step.
LEMMA RunStep == ShapeInv /\ RunInv /\ [Next]_vars => RunInv'
<1> SUFFICES ASSUME ShapeInv, RunInv, [Next]_vars PROVE RunInv'
  OBVIOUS
<1>1. ShapeInv'
  BY ShapeStep
<1>2. \A t \in Targets, at \in Times : Holds(t, at) => Holds(t, at)'
  BY <1>1, HoldsStays
<1>3. ASSUME run # NoRun
      PROVE  \A at \in Times : at = run.started =>
               /\ \A t \in run.good : Holds(t, at)'
               /\ \A t \in Targets : run.step = "cleanup" /\ t = Head(run.todo) => Holds(t, at)'
  <2>1. \A t \in run.good : t \in Targets /\ Holds(t, run.started)
    BY <1>3, RunFields DEF RunInv
  <2>2. run.step = "cleanup" => Holds(Head(run.todo), run.started)
    BY <1>3 DEF RunInv
  <2>3. QED
    BY <1>2, <2>1, <2>2
<1>4. CASE Begin
  <2>1. run' = NoRun \/ (run'.good = {} /\ run'.step = "export")
    BY <1>4 DEF Begin
  <2>2. QED
    BY <2>1 DEF RunInv
<1>5. CASE Export
  <2>1. run # NoRun /\ run \in Runs
    BY <1>5, RunFields DEF Export, Running
  <2>2. \/ run' = NoRun
        \/ run'.good = run.good /\ run'.started = run.started /\ run'.step = "upload"
    BY <1>5, <2>1 DEF Export, Record, Runs
  <2>3. QED
    BY <1>3, <2>1, <2>2, RunFields DEF RunInv
<1>6. CASE UploadStarts
  <2>1. run # NoRun /\ run \in Runs /\ run.todo # <<>>
    BY <1>6, RunFields DEF UploadStarts, Running
  <2>2. /\ run'.good = run.good /\ run'.started = run.started
        /\ \/ run'.step = "rename" /\ run'.todo = run.todo
           \/ run'.step = "upload"
    BY Zenon, <1>6, <2>1 DEF UploadStarts, Running, Runs
  <2>3. QED
    BY <1>3, <2>1, <2>2, RunFields DEF RunInv
<1>7. CASE UploadEnds
  <2>1. run # NoRun /\ run \in Runs /\ run.todo # <<>> /\ Head(run.todo) \in Targets
    BY <1>7, RunFields DEF UploadEnds, Running, RunInv
  <2>2. CASE Ok /\ run' = [run EXCEPT !.step = "cleanup"]
    <3>1. run'.good = run.good /\ run'.started = run.started /\ run'.todo = run.todo
      BY <2>1, <2>2 DEF Runs
    <3>2. PICK t \in Targets : t = Head(run.todo)
      BY <2>1
    <3>3. PICK at \in Times : at = run.started
      BY <2>1, RunFields
    <3>4. files' = [files EXCEPT ![t] = @ \cup {[at |-> at, whole |-> TRUE]}]
      BY Zenon, <1>7, <2>1, <2>2, <3>2, <3>3 DEF UploadEnds, Runs
    <3>5. [at |-> at, whole |-> TRUE] \in files'[t] /\ at \in Int
      BY <3>4 DEF ShapeInv, Times
    <3>6. Holds(t, at)'
      BY <3>5 DEF Holds
    <3>7. QED
      BY <1>3, <2>1, <3>1, <3>2, <3>3, <3>6 DEF RunInv
  <2>3. CASE run' = [run EXCEPT !.bad = @ \cup {Head(run.todo)}, !.todo = Tail(@), !.step = "upload"]
    <3>1. run'.good = run.good /\ run'.started = run.started /\ run'.step = "upload"
      BY <2>1, <2>3 DEF Runs
    <3>2. QED
      BY <1>3, <2>1, <3>1, RunFields DEF RunInv
  <2>4. QED
    BY <1>7, <2>2, <2>3 DEF UploadEnds
<1>8. CASE Cleanup
  <2>1. run # NoRun /\ run \in Runs /\ run.todo # <<>> /\ Head(run.todo) \in Targets
        /\ run.step = "cleanup"
    BY <1>8, RunFields DEF Cleanup, Running, RunInv
  <2>2. /\ run'.good = run.good \cup {Head(run.todo)} /\ run'.started = run.started
        /\ run'.step = "upload"
    BY <1>8, <2>1 DEF Cleanup, Runs
  <2>3. QED
    BY <1>3, <2>1, <2>2, RunFields DEF RunInv
<1>9. CASE Finish \/ Restart
  <2>1. run' = NoRun
    BY <1>9 DEF Finish, Record, Restart
  <2>2. QED
    BY <2>1 DEF RunInv
<1>10. CASE Advance \/ TakeTick \/ Click \/ Edit \/ UNCHANGED vars
  <2>1. run' = run
    BY Zenon, <1>10 DEF Advance, TakeTick, Click, Edit, vars
  <2>2. CASE run = NoRun
    BY <2>1, <2>2 DEF RunInv
  <2>3. CASE run # NoRun
    <3>1. \A t \in run.good : Holds(t, run.started)'
      BY <1>3, <2>1, <2>3, RunFields
    <3>2. run.step = "cleanup" => Holds(Head(run.todo), run.started)'
      BY <1>3, <2>1, <2>3, RunFields DEF RunInv
    <3>3. QED
      BY <2>1, <2>3, <3>1, <3>2 DEF RunInv
  <2>4. QED
    BY <2>2, <2>3
<1>11. QED
  BY <1>4, <1>5, <1>6, <1>7, <1>8, <1>9, <1>10 DEF Next

\* The histories stay restorable: an entry is added with the targets counted as good,
\* and no target loses what an entry needs.
LEMMA RestorableStep == Inv /\ [Next]_vars => Restorable(history)' /\ Restorable(disk.history)'
<1> SUFFICES ASSUME Inv, [Next]_vars PROVE Restorable(history)' /\ Restorable(disk.history)'
  OBVIOUS
<1>1. ShapeInv /\ RunInv /\ ShapeInv'
  BY ShapeStep DEF Inv
<1>2. \A t \in Targets, at \in Times : Holds(t, at) => Holds(t, at)'
  BY <1>1, HoldsStays
<1> DEFINE Kept(e) == \A t \in Targets, at \in Times : t \in e.targets /\ at = e.started => Holds(t, at)'
<1>3. \A i \in 1 .. Len(history) : Kept(history[i])
  BY <1>2 DEF Inv, Restorable
<1>4. \A i \in 1 .. Len(disk.history) : Kept(disk.history[i])
  BY <1>2 DEF Inv, Restorable
<1>5. (\A i \in 1 .. Len(history') : Kept(history'[i])) /\ (\A i \in 1 .. Len(disk'.history) : Kept(disk'.history[i]))
  <2>1. CASE \E status \in Status, saved \in BOOLEAN : Record(status, saved) /\ run # NoRun
    <3>1. run \in Runs /\ run # NoRun
      BY <1>1, <2>1, RunFields
    <3>2. \A status \in Status :
            Kept([started |-> run.started, targets |-> run.good, status |-> status])
      BY <1>1, <1>2, <3>1 DEF RunInv
    <3>3. \A i \in 1 .. Len(history') : Kept(history'[i])
      <4>1. PICK status \in Status :
              \A i \in 1 .. Len(history') :
                \/ \E j \in 1 .. Len(history) : history'[i] = history[j]
                \/ history'[i] = [started |-> run.started, targets |-> run.good, status |-> status]
        BY <1>1, <2>1, <3>1, RecordedHistory
      <4> HIDE DEF Kept
      <4>2. QED
        BY <1>3, <3>2, <4>1
    <3>4. disk' = disk \/ disk'.history = history'
      BY Zenon, <1>1, <2>1, <3>1, RecordedHistory
    <3>5. QED
      BY <1>4, <3>3, <3>4
  <2>2. CASE /\ history' \in {history, disk.history}
             /\ disk'.history \in {history, disk.history}
    BY <1>3, <1>4, <2>2
  <2>3. QED
    BY <2>1, <2>2, HistoryWrites
<1>6. (\A i \in 1 .. Len(history') : history'[i] \in Entries)
      /\ (\A i \in 1 .. Len(disk'.history) : disk'.history[i] \in Entries)
  BY <1>1, ElementOfSeq DEF ShapeInv
<1>7. \A e \in Entries : e.started \in Times /\ e.targets \subseteq Targets
  BY DEF Entries
<1>8. QED
  BY <1>5, <1>6, <1>7 DEF Restorable

\* The invariant holds in every state.
THEOREM Invariance == Spec => []Inv
<1>1. Inv /\ [Next]_vars => Inv'
  BY ShapeStep, RunStep, RestorableStep DEF Inv
<1>2. QED
  BY <1>1, InvInit, PTL DEF Spec

\* runOnce and recordHistory: the targets that the latest history entry names hold a
\* complete backup at least as new as that entry, whatever runs, edits of the settings,
\* failed steps and restarts came after it.
THEOREM HistoryIsRestorable == Spec => []HistoryRestorable
<1>1. Inv => HistoryRestorable
  <2> SUFFICES ASSUME Inv, history # <<>> PROVE HistoryRestorable
    BY DEF HistoryRestorable
  <2>1. Len(history) \in 1 .. Len(history)
    BY DEF Inv, ShapeInv
  <2>2. QED
    BY <2>1 DEF Inv, Restorable, Holds, HistoryRestorable
<1>2. QED
  BY <1>1, Invariance, PTL

\* cleanupLocal, cleanupSFTP and cleanupS3: no step removes a backup unless as many newer
\* complete ones stay at that target as the run under way is to keep.
THEOREM RetentionKeepsNewest == Spec => NewestKept
<1>1. Inv /\ [Next]_vars =>
        [\A t \in Targets : \A f \in files[t] \ files'[t] :
           Cardinality({g \in files'[t] : g.whole /\ g.at > f.at}) >= run.keep]_vars
  BY Removal DEF Inv
<1>2. QED
  BY <1>1, Invariance, PTL DEF Spec, NewestKept

-----------------------------------------------------------------------------
\* The clock and what is noted of it: ticks come at odd times and are not from the future,
\* and no run is recorded that began after the last sign of one.
Noted == -1 .. now
ClockInv ==
  /\ now \in Times /\ edits \in Nat /\ crashes \in Nat
  /\ tick = None \/ (tick \in Noted /\ tick % 2 = 1)
  /\ log \in [first : Noted, fired : Noted, active : Noted]
  /\ log.fired # None /\ tick # None => log.fired < tick
  /\ nextFire \in Int
  /\ lastRun \in Int /\ lastRun <= log.active
  /\ disk.lastRun \in Int /\ disk.lastRun <= log.active
  /\ run # NoRun => run.started \in Noted
  /\ caller \in [{"sched", "page"} -> {"idle", "calls", "runs"}]

\* The minute m needs no call of RunNow any more, or is about to get one.
Past(m) ==
  \/ log.active > 4 * m - 2
  \/ run # NoRun /\ now > 4 * m - 2
  \/ log.fired # None /\ Minute(log.fired) = m - 1
  \/ caller.sched = "calls" /\ log.fired # None /\ m <= Minute(log.fired)

\* With the settings the process was given: a fire time is that of a minute which matches
\* and was not fired; no earlier match since the first tick is left out; a tick is taken at
\* once, or when the run that the scheduler waited for ends; and so is a fire time
\* that a run has overtaken replaced by the tick after that run.
SlotFirst == log.first = None => nextFire = None /\ log.fired = None
SlotFuture ==
  nextFire # None =>
    \E k \in 0 .. (Minute(MaxTime) + 1) : /\ nextFire = 4 * k /\ Matches(cfg.schedule, k)
                                          /\ log.fired # None => k > Minute(log.fired)
SlotKept ==
  log.first # None =>
    \A m \in (Minute(log.first) + 1) .. (Minute(MaxTime) + 1) :
      Matches(cfg.schedule, m) => Past(m) \/ (nextFire # None /\ nextFire <= 4 * m)
SlotCall == caller.sched = "calls" => log.fired # None
SlotTick == caller.sched = "idle" /\ tick # None => tick = now \/ log.active = now
SlotStale ==
  caller.sched = "idle" /\ nextFire # None /\ nextFire < lastRun =>
    \/ log.active = now
    \/ tick = None /\ log.active >= now - 1 + (now % 2)
    \/ tick = now /\ log.active >= now - 2
SlotInv ==
  edits = 0 => /\ cfg.enabled /\ disk.cfg = cfg
               /\ SlotFirst /\ SlotFuture /\ SlotKept /\ SlotCall /\ SlotTick /\ SlotStale

\* The minute a time lies in.
LEMMA MinuteIs ==
  ASSUME NEW t \in Nat
  PROVE  /\ Minute(t) \in Nat
         /\ 4 * Minute(t) <= t /\ t < 4 * Minute(t) + 4
         /\ Minute(t + 4) = Minute(t) + 1
BY DEF Minute

\* Next returns the first minute that matches after the one it is given, if there is one.
LEMMA AfterIs ==
  ASSUME NEW s, NEW t \in Nat
  PROVE  LET later == (Minute(t) + 1) .. (Minute(MaxTime) + 1) IN
         \/ After(s, t) = None /\ \A m \in later : ~Matches(s, m)
         \/ \E k \in later : /\ After(s, t) = 4 * k /\ Matches(s, k)
                             /\ \A m \in later : Matches(s, m) => k <= m
<1> DEFINE range == (Minute(t) + 1) .. (Minute(MaxTime) + 1)
           S == {m \in range : Matches(s, m)}
<1>1. S \subseteq Nat
  <2>1. Minute(t) \in Nat /\ Minute(MaxTime) \in Nat
    BY MinuteIs, BackupAssumption
  <2>2. QED
    BY <2>1
<1>2. After(s, t) = IF S = {} THEN None ELSE 4 * Min(S)
  BY DEF After
<1>3. CASE S = {}
  <2>1. \A m \in range : ~Matches(s, m)
    BY <1>3
  <2>2. QED
    BY <1>2, <1>3, <2>1
<1>4. CASE S # {}
  <2> HIDE DEF S
  <2>1. PICK k \in S : \A m \in S : ~(<<m, k>> \in OpToRel(<, Nat))
    BY Zenon, <1>1, <1>4, NatLessThanWellFounded, WFMin
  <2>2. \A m \in S : k <= m
    <3> TAKE m \in S
    <3>1. k \in Nat /\ m \in Nat
      BY <1>1
    <3>2. ~(m < k)
      BY Zenon, <2>1, <3>1 DEF OpToRel
    <3>3. QED
      BY <3>1, <3>2
  <2>3. Min(S) \in S /\ \A m \in S : Min(S) <= m
    BY <2>2 DEF Min
  <2>4. Min(S) \in range /\ Matches(s, Min(S)) /\ \A m \in range : Matches(s, m) => Min(S) <= m
    BY <2>3 DEF S
  <2>5. QED
    BY <1>2, <1>4, <2>4
<1>5. QED
  BY <1>3, <1>4

\* It lies in the future.
LEMMA AfterIsLater ==
  ASSUME NEW s, NEW t \in Nat, After(s, t) # None
  PROVE  After(s, t) \in Nat /\ After(s, t) > t
<1>1. PICK k \in (Minute(t) + 1) .. (Minute(MaxTime) + 1) : After(s, t) = 4 * k
  BY AfterIs
<1>2. Minute(t) \in Nat /\ t < 4 * Minute(t) + 4 /\ Minute(MaxTime) \in Nat
  BY MinuteIs, BackupAssumption
<1>3. QED
  BY <1>1, <1>2

\* What a tick does, with backups enabled: the fire time stands and has not come, or it is due,
\* or there is none that still counts and the next one lies after the tick.
TickStands == nextFire # None /\ nextFire >= lastRun /\ tick < nextFire
              /\ nextFire' = nextFire /\ caller'.sched = "idle" /\ log'.fired = log.fired
TickFires == nextFire # None /\ nextFire >= lastRun /\ tick >= nextFire
             /\ nextFire' = After(cfg.schedule, tick + 4)
             /\ caller'.sched = "calls" /\ log'.fired = tick
TickLooks == (nextFire = None \/ nextFire < lastRun)
             /\ nextFire' = After(cfg.schedule, tick)
             /\ caller'.sched = "idle" /\ log'.fired = log.fired

\* A tick with the schedule enabled leaves the fire time, fires, or looks for a new one.
LEMMA TickCases ==
  ASSUME ClockInv, cfg.enabled, TakeTick
  PROVE  /\ TickStands \/ TickFires \/ TickLooks
         /\ log'.first = (IF log.first = None THEN tick ELSE log.first)
         /\ log'.active = log.active
<1> DEFINE nf == IF nextFire = None \/ nextFire < lastRun THEN After(cfg.schedule, tick) ELSE nextFire
           due == cfg.enabled /\ nf # None /\ tick >= nf
<1>1. /\ nextFire' = IF due THEN After(cfg.schedule, tick + 4) ELSE nf
      /\ caller' = [caller EXCEPT !.sched = IF due THEN "calls" ELSE "idle"]
      /\ log' = [log EXCEPT !.first = IF @ = None THEN tick ELSE @,
                            !.fired = IF due THEN tick ELSE @]
      /\ tick # None
  BY Zenon DEF TakeTick
<1>2. caller'.sched = (IF due THEN "calls" ELSE "idle")
  BY <1>1 DEF ClockInv
<1>3. /\ log'.first = (IF log.first = None THEN tick ELSE log.first)
      /\ log'.fired = (IF due THEN tick ELSE log.fired)
      /\ log'.active = log.active
  BY <1>1 DEF ClockInv
<1>4. tick \in Nat /\ nextFire \in Int /\ lastRun \in Int
  BY <1>1 DEF ClockInv, Noted, Times, None
<1>5. CASE nextFire = None \/ nextFire < lastRun
  <2>1. nf = After(cfg.schedule, tick)
    BY <1>5
  <2>2. nf # None => nf \in Nat /\ nf > tick
    BY <1>4, <2>1, AfterIsLater
  <2>3. ~due
    BY <1>4, <2>2
  <2>4. QED
    BY <1>1, <1>2, <1>3, <1>5, <2>1, <2>3 DEF TickLooks
<1>6. CASE ~(nextFire = None \/ nextFire < lastRun)
  <2>1. nf = nextFire /\ nextFire # None /\ nextFire >= lastRun
    BY <1>4, <1>6
  <2>2. CASE due
    BY <1>1, <1>2, <1>3, <2>1, <2>2 DEF TickFires
  <2>3. CASE ~due
    <3>1. tick < nextFire
      BY <1>4, <2>1, <2>3
    <3>2. QED
      BY <1>1, <1>2, <1>3, <2>1, <2>3, <3>1 DEF TickStands
  <2>4. QED
    BY <2>2, <2>3
<1>7. QED
  BY <1>3, <1>5, <1>6

\* A run ends, recorded or not; it goes on; or the scheduler and the runs do nothing.
RunEnds ==
  /\ run # NoRun /\ run' = NoRun
  /\ caller' = [caller EXCEPT ![run.by] = "idle"]
  /\ log' = [log EXCEPT !.active = now]
  /\ lastRun' \in {lastRun, run.started}
  /\ disk' = disk \/ (disk'.cfg = cfg /\ disk'.lastRun = run.started)
RunGoesOn ==
  /\ run # NoRun /\ run' # NoRun /\ run'.started = run.started
  /\ UNCHANGED <<caller, log, lastRun, disk>>
Elsewhere ==
  /\ UNCHANGED <<run, log, lastRun, disk>>
  /\ caller' = caller \/ caller' = [caller EXCEPT !.page = "calls"]

\* What the steps do that are not about the clock, the settings or the start of a run.
LEMMA OtherSteps ==
  ASSUME ShapeInv, RunInv, [Next]_vars, ~Advance, ~TakeTick, ~Begin, ~Edit, ~Restart
  PROVE  /\ UNCHANGED <<now, tick, cfg, nextFire, edits, crashes>>
         /\ RunEnds \/ RunGoesOn \/ Elsewhere
<1>1. CASE Export
  <2>1. run \in Runs /\ run # NoRun
    BY <1>1, RunFields DEF Export, Running
  <2>2. CASE run' = [run EXCEPT !.step = "upload"] /\ UNCHANGED <<history, lastRun, disk, caller, log>>
    <3>1. run'.step = "upload" /\ run'.started = run.started
      BY <2>1, <2>2 DEF Runs
    <3>2. QED
      BY <1>1, <2>1, <2>2, <3>1 DEF Export, RunGoesOn, NoRun
  <2>3. CASE Record("error", TRUE)
    BY Zenon, <1>1, <2>1, <2>3 DEF Export, Record, RunEnds
  <2>4. CASE /\ run' = NoRun /\ caller' = [caller EXCEPT ![run.by] = "idle"]
             /\ log' = [log EXCEPT !.active = now]
             /\ UNCHANGED <<history, lastRun, disk>>
    BY <1>1, <2>1, <2>4 DEF Export, RunEnds
  <2>5. QED
    BY Zenon, <1>1, <2>2, <2>3, <2>4 DEF Export
<1>2. CASE UploadStarts \/ UploadEnds \/ Cleanup
  <2>1. run \in Runs /\ run # NoRun
    BY <1>2, RunFields DEF UploadStarts, UploadEnds, Cleanup, Running
  <2>2. run'.started = run.started /\ run' # NoRun
    <3>1. CASE UploadStarts
      BY Zenon, <2>1, <3>1 DEF UploadStarts, Runs, NoRun, Running
    <3>2. CASE UploadEnds
      BY Zenon, <2>1, <3>2 DEF UploadEnds, Runs, NoRun, Running
    <3>3. CASE Cleanup
      BY Zenon, <2>1, <3>3 DEF Cleanup, Runs, NoRun, Running
    <3>4. QED
      BY <1>2, <3>1, <3>2, <3>3
  <2>3. QED
    BY <1>2, <2>1, <2>2 DEF UploadStarts, UploadEnds, Cleanup, RunGoesOn
<1>3. CASE Finish
  <2>1. PICK status, saved : Record(status, saved)
    BY Zenon, <1>3 DEF Finish
  <2>2. run # NoRun /\ UNCHANGED <<now, tick, cfg, nextFire, edits, crashes>>
    BY <1>3 DEF Finish, Running
  <2>3. /\ run' = NoRun /\ lastRun' = run.started
        /\ caller' = [caller EXCEPT ![run.by] = "idle"] /\ log' = [log EXCEPT !.active = now]
        /\ disk' = IF saved THEN [cfg |-> cfg, lastRun |-> lastRun', history |-> history'] ELSE disk
    BY Zenon, <2>1 DEF Record
  <2>4. disk' = disk \/ (disk'.cfg = cfg /\ disk'.lastRun = run.started)
    BY <2>3
  <2>5. QED
    BY Zenon, <2>2, <2>3, <2>4 DEF RunEnds
<1>4. CASE Click \/ UNCHANGED vars
  BY <1>4 DEF Click, vars, Elsewhere
<1>5. QED
  BY <1>1, <1>2, <1>3, <1>4 DEF Next

\* Every step keeps the clock in order.
LEMMA ClockStep ==
  ASSUME ShapeInv, RunInv, ClockInv, [Next]_vars
  PROVE  ClockInv'
<1> USE DEF None, Times
<1>0. /\ now \in Times /\ edits \in Nat
      /\ log.first \in Noted /\ log.fired \in Noted /\ log.active \in Noted
      /\ MaxTime \in Nat
  BY BackupAssumption DEF ClockInv
<1>a. \A x \in Noted : x \in Int /\ x <= now
  BY <1>0 DEF Noted
<1>1. CASE Advance
  <2>1. now' = now + 1 /\ now < MaxTime /\ tick' \in {tick, now'} /\ (tick' # tick => now' % 2 = 1)
        /\ UNCHANGED <<nextFire, lastRun, disk, caller, run, log, edits, crashes>>
    BY <1>1 DEF Advance
  <2>2. \A x \in Noted : x \in Noted'
    BY <1>0, <2>1 DEF Noted
  <2>3. now' \in Noted' /\ log.fired < now'
    BY <1>0, <1>a, <2>1 DEF Noted
  <2>4. tick' = None \/ (tick' \in Noted' /\ tick' % 2 = 1)
    BY <2>1, <2>2, <2>3 DEF ClockInv
  <2>5. now' \in Times
    BY <1>0, <2>1
  <2>6. log' \in [first : Noted', fired : Noted', active : Noted']
    BY <2>1, <2>2 DEF ClockInv
  <2>7. QED
    BY <2>1, <2>2, <2>3, <2>4, <2>5, <2>6 DEF ClockInv
<1>2. CASE TakeTick
  <2>1. tick \in Noted /\ tick \in Nat /\ tick' = None
        /\ UNCHANGED <<now, lastRun, disk, run, edits, crashes>>
    BY <1>0, <1>2 DEF TakeTick, ClockInv, Noted
  <2>2. \A t \in Nat : After(cfg.schedule, t) \in Int
    BY AfterIsLater
  <2>3. nextFire' \in {None, nextFire, After(cfg.schedule, tick), After(cfg.schedule, tick + 4)}
    BY <1>2 DEF TakeTick
  <2>4. nextFire' \in Int
    <3>1. After(cfg.schedule, tick) \in Int /\ After(cfg.schedule, tick + 4) \in Int
      BY <2>1, <2>2
    <3>2. QED
      BY <2>3, <3>1 DEF ClockInv
  <2>5. \E a, b \in Noted : log' = [log EXCEPT !.first = a, !.fired = b]
    BY Zenon, <1>0, <1>2, <2>1 DEF TakeTick
  <2>6. log' \in [first : Noted, fired : Noted, active : Noted] /\ log'.active = log.active
    BY Zenon, <2>5 DEF ClockInv
  <2>7. caller' \in [{"sched", "page"} -> {"idle", "calls", "runs"}]
    BY <1>2 DEF TakeTick, ClockInv
  <2>8. Noted' = Noted
    BY <2>1 DEF Noted
  <2>9. QED
    BY <2>1, <2>4, <2>6, <2>7, <2>8 DEF ClockInv
<1>3. CASE Begin
  <2>1. /\ log' = [log EXCEPT !.active = now]
        /\ run' # NoRun => run'.started = now
        /\ UNCHANGED <<now, tick, nextFire, lastRun, disk, edits, crashes>>
    BY <1>3 DEF Begin
  <2>2. caller' \in [{"sched", "page"} -> {"idle", "calls", "runs"}]
    BY <1>3 DEF Begin, ClockInv
  <2>3. Noted' = Noted /\ now \in Noted
    BY <1>0, <2>1 DEF Noted
  <2>4. log' \in [first : Noted, fired : Noted, active : Noted] /\ log'.active = now
        /\ log'.fired = log.fired
    BY <2>1, <2>3 DEF ClockInv
  <2>5. lastRun <= now /\ disk.lastRun <= now
    BY <1>0, <1>a DEF ClockInv
  <2>6. QED
    BY <2>1, <2>2, <2>3, <2>4, <2>5 DEF ClockInv
<1>4. CASE Edit
  <2>1. /\ edits' = edits + 1 /\ disk'.lastRun = lastRun
        /\ UNCHANGED <<now, tick, nextFire, lastRun, caller, run, log, crashes>>
    BY Zenon, <1>4 DEF Edit
  <2>2. Noted' = Noted
    BY <2>1 DEF Noted
  <2>3. edits' \in Nat
    BY <2>1 DEF ClockInv
  <2>4. QED
    BY <2>1, <2>2, <2>3 DEF ClockInv
<1>5. CASE Restart
  <2>1. /\ log' = [log EXCEPT !.first = None, !.fired = None]
        /\ caller' = [sched |-> "idle", page |-> "idle"]
        /\ tick' = None /\ nextFire' = None /\ run' = NoRun /\ lastRun' = disk.lastRun
        /\ crashes' = crashes + 1 /\ UNCHANGED <<now, disk, edits>>
    BY <1>5 DEF Restart
  <2>2. Noted' = Noted /\ None \in Noted
    BY <1>0, <2>1 DEF Noted
  <2>3. log' \in [first : Noted, fired : Noted, active : Noted] /\ log'.active = log.active
    BY Zenon, <2>1, <2>2 DEF ClockInv
  <2>4. caller' \in [{"sched", "page"} -> {"idle", "calls", "runs"}]
    BY <2>1
  <2>5. QED
    BY <1>0, <2>1, <2>2, <2>3, <2>4 DEF ClockInv
<1>6. CASE ~(Advance \/ TakeTick \/ Begin \/ Edit \/ Restart)
  <2>1. UNCHANGED <<now, tick, nextFire, edits, crashes>> /\ (RunEnds \/ RunGoesOn \/ Elsewhere)
    BY <1>6, OtherSteps
  <2>2. Noted' = Noted /\ now \in Noted
    BY <1>0, <2>1 DEF Noted
  <2>3. CASE RunEnds
    <3>1. log' \in [first : Noted, fired : Noted, active : Noted] /\ log'.active = now
          /\ log'.fired = log.fired
      BY <2>2, <2>3 DEF ClockInv, RunEnds
    <3>2. run.started \in Noted /\ lastRun \in Int /\ lastRun <= now /\ disk.lastRun \in Int
          /\ disk.lastRun <= now
      BY <1>0, <1>a, <2>3 DEF ClockInv, RunEnds
    <3>3. lastRun' \in Int /\ lastRun' <= now /\ disk'.lastRun \in Int /\ disk'.lastRun <= now
      BY <1>a, <2>3, <3>2 DEF RunEnds
    <3>4. caller' \in [{"sched", "page"} -> {"idle", "calls", "runs"}]
      BY Zenon, <2>3 DEF RunEnds, ClockInv
    <3>5. QED
      BY <2>1, <2>2, <2>3, <3>1, <3>3, <3>4 DEF RunEnds, ClockInv
  <2>4. CASE RunGoesOn
    BY <2>1, <2>2, <2>4 DEF RunGoesOn, ClockInv
  <2>5. CASE Elsewhere
    <3>1. caller' \in [{"sched", "page"} -> {"idle", "calls", "runs"}]
      BY <2>5 DEF Elsewhere, ClockInv
    <3>2. QED
      BY <2>1, <2>2, <2>5, <3>1 DEF Elsewhere, ClockInv
  <2>6. QED
    BY <2>1, <2>3, <2>4, <2>5
<1>7. QED
  BY <1>1, <1>2, <1>3, <1>4, <1>5, <1>6

\* A step that starts or ends a run notes it, so that every minute so far is past.
LEMMA SlotTouch ==
  ASSUME ClockInv, SlotFirst, SlotFuture, SlotKept, SlotCall,
         UNCHANGED <<now, tick, cfg, nextFire>>,
         log' = [log EXCEPT !.active = now],
         caller'.sched = "calls" => caller.sched = "calls"
  PROVE  (SlotFirst /\ SlotFuture /\ SlotKept /\ SlotCall /\ SlotTick /\ SlotStale)'
<1>1. log'.active = now /\ log'.first = log.first /\ log'.fired = log.fired
  BY DEF ClockInv
<1>2. now \in Nat /\ log.active \in Int /\ log.active <= now
      /\ log.fired \in Int /\ log.fired <= now /\ log.first \in Int
      /\ (log.fired # None => log.fired \in Nat) /\ (log.first # None => log.first \in Nat)
  BY DEF ClockInv, Noted, Times, None
<1>3. ASSUME NEW m \in Nat, Past(m)
      PROVE  Past(m)'
  <2>1. CASE log.fired # None /\ Minute(log.fired) = m - 1
    BY <1>1, <2>1 DEF Past
  <2>2. CASE log.fired # None /\ m <= Minute(log.fired)
    <3>1. 4 * Minute(log.fired) <= log.fired /\ Minute(log.fired) \in Nat
      BY <1>2, <2>2, MinuteIs
    <3>2. now > 4 * m - 2
      BY <1>2, <2>2, <3>1
    <3>3. QED
      BY <1>1, <3>2 DEF Past
  <2>3. CASE log.active > 4 * m - 2 \/ (run # NoRun /\ now > 4 * m - 2)
    <3>1. now > 4 * m - 2
      BY <1>2, <2>3
    <3>2. QED
      BY <1>1, <3>1 DEF Past
  <2>4. QED
    BY <1>3, <2>1, <2>2, <2>3 DEF Past
<1>4. SlotKept'
  <2> SUFFICES ASSUME log.first # None,
                      NEW m \in (Minute(log.first) + 1) .. (Minute(MaxTime) + 1),
                      Matches(cfg.schedule, m), ~(nextFire # None /\ nextFire <= 4 * m)
               PROVE  Past(m)'
    BY <1>1 DEF SlotKept
  <2>1. m \in Nat
    BY <1>2, MinuteIs, BackupAssumption
  <2>2. Past(m)
    BY DEF SlotKept
  <2>3. QED
    BY <1>3, <2>1, <2>2
<1>5. SlotFirst' /\ SlotCall'
  BY <1>1 DEF SlotFirst, SlotCall
<1>6. SlotFuture'
  BY <1>1 DEF SlotFuture
<1>7. SlotTick' /\ SlotStale'
  BY <1>1 DEF SlotTick, SlotStale
<1>8. QED
  BY <1>4, <1>5, <1>6, <1>7

\* A step that has to do with neither leaves the schedule as it is.
LEMMA SlotRest ==
  ASSUME SlotFirst, SlotFuture, SlotKept, SlotCall, SlotTick, SlotStale,
         UNCHANGED <<now, tick, cfg, nextFire, log, lastRun>>,
         run' = NoRun <=> run = NoRun, caller'.sched = caller.sched
  PROVE  (SlotFirst /\ SlotFuture /\ SlotKept /\ SlotCall /\ SlotTick /\ SlotStale)'
<1>1. \A m : Past(m)' <=> Past(m)
  BY DEF Past
<1>2. SlotKept'
  BY <1>1 DEF SlotKept
<1>3. SlotFirst' /\ SlotFuture'
  BY DEF SlotFirst, SlotFuture
<1>4. SlotCall' /\ SlotTick' /\ SlotStale'
  BY DEF SlotCall, SlotTick, SlotStale
<1>5. QED
  BY <1>2, <1>3, <1>4

\* Time passes only while no tick waits for an idle scheduler.
LEMMA SlotAdvance ==
  ASSUME ClockInv, SlotFirst, SlotFuture, SlotKept, SlotCall, SlotStale, Advance
  PROVE  (SlotFirst /\ SlotFuture /\ SlotKept /\ SlotCall /\ SlotTick /\ SlotStale)'
<1>1. /\ now' = now + 1 /\ (caller.sched = "idle" => tick = None)
      /\ tick' = (IF now' % 2 = 1 /\ tick = None THEN now' ELSE tick)
      /\ UNCHANGED <<cfg, nextFire, lastRun, caller, run, log>>
  BY DEF Advance
<1>2. now \in Nat /\ log.active \in Int
  BY DEF ClockInv, Noted, Times
<1>3. \A m \in Int : Past(m) => Past(m)'
  BY <1>1, <1>2 DEF Past
<1>4. SlotKept'
  <2> SUFFICES ASSUME log.first # None,
                      NEW m \in (Minute(log.first) + 1) .. (Minute(MaxTime) + 1),
                      Matches(cfg.schedule, m), ~(nextFire # None /\ nextFire <= 4 * m)
               PROVE  Past(m)'
    BY <1>1 DEF SlotKept
  <2>1. Past(m)
    BY DEF SlotKept
  <2>2. QED
    BY <1>3, <2>1
<1>5. SlotFirst' /\ SlotFuture'
  BY <1>1 DEF SlotFirst, SlotFuture
<1>6. SlotCall' /\ SlotTick'
  BY Zenon, <1>1, <1>2 DEF SlotCall, SlotTick, None
<1>7. SlotStale'
  <2> SUFFICES ASSUME caller.sched = "idle", nextFire # None, nextFire < lastRun
               PROVE  \/ tick' = None /\ log.active >= now' - 1 + (now' % 2)
                      \/ tick' = now' /\ log.active >= now' - 2
    BY <1>1 DEF SlotStale
  <2>1. tick = None /\ log.active >= now - 1 + (now % 2)
    BY <1>1, <1>2 DEF SlotStale, None
  <2>2. CASE now % 2 = 0
    <3>1. now' % 2 = 1
      BY <1>1, <1>2, <2>2
    <3>2. QED
      BY <1>1, <1>2, <2>1, <2>2, <3>1
  <2>3. CASE now % 2 = 1
    <3>1. now' % 2 = 0
      BY <1>1, <1>2, <2>3
    <3>2. tick' = None
      BY <1>1, <2>1, <3>1
    <3>3. log.active >= now
      BY <1>2, <2>1, <2>3
    <3>4. QED
      BY <1>1, <1>2, <3>1, <3>2, <3>3
  <2>4. QED
    BY <1>2, <2>2, <2>3
<1>8. QED
  BY <1>4, <1>5, <1>6, <1>7

\* A tick that looks for the next fire time leaves no match behind.
LEMMA LooksBack ==
  ASSUME ClockInv, SlotKept, SlotStale, tick # None, caller.sched = "idle",
         nextFire = None \/ nextFire < lastRun, log.first # None,
         NEW m \in (Minute(log.first) + 1) .. Minute(tick), Matches(cfg.schedule, m)
  PROVE  Past(m)
<1>1. /\ now \in Nat /\ tick \in Nat /\ tick <= now /\ tick % 2 = 1
      /\ log.active \in Int /\ log.first \in Nat /\ tick <= MaxTime
  BY BackupAssumption DEF ClockInv, Noted, Times, None
<1>2. Minute(tick) \in Nat /\ 4 * Minute(tick) <= tick /\ Minute(log.first) \in Nat
  BY Zenon, <1>1, MinuteIs
<1>3. m \in Nat /\ m \in (Minute(log.first) + 1) .. (Minute(MaxTime) + 1)
  <2>1. Minute(tick) <= Minute(MaxTime) /\ Minute(MaxTime) \in Nat
    BY <1>1, BackupAssumption DEF Minute
  <2>2. QED
    BY <1>2, <2>1
<1>4. CASE nextFire = None
  BY <1>3, <1>4 DEF SlotKept
<1>5. CASE nextFire # None
  <2>1. log.active = now \/ (tick = now /\ log.active >= now - 2)
    BY <1>5 DEF SlotStale
  <2>2. 4 * m + 1 <= tick
    <3>1. m <= Minute(tick)
      BY <1>2, <1>3
    <3>2. 4 * m <= tick
      BY <1>1, <1>2, <1>3, <3>1
    <3>3. (4 * m) % 2 = 0
      BY <1>3
    <3>4. 4 * m # tick
      BY <1>1, <3>3
    <3>5. QED
      BY <1>1, <1>3, <3>2, <3>4
  <2>3. log.active > 4 * m - 2
    BY <1>1, <1>3, <2>1, <2>2
  <2>4. QED
    BY <2>3 DEF Past
<1>6. QED
  BY <1>4, <1>5

\* A tick leaves a fire time that has not come, fires one that has, or looks for the next.
LEMMA SlotTakes ==
  ASSUME ClockInv, cfg.enabled, SlotFirst, SlotFuture, SlotKept, SlotTick, SlotStale, TakeTick
  PROVE  (SlotFirst /\ SlotFuture /\ SlotKept /\ SlotCall /\ SlotTick /\ SlotStale)'
<1>1. /\ tick # None /\ tick' = None /\ caller.sched = "idle"
      /\ UNCHANGED <<now, cfg, lastRun, run>>
  BY DEF TakeTick
<1>2. /\ log'.first = (IF log.first = None THEN tick ELSE log.first)
      /\ log'.active = log.active
      /\ TickStands \/ TickFires \/ TickLooks
  BY TickCases
<1>3. /\ now \in Nat /\ tick \in Nat /\ tick <= now /\ tick % 2 = 1
      /\ log.active \in Int /\ log.active <= now /\ lastRun \in Int /\ lastRun <= log.active
      /\ nextFire \in Int /\ (log.fired # None => log.fired \in Nat /\ log.fired < tick)
      /\ (log.first # None => log.first \in Nat)
  BY <1>1 DEF ClockInv, Noted, Times, None
<1>4. Minute(tick) \in Nat /\ 4 * Minute(tick) <= tick /\ tick < 4 * Minute(tick) + 4
      /\ Minute(tick + 4) = Minute(tick) + 1 /\ Minute(MaxTime) \in Nat
  BY Zenon, <1>3, MinuteIs, BackupAssumption
<1>5. SlotFirst' /\ SlotTick'
  BY <1>1, <1>2 DEF SlotFirst, SlotTick
<1>6. CASE TickStands
  <2>1. /\ nextFire # None /\ nextFire >= lastRun /\ nextFire' = nextFire
        /\ caller'.sched = "idle" /\ log'.fired = log.fired
    BY <1>6 DEF TickStands
  <2>2. log.first # None /\ log'.first = log.first
    BY <1>2, <2>1 DEF SlotFirst
  <2>3. \A m : Past(m) => Past(m)'
    BY <1>1, <1>2, <2>1 DEF Past
  <2>4. SlotKept'
    BY <1>1, <2>1, <2>2, <2>3 DEF SlotKept
  <2>5. SlotFuture' /\ SlotCall'
    BY <1>1, <2>1 DEF SlotFuture, SlotCall
  <2>6. SlotStale'
    BY <1>1, <1>3, <2>1 DEF SlotStale
  <2>7. QED
    BY <1>5, <2>4, <2>5, <2>6
<1>7. CASE TickFires
  <2>1. /\ nextFire # None /\ nextFire' = After(cfg.schedule, tick + 4)
        /\ caller'.sched = "calls" /\ log'.fired = tick
    BY <1>7 DEF TickFires
  <2>2. log.first # None /\ log'.first = log.first
    BY <1>2, <2>1 DEF SlotFirst
  <2> DEFINE later == (Minute(tick) + 2) .. (Minute(MaxTime) + 1)
  <2>3. \/ nextFire' = None /\ \A m \in later : ~Matches(cfg.schedule, m)
        \/ \E k \in later : /\ nextFire' = 4 * k /\ Matches(cfg.schedule, k)
                            /\ \A m \in later : Matches(cfg.schedule, m) => k <= m
    <3>1. tick + 4 \in Nat /\ Minute(tick + 4) + 1 = Minute(tick) + 2
      BY <1>3, <1>4
    <3>2. QED
      BY <2>1, <3>1, AfterIs
  <2>4. \A m \in 0 .. (Minute(tick) + 1) : Past(m)'
    <3> SUFFICES ASSUME NEW m \in 0 .. (Minute(tick) + 1) PROVE Past(m)'
      OBVIOUS
    <3>1. m <= Minute(tick) \/ Minute(tick) = m - 1
      BY <1>4
    <3>2. QED
      BY <1>1, <2>1, <3>1 DEF Past
  <2>5. SlotKept'
    <3> SUFFICES ASSUME NEW m \in (Minute(log.first) + 1) .. (Minute(MaxTime) + 1),
                        Matches(cfg.schedule, m)
                 PROVE  Past(m)' \/ (nextFire' # None /\ nextFire' <= 4 * m)
      BY <1>1, <2>2 DEF SlotKept
    <3>1. m \in Nat
      <4>1. Minute(log.first) \in Nat
        BY Zenon, <1>3, <2>2, MinuteIs
      <4>2. QED
        BY <1>4, <4>1
    <3>2. CASE m <= Minute(tick) + 1
      BY <1>4, <2>4, <3>1, <3>2
    <3>3. CASE m > Minute(tick) + 1
      <4>1. m \in later
        BY <1>4, <3>1, <3>3
      <4>2. PICK k \in later : nextFire' = 4 * k /\ k <= m
        BY <2>3, <4>1
      <4>3. QED
        BY <1>4, <3>1, <4>2 DEF None
    <3>4. QED
      BY <1>4, <3>1, <3>2, <3>3
  <2>6. SlotFuture'
    <3>1. SUFFICES ASSUME nextFire' # None
                   PROVE  \E k \in 0 .. (Minute(MaxTime) + 1) :
                            nextFire' = 4 * k /\ Matches(cfg.schedule, k) /\ k > Minute(tick)
      BY <1>1, <2>1 DEF SlotFuture
    <3>2. PICK k \in later : nextFire' = 4 * k /\ Matches(cfg.schedule, k)
      BY <2>3, <3>1
    <3>3. k \in 0 .. (Minute(MaxTime) + 1) /\ k > Minute(tick)
      BY <1>4
    <3>4. QED
      BY <3>2, <3>3
  <2>7. SlotCall' /\ SlotStale'
    BY <1>1, <2>1 DEF SlotCall, SlotStale
  <2>8. QED
    BY <1>5, <2>5, <2>6, <2>7
<1>8. CASE TickLooks
  <2>1. /\ nextFire = None \/ nextFire < lastRun
        /\ nextFire' = After(cfg.schedule, tick)
        /\ caller'.sched = "idle" /\ log'.fired = log.fired
    BY <1>8 DEF TickLooks
  <2> DEFINE later == (Minute(tick) + 1) .. (Minute(MaxTime) + 1)
  <2>2. \/ nextFire' = None /\ \A m \in later : ~Matches(cfg.schedule, m)
        \/ \E k \in later : /\ nextFire' = 4 * k /\ Matches(cfg.schedule, k)
                            /\ \A m \in later : Matches(cfg.schedule, m) => k <= m
    BY <1>3, <2>1, AfterIs
  <2>3. \A m : Past(m) => Past(m)'
    BY <1>1, <1>2, <2>1 DEF Past
  <2>4. ASSUME log.first # None, NEW m \in (Minute(log.first) + 1) .. Minute(tick),
               Matches(cfg.schedule, m)
        PROVE  Past(m)
    BY <1>1, <2>1, <2>4, LooksBack
  <2>5. SlotKept'
    <3> SUFFICES ASSUME NEW m \in (Minute(log'.first) + 1) .. (Minute(MaxTime) + 1),
                        Matches(cfg.schedule, m)
                 PROVE  Past(m)' \/ (nextFire' # None /\ nextFire' <= 4 * m)
      BY <1>1 DEF SlotKept
    <3>1. log'.first \in Nat
      BY <1>2, <1>3
    <3>2. m \in Nat
      <4>1. Minute(log'.first) \in Nat
        BY Zenon, <3>1, MinuteIs
      <4>2. QED
        BY <1>4, <4>1
    <3>3. CASE m > Minute(tick)
      <4>1. m \in later
        BY <1>4, <3>2, <3>3
      <4>2. PICK k \in later : nextFire' = 4 * k /\ k <= m
        BY <2>2, <4>1
      <4>3. QED
        BY <1>4, <3>2, <4>2 DEF None
    <3>4. CASE m <= Minute(tick)
      <4>1. log.first # None /\ log'.first = log.first
        <5>1. SUFFICES ASSUME log.first = None PROVE FALSE
          BY <1>2
        <5>2. Minute(log'.first) = Minute(tick)
          BY <1>2, <5>1
        <5>3. QED
          BY <1>4, <3>2, <3>4, <5>2
      <4>2. m \in (Minute(log.first) + 1) .. Minute(tick)
        BY <1>4, <3>1, <3>2, <3>4, <4>1, MinuteIs
      <4>3. QED
        BY <2>3, <2>4, <4>1, <4>2
    <3>5. QED
      BY <1>4, <3>2, <3>3, <3>4
  <2>6. SlotFuture'
    <3>1. SUFFICES ASSUME nextFire' # None
                   PROVE  \E k \in 0 .. (Minute(MaxTime) + 1) :
                            /\ nextFire' = 4 * k /\ Matches(cfg.schedule, k)
                            /\ log.fired # None => k > Minute(log.fired)
      BY <1>1, <2>1 DEF SlotFuture
    <3>2. PICK k \in later : nextFire' = 4 * k /\ Matches(cfg.schedule, k)
      BY <2>2, <3>1
    <3>3. k \in 0 .. (Minute(MaxTime) + 1) /\ k > Minute(tick)
      BY <1>4
    <3>4. log.fired # None => Minute(log.fired) <= Minute(tick) /\ Minute(log.fired) \in Nat
      BY <1>3 DEF Minute
    <3>5. QED
      BY <1>4, <3>2, <3>3, <3>4
  <2>7. SlotStale'
    <3>1. nextFire' # None => nextFire' \in Nat /\ nextFire' > tick
      BY <1>3, <2>1, AfterIsLater
    <3>2. CASE tick = now
      BY <1>1, <1>3, <3>1, <3>2 DEF SlotStale
    <3>3. CASE log.active = now
      BY <1>1, <1>2, <3>3 DEF SlotStale
    <3>4. QED
      BY <1>1, <3>2, <3>3 DEF SlotTick
  <2>8. SlotCall'
    BY <2>1 DEF SlotCall
  <2>9. QED
    BY <1>5, <2>5, <2>6, <2>7, <2>8
<1>9. QED
  BY <1>2, <1>6, <1>7, <1>8

\* Every step keeps to the schedule.
LEMMA SlotStep ==
  ASSUME ShapeInv, RunInv, ClockInv, SlotInv, [Next]_vars
  PROVE  SlotInv'
<1> DEFINE Kept == SlotFirst /\ SlotFuture /\ SlotKept /\ SlotCall /\ SlotTick /\ SlotStale
<1>1. CASE Edit
  <2>1. edits' = edits + 1 /\ edits \in Nat
    BY Zenon, <1>1 DEF Edit, ClockInv
  <2>2. edits' # 0
    BY <2>1
  <2>3. QED
    BY <2>2 DEF SlotInv
<1>2. CASE edits' = edits /\ edits = 0 /\ ~Edit
  <2>1. cfg.enabled /\ disk.cfg = cfg /\ Kept
    BY <1>2 DEF SlotInv
  <2> SUFFICES cfg'.enabled /\ disk'.cfg = cfg' /\ Kept'
    BY DEF SlotInv
  <2>2. CASE Advance
    <3>1. UNCHANGED <<cfg, disk>>
      BY <2>2 DEF Advance
    <3>2. QED
      BY <2>1, <2>2, <3>1, SlotAdvance
  <2>3. CASE TakeTick
    <3>1. UNCHANGED <<cfg, disk>>
      BY <2>3 DEF TakeTick
    <3>2. QED
      BY <2>1, <2>3, <3>1, SlotTakes
  <2>4. CASE Begin
    <3>1. /\ UNCHANGED <<now, tick, cfg, nextFire, disk>>
          /\ log' = [log EXCEPT !.active = now]
      BY <2>4 DEF Begin
    <3>2. caller'.sched = "calls" => caller.sched = "calls"
      BY <2>4 DEF Begin, ClockInv
    <3>3. QED
      BY <2>1, <3>1, <3>2, SlotTouch
  <2>5. CASE Restart
    <3>1. /\ cfg' = disk.cfg /\ disk' = disk /\ tick' = None /\ nextFire' = None
          /\ caller' = [sched |-> "idle", page |-> "idle"]
          /\ log' = [log EXCEPT !.first = None, !.fired = None]
      BY <2>5 DEF Restart
    <3>2. caller'.sched = "idle" /\ log'.first = None /\ log'.fired = None
      BY <3>1 DEF ClockInv
    <3>3. SlotFirst' /\ SlotFuture' /\ SlotKept'
      BY <3>1, <3>2 DEF SlotFirst, SlotFuture, SlotKept
    <3>4. SlotCall' /\ SlotTick' /\ SlotStale'
      BY <3>1, <3>2 DEF SlotCall, SlotTick, SlotStale
    <3>5. QED
      BY <2>1, <3>1, <3>3, <3>4
  <2>6. CASE ~(Advance \/ TakeTick \/ Begin \/ Edit \/ Restart)
    <3>1. UNCHANGED <<now, tick, cfg, nextFire>> /\ (RunEnds \/ RunGoesOn \/ Elsewhere)
      BY <2>6, OtherSteps
    <3>2. CASE RunEnds
      <4>1. /\ log' = [log EXCEPT !.active = now] /\ (disk' = disk \/ disk'.cfg = cfg)
            /\ caller' = [caller EXCEPT ![run.by] = "idle"]
        BY <3>2 DEF RunEnds
      <4>2. caller'.sched = "calls" => caller.sched = "calls"
        BY <4>1 DEF ClockInv
      <4>3. QED
        BY <2>1, <3>1, <4>1, <4>2, SlotTouch
    <3>3. CASE RunGoesOn
      BY <2>1, <3>1, <3>3, SlotRest DEF RunGoesOn
    <3>4. CASE Elsewhere
      <4>1. caller'.sched = caller.sched
        BY <3>4 DEF Elsewhere, ClockInv
      <4>2. QED
        BY <2>1, <3>1, <3>4, <4>1, SlotRest DEF Elsewhere
    <3>5. QED
      BY <3>1, <3>2, <3>3, <3>4
  <2>7. QED
    BY <1>2, <2>2, <2>3, <2>4, <2>5, <2>6
<1>3. Edit \/ edits' = edits
  BY OtherSteps DEF Advance, TakeTick, Begin, Restart
<1>4. CASE edits' # 0
  BY <1>4 DEF SlotInv
<1>5. QED
  BY <1>1, <1>2, <1>3, <1>4

\* The clock and the schedule are in order in every state.
LEMMA Scheduled == Spec => [](ClockInv /\ SlotInv)
<1>1. Init => ClockInv /\ SlotInv
  <2> SUFFICES ASSUME Init PROVE ClockInv /\ SlotInv
    OBVIOUS
  <2>1. /\ now = 0 /\ tick = None /\ nextFire = None /\ lastRun = None /\ run = NoRun
        /\ log = [first |-> None, fired |-> None, active |-> None] /\ edits = 0 /\ crashes = 0
        /\ caller = [sched |-> "idle", page |-> "idle"]
    BY DEF Init
  <2>2. cfg.enabled /\ disk.cfg = cfg /\ disk.lastRun = None
    BY DEF Init
  <2>3. now \in Times /\ None \in Noted
    BY SMTT(30), <2>1, BackupAssumption DEF Times, Noted, None
  <2>4. ClockInv
    BY <2>1, <2>2, <2>3 DEF ClockInv, None
  <2>5. SlotInv
    BY <2>1, <2>2 DEF SlotInv, SlotFirst, SlotFuture, SlotKept, SlotCall, SlotTick, SlotStale
  <2>6. QED
    BY <2>4, <2>5
<1>2. ShapeInv /\ RunInv /\ ClockInv /\ SlotInv /\ [Next]_vars => ClockInv' /\ SlotInv'
  BY ClockStep, SlotStep
<1>3. QED
  BY <1>1, <1>2, Invariance, PTL DEF Spec, Inv

\* shouldFire and cron.Next: with unchanged settings a tick passes over a matching minute
\* only when a run was under way then or since, or when the minute follows a firing, and it
\* fires only for a match that the last firing was not for.
THEOREM ScheduleIsCovered == Spec => SlotsCovered
<1> DEFINE Missed(m) == ~(\/ run # NoRun \/ log.active > 4 * m - 2
                          \/ log.fired # None /\ Minute(log.fired) = m - 1)
           Passes == tick # None /\ tick' = None /\ log.first # None /\ log'.fired = log.fired
                     /\ crashes' = crashes
           Again == log.fired # None /\ log'.fired \notin {None, log.fired}
<1>1. ASSUME ShapeInv, RunInv, ClockInv, SlotInv, [Next]_vars, edits = 0
      PROVE  /\ Passes => \A m \in (Minute(log.first) + 1) .. Minute(tick) :
                            Matches(cfg.schedule, m) => ~Missed(m)
             /\ Again => \E m \in (Minute(log.fired) + 1) .. Minute(log'.fired) : Matches(cfg.schedule, m)
  <2>1. cfg.enabled /\ SlotFirst /\ SlotFuture /\ SlotKept /\ SlotStale
    BY <1>1 DEF SlotInv
  <2>2. Passes \/ Again => TakeTick
    <3> SUFFICES ASSUME ~TakeTick PROVE ~Passes /\ ~Again
      OBVIOUS
    <3>1. CASE Advance
      BY <3>1 DEF Advance
    <3>2. CASE Begin
      <4>1. log' = [log EXCEPT !.active = now] /\ tick' = tick
        BY <3>2 DEF Begin
      <4>2. log'.fired = log.fired
        BY <1>1, <4>1 DEF ClockInv
      <4>3. QED
        BY <4>1, <4>2
    <3>3. CASE Edit
      BY Zenon, <3>3 DEF Edit
    <3>4. CASE Restart
      <4>1. log' = [log EXCEPT !.first = None, !.fired = None] /\ crashes' = crashes + 1
        BY <3>4 DEF Restart
      <4>2. log'.fired = None
        BY <1>1, <4>1 DEF ClockInv
      <4>3. crashes \in Nat
        BY <1>1 DEF ClockInv
      <4>4. QED
        BY <4>1, <4>2, <4>3
    <3>5. CASE ~(Advance \/ TakeTick \/ Begin \/ Edit \/ Restart)
      <4>1. tick' = tick /\ (RunEnds \/ RunGoesOn \/ Elsewhere)
        BY <1>1, <3>5, OtherSteps
      <4>2. log' = log \/ log' = [log EXCEPT !.active = now]
        BY <4>1 DEF RunEnds, RunGoesOn, Elsewhere
      <4>3. log'.fired = log.fired
        BY <1>1, <4>2 DEF ClockInv
      <4>4. QED
        BY <4>1, <4>3
    <3>6. QED
      BY <3>1, <3>2, <3>3, <3>4, <3>5
  <2>3. ASSUME TakeTick
        PROVE  /\ tick # None /\ caller.sched = "idle" /\ tick \in Nat /\ tick <= MaxTime
               /\ nextFire \in Int
               /\ log.fired # None => log.fired \in Nat /\ log.fired < tick
               /\ log.first # None => log.first \in Nat
               /\ TickStands \/ TickFires \/ TickLooks
    <3>1. tick # None /\ caller.sched = "idle"
      BY <2>3 DEF TakeTick
    <3>2. TickStands \/ TickFires \/ TickLooks
      BY <1>1, <2>1, <2>3, TickCases
    <3>3. /\ tick \in Nat /\ tick <= MaxTime /\ nextFire \in Int
          /\ log.fired # None => log.fired \in Nat /\ log.fired < tick
          /\ log.first # None => log.first \in Nat
      BY <1>1, <3>1, BackupAssumption DEF ClockInv, Noted, Times, None
    <3>4. QED
      BY <3>1, <3>2, <3>3
  <2>4. ASSUME Passes, NEW m \in (Minute(log.first) + 1) .. Minute(tick), Matches(cfg.schedule, m)
        PROVE  ~Missed(m)
    <3>1. Past(m)
      <4>1. ~TickFires
        BY <2>2, <2>3, <2>4 DEF TickFires
      <4>2. CASE TickLooks
        BY <1>1, <2>1, <2>2, <2>3, <2>4, <4>2, LooksBack DEF TickLooks
      <4>3. CASE TickStands
        <5>1. /\ Minute(tick) \in Nat /\ 4 * Minute(tick) <= tick /\ Minute(log.first) \in Nat
              /\ tick \in Nat /\ nextFire \in Int /\ tick < nextFire
          BY Zenon, <2>2, <2>3, <2>4, <4>3, MinuteIs DEF TickStands
        <5>2. Minute(tick) <= Minute(MaxTime) /\ Minute(MaxTime) \in Nat
          <6>1. tick <= MaxTime
            BY <2>2, <2>3, <2>4
          <6>2. QED
            BY <5>1, <6>1, BackupAssumption DEF Minute
        <5>3. m \in (Minute(log.first) + 1) .. (Minute(MaxTime) + 1) /\ m \in Nat /\ m <= Minute(tick)
          BY <5>1, <5>2
        <5>4. ~(nextFire <= 4 * m)
          BY <5>1, <5>3
        <5>5. QED
          BY <2>1, <2>4, <5>3, <5>4 DEF SlotKept
      <4>4. QED
        BY <2>2, <2>3, <2>4, <4>1, <4>2, <4>3
    <3>2. QED
      BY <2>2, <2>3, <2>4, <3>1 DEF Past
  <2>5. ASSUME Again
        PROVE  \E m \in (Minute(log.fired) + 1) .. Minute(log'.fired) : Matches(cfg.schedule, m)
    <3>1. TickFires
      BY <2>2, <2>3, <2>5 DEF TickStands, TickLooks
    <3>2. nextFire # None /\ tick >= nextFire /\ log'.fired = tick
      BY <3>1 DEF TickFires
    <3>3. PICK k \in 0 .. (Minute(MaxTime) + 1) :
            nextFire = 4 * k /\ Matches(cfg.schedule, k) /\ k > Minute(log.fired)
      BY <2>1, <2>5, <3>2 DEF SlotFuture
    <3>4. /\ Minute(log.fired) \in Nat /\ Minute(tick) \in Nat /\ tick \in Nat
          /\ tick < 4 * Minute(tick) + 4
      BY Zenon, <2>2, <2>3, <2>5, MinuteIs
    <3>5. k \in Nat
      OBVIOUS
    <3>6. k \in (Minute(log.fired) + 1) .. Minute(tick)
      BY <3>2, <3>3, <3>4, <3>5
    <3>7. QED
      BY <3>2, <3>3, <3>6
  <2>6. QED
    BY <2>4, <2>5
<1>2. ShapeInv /\ RunInv /\ ClockInv /\ SlotInv /\ [Next]_vars =>
        [edits = 0 =>
           /\ tick # None /\ tick' = None /\ log.first # None /\ log'.fired = log.fired
                /\ crashes' = crashes =>
              \A m \in (Minute(log.first) + 1) .. Minute(tick) :
                Matches(cfg.schedule, m) =>
                  \/ run # NoRun \/ log.active > 4 * m - 2
                  \/ log.fired # None /\ Minute(log.fired) = m - 1
           /\ log.fired # None /\ log'.fired \notin {None, log.fired} =>
              \E m \in (Minute(log.fired) + 1) .. Minute(log'.fired) : Matches(cfg.schedule, m)]_vars
  BY Zenon, <1>1
<1>3. QED
  BY <1>2, Invariance, Scheduled, PTL DEF Spec, Inv, SlotsCovered
=============================================================================
