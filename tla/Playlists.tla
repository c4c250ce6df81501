----------------------------- MODULE Playlists -----------------------------
(***************************************************************************)
(* The M3U sync of the NAS page (internal/services/nas.go,                  *)
(* internal/web/handlers/nas.go): playlists are downloaded, parsed,         *)
(* filtered by group and written as one .strm file per item, by a goroutine *)
(* that runs under the context of the request that started it.              *)
(*                                                                          *)
(* A line of a playlist is an #EXTINF line with or without a group and a    *)
(* title, another comment, or the URL of an item.                           *)
(***************************************************************************)
EXTENDS Integers, Sequences, SequencesExt, FiniteSets

CONSTANTS
  Syncs,             \* goroutines that HandleSyncM3U may start
  sanitizePath(_),   \* what it makes of a group or a title
  ToLower(_),        \* strings.ToLower, of a group
  MaxFaults,         \* bound: file operations that fail
  Envs               \* what is configured and served, a sequence of sources
                     \* [allowed, lines, include, exclude], and the goroutines started

VARIABLES
  env,        \* the sources, and the goroutines, of this behaviour
  files,      \* .strm files: a function from [source, group, title] to a URL
  running,    \* m3uStatus.Running
  report,     \* m3uStatus.TotalItems and .Errors; items -1 before the first sync ends
  pc,         \* per goroutine: "idle", "begin", "source", "write" or "done"
  live,       \* is its context still live?
  at,         \* its local variables: the source, items yet to write, its counts
  faults,
  skipped     \* history: a source was left out without being counted as an error

vars == <<env, files, running, report, pc, live, at, faults, skipped>>

Absent == "absent"
Fresh == [source |-> 1, items |-> <<>>, total |-> 0, errors |-> 0]

----------------------------------------------------------------------------
(* Parsing and filtering *)

\* Mutant: the group of an item is kept for the next one.
ParseLineKeepsGroup(acc, line) ==
  CASE line.kind = "extinf" ->
         [acc EXCEPT !.group = IF line.group # Absent THEN line.group ELSE @,
                     !.title = IF line.title # Absent THEN line.title ELSE @]
    [] line.kind = "url" ->
         [acc EXCEPT !.title = "", !.items = Append(@,
            [group |-> IF acc.group = "" THEN "Ungrouped" ELSE acc.group,
             title |-> IF acc.title = "" THEN "Unknown" ELSE acc.title, url |-> line.url])]
    [] OTHER -> acc

\* One line of downloadAndParseM3U: the items so far, and the current group and title.
ParseLine(acc, line) ==
  CASE line.kind = "extinf" ->
         [acc EXCEPT !.group = IF line.group # Absent THEN line.group ELSE @,
                     !.title = IF line.title # Absent THEN line.title ELSE @]
    [] line.kind = "url" ->
         [group |-> "", title |-> "",
          items |-> Append(acc.items,
            [group |-> IF acc.group = "" THEN "Ungrouped" ELSE acc.group,
             title |-> IF acc.title = "" THEN "Unknown" ELSE acc.title, url |-> line.url])]
    [] OTHER -> acc

downloadAndParseM3U(lines) ==
  FoldLeft(ParseLine, [items |-> <<>>, group |-> "", title |-> ""], lines).items

filterM3UItems(items, include, exclude) ==
  LET among(item, groups) == ToLower(item.group) \in {ToLower(g) : g \in groups}
  IN  SelectSeq(items, LAMBDA i : ~among(i, exclude) /\ (include # {} => among(i, include)))

PathOf(s, item) == [source |-> s, group |-> sanitizePath(item.group), title |-> sanitizePath(item.title)]

----------------------------------------------------------------------------
(* The sync *)

Init ==
  /\ env \in Envs
  /\ files = <<>>
  /\ running = FALSE
  /\ report = [items |-> -1, errors |-> 0]
  /\ pc = [p \in Syncs |-> "idle"]
  /\ live = [p \in Syncs |-> FALSE]
  /\ at = [p \in Syncs |-> Fresh]
  /\ faults = 0
  /\ skipped = FALSE

\* The handler starts the goroutine and answers; with the answer the context ends.
HandleSyncM3U(p) ==
  /\ pc[p] = "idle"
  /\ p \in env.syncs
  /\ pc' = [pc EXCEPT ![p] = "begin"]
  /\ live' = [live EXCEPT ![p] = TRUE]
  /\ UNCHANGED <<env, files, running, report, at, faults, skipped>>

Answered(p) ==
  /\ live[p]
  /\ live' = [live EXCEPT ![p] = FALSE]
  /\ UNCHANGED <<env, files, running, report, pc, at, faults, skipped>>

SyncBegins(p) ==
  /\ pc[p] = "begin"
  /\ running' = TRUE
  /\ pc' = [pc EXCEPT ![p] = "source"]
  /\ UNCHANGED <<env, files, report, live, at, faults, skipped>>

Fault == faults < MaxFaults /\ faults' = faults + 1

\* The next source; a path outside /srv and /mnt, or a failed download, is counted
\* as an error, a directory that cannot be made is not.
NextSource(p) ==
  LET i == at[p].source
      src == env.sources[i]
  IN
  /\ pc[p] = "source"
  /\ i <= Len(env.sources)
  /\ \/ /\ src.allowed /\ live[p]
        /\ pc' = [pc EXCEPT ![p] = "write"]
        /\ at' = [at EXCEPT ![p].items = filterM3UItems(downloadAndParseM3U(src.lines), src.include, src.exclude)]
        /\ UNCHANGED <<faults, skipped>>
     \/ /\ ~src.allowed \/ ~live[p]
        /\ at' = [at EXCEPT ![p].errors = @ + 1, ![p].source = @ + 1]
        /\ UNCHANGED <<pc, faults, skipped>>
     \/ /\ src.allowed /\ live[p] /\ Fault
        /\ at' = [at EXCEPT ![p].source = @ + 1]
        /\ skipped' = TRUE
        /\ UNCHANGED pc
  /\ UNCHANGED <<env, files, running, report, live>>

\* One item: its file, or an error.
WriteItem(p) ==
  LET item == Head(at[p].items)
      path == PathOf(at[p].source, item)
  IN
  /\ pc[p] = "write"
  /\ at[p].items # <<>>
  /\ \/ /\ files' = [x \in DOMAIN files \cup {path} |-> IF x = path THEN item.url ELSE files[x]]
        /\ at' = [at EXCEPT ![p].items = Tail(@), ![p].total = @ + 1]
        /\ UNCHANGED faults
     \/ /\ Fault
        /\ at' = [at EXCEPT ![p].items = Tail(@), ![p].errors = @ + 1]
        /\ UNCHANGED files
  /\ UNCHANGED <<env, running, report, pc, live, skipped>>

SourceDone(p) ==
  /\ pc[p] = "write"
  /\ at[p].items = <<>>
  /\ pc' = [pc EXCEPT ![p] = "source"]
  /\ at' = [at EXCEPT ![p].source = @ + 1]
  /\ UNCHANGED <<env, files, running, report, live, faults, skipped>>

\* The counts are published; Running goes FALSE whoever else is still at work.
SyncEnds(p) ==
  /\ pc[p] = "source"
  /\ at[p].source > Len(env.sources)
  /\ report' = [items |-> at[p].total, errors |-> at[p].errors]
  /\ running' = FALSE
  /\ pc' = [pc EXCEPT ![p] = "done"]
  /\ at' = [at EXCEPT ![p] = Fresh]
  /\ UNCHANGED <<env, files, live, faults, skipped>>

Next ==
  \E p \in Syncs :
    \/ HandleSyncM3U(p) \/ Answered(p)
    \/ SyncBegins(p) \/ NextSource(p) \/ WriteItem(p) \/ SourceDone(p) \/ SyncEnds(p)

Spec == Init /\ [][Next]_vars

----------------------------------------------------------------------------
(* Properties *)

TypeOK ==
  /\ running \in BOOLEAN
  /\ skipped \in BOOLEAN
  /\ pc \in [Syncs -> {"idle", "begin", "source", "write", "done"}]
  /\ faults \in 0 .. MaxFaults

\* What a playlist says, without a parser: a URL belongs to the lines after the URL
\* before it, and the last of them that names a group, or a title, gives it.
Named(lines, u, field, default) ==
  LET before == {k \in 1 .. u - 1 : lines[k].kind = "url"}
      own == {k \in 1 .. u - 1 : /\ \A b \in before : b < k
                                 /\ lines[k].kind = "extinf" /\ lines[k][field] # Absent}
      name == IF own = {} THEN "" ELSE lines[CHOOSE k \in own : \A j \in own : j <= k][field]
  IN  IF name = "" THEN default ELSE name

Wanted(s) ==
  LET src == env.sources[s]
      lines == src.lines
      item(u) == [group |-> Named(lines, u, "group", "Ungrouped"),
                  title |-> Named(lines, u, "title", "Unknown"), url |-> lines[u].url]
      all == {item(u) : u \in {k \in DOMAIN lines : lines[k].kind = "url"}}
  IN  {i \in all : /\ src.allowed
                   /\ \A g \in src.exclude : ToLower(g) # ToLower(i.group)
                   /\ src.include = {} \/ \E g \in src.include : ToLower(g) = ToLower(i.group)}

\* The .strm files are those of items that the playlists have, in the groups the
\* operator asked for, whichever syncs overlap and are cut off; and once a sync has
\* reported no error, none is missing, unless a directory could not be made.
FilesAreWanted ==
  LET wanted(path) == {i \in Wanted(path.source) : PathOf(path.source, i) = path}
  IN
  /\ \A path \in DOMAIN files : files[path] \in {i.url : i \in wanted(path)}
  /\ report.items >= 0 /\ report.errors = 0 /\ ~skipped =>
       \A s \in DOMAIN env.sources : \A i \in Wanted(s) : PathOf(s, i) \in DOMAIN files
=============================================================================
