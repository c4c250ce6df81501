------------------------------ MODULE Archive ------------------------------
(***************************************************************************)
(* Export and import of the configuration, factory reset and reboot from    *)
(* the system page (internal/services/backup.go,                            *)
(* internal/web/handlers/system.go), with the password change as the edit   *)
(* that is saved meanwhile and the start that loads router.yaml             *)
(* (cmd/lankeeper/serve.go, internal/config/config.go).                     *)
(*                                                                          *)
(* A configuration is opaque.  Export packs the directory /etc/lankeeper    *)
(* under its own name, so its router.yaml is the member                     *)
(* lankeeper/router.yaml; Import joins member names to /etc/lankeeper.  A   *)
(* router.yaml is known by how many directories named lankeeper lie between *)
(* it and the directory it belongs to.                                      *)
(***************************************************************************)
EXTENDS Integers, Sequences, SequencesExt

CONSTANTS
  Requests,     \* the HTTP requests that may be in progress at once
  Configs,      \* configurations, as the edits of the operator make them
  Keys,         \* passphrases
  MaxDepth,     \* bound: nested copies of the directory that are followed
  Envs          \* bounds: requests made, seconds that pass, steps that fail, the
                \* requests that may overlap; and are the defaults installed?

VARIABLES
  mem,       \* the configuration in memory
  files,     \* per depth, the router.yaml there, or None; 0 is the one that is loaded
  tmp,       \* the exports in /tmp, by the second in their name
  now,       \* the clock, in seconds
  got,       \* what browsers were sent: [name, key, seen, data]
  todo,      \* the steps each request has yet to do
  at,        \* the local variables of each request
  env, calls, faults,
  began,     \* history: how many exports began, by second
  want       \* history: the configuration a restart should load after the last import

vars == <<mem, files, tmp, now, got, todo, at, env, calls, faults, began, want>>

None == "none"
Factory == "factory"
Depths == 0 .. MaxDepth
Seconds == 0 .. 2
NoFile == [keys |-> <<>>, members |-> <<>>]
Nothing == [op |-> None, name |-> 0, key |-> None, data |-> NoFile, seen |-> {}, left |-> {}, to |-> None]

Init ==
  /\ mem \in Configs
  /\ files = [d \in Depths |-> IF d = 0 THEN mem ELSE None]
  /\ tmp = [s \in Seconds |-> NoFile]
  /\ now = 0
  /\ got = {}
  /\ todo = [p \in Requests |-> <<>>]
  /\ at = [p \in Requests |-> Nothing]
  /\ env \in Envs
  /\ calls = 0 /\ faults = 0
  /\ began = [s \in Seconds |-> 0]
  /\ want = None

Active(p) == todo[p] # <<>>

Begin(p, steps, local) ==
  /\ ~Active(p)
  /\ p \in env.reqs
  /\ calls < env.calls
  /\ calls' = calls + 1
  /\ todo' = [todo EXCEPT ![p] = steps]
  /\ at' = [at EXCEPT ![p] = local]

Next1(p, step) == Active(p) /\ Head(todo[p]) = step

DoneWith(p, a) ==
  /\ todo' = [todo EXCEPT ![p] = Tail(@)]
  /\ at' = [at EXCEPT ![p] = IF Len(todo[p]) = 1 THEN Nothing ELSE a]

Return(p) ==
  /\ todo' = [todo EXCEPT ![p] = <<>>]
  /\ at' = [at EXCEPT ![p] = Nothing]

\* An export that is under way has seen every router.yaml there was meanwhile.
Noting(conf) ==
  [p \in Requests |-> IF at[p].op = "export" THEN [at[p] EXCEPT !.seen = @ \cup {conf}] ELSE at[p]]

----------------------------------------------------------------------------
(* Archives: the passphrases they are sealed with, outermost last, and the   *)
(* members, by the number of directories in their name.                      *)

Pack(fs) == [keys |-> <<>>, members |-> [d \in 1 .. MaxDepth |-> fs[d - 1]]]

encryptBackup(a, key) == [a EXCEPT !.keys = Append(@, key)]

CanDecrypt(a, key) == a.keys # <<>> /\ Last(a.keys) = key
decryptBackup(a, key) == [a EXCEPT !.keys = Front(@)]

\* filepath.Join(destRoot, clean): the depth at which a member lands.
Target(d) == d

\* Mutant: all exports share one file.
OutputPathFixed(second) == 0

\* The exports of one second share one file.
OutputPath(second) == second

----------------------------------------------------------------------------
(* Requests *)

\* The edit, and the save of the whole configuration.
HandleChangeWebPassword(p, c) ==
  /\ mem' = c
  /\ want' = None
  /\ Begin(p, <<"save">>, [Nothing EXCEPT !.op = "edit"])
  /\ UNCHANGED <<files, tmp, now, got, env, faults, began>>

\* The archive is one level deeper than the directory: the last depth is a bound.
HandleExport(p, key) ==
  /\ files[MaxDepth] = None
  /\ Begin(p, <<"tar", "read", "seal", "serve", "remove">>,
           [Nothing EXCEPT !.op = "export", !.name = OutputPath(now), !.key = key, !.seen = {files[0]}])
  /\ began' = [began EXCEPT ![now] = @ + 1]
  /\ UNCHANGED <<mem, files, tmp, now, got, env, faults, want>>

\* The upload has a temporary file of its own; key None is an empty passphrase.
HandleImport(p, a, key) ==
  /\ Begin(p, <<"open", "member">>, [Nothing EXCEPT !.op = "import", !.data = a, !.key = key])
  /\ UNCHANGED <<mem, files, tmp, now, got, env, faults, began, want>>

HandleFactoryReset(p) ==
  /\ Begin(p, <<"defaults", "reboot">>, [Nothing EXCEPT !.op = "reset"])
  /\ UNCHANGED <<mem, files, tmp, now, got, env, faults, began, want>>

HandleReboot(p) ==
  /\ Begin(p, <<"reboot">>, [Nothing EXCEPT !.op = "reboot"])
  /\ UNCHANGED <<mem, files, tmp, now, got, env, faults, began, want>>

----------------------------------------------------------------------------
(* Steps *)

\* SaveToFile writes what memory holds by then.
Save(p) ==
  /\ Next1(p, "save")
  /\ files' = [files EXCEPT ![0] = mem]
  /\ todo' = [todo EXCEPT ![p] = Tail(@)]
  /\ at' = [Noting(mem) EXCEPT ![p] = Nothing]
  /\ UNCHANGED <<mem, tmp, now, got, env, calls, faults, began, want>>

Tar(p) ==
  /\ Next1(p, "tar")
  /\ tmp' = [tmp EXCEPT ![at[p].name] = Pack(files)]
  /\ DoneWith(p, at[p])
  /\ UNCHANGED <<mem, files, now, got, env, calls, faults, began, want>>

ReadArchive(p) ==
  /\ Next1(p, "read")
  /\ IF tmp[at[p].name] = NoFile THEN Return(p)
                               ELSE DoneWith(p, [at[p] EXCEPT !.data = tmp[at[p].name]])
  /\ UNCHANGED <<mem, files, tmp, now, got, env, calls, faults, began, want>>

Seal(p) ==
  /\ Next1(p, "seal")
  /\ tmp' = [tmp EXCEPT ![at[p].name] = encryptBackup(at[p].data, at[p].key)]
  /\ DoneWith(p, [at[p] EXCEPT !.data = NoFile])
  /\ UNCHANGED <<mem, files, now, got, env, calls, faults, began, want>>

\* http.ServeFile answers 404 if the file is gone.
Serve(p) ==
  /\ Next1(p, "serve")
  /\ got' = IF tmp[at[p].name] = NoFile THEN got
            ELSE got \cup {[name |-> at[p].name, key |-> at[p].key, seen |-> at[p].seen,
                            data |-> tmp[at[p].name]]}
  /\ DoneWith(p, at[p])
  /\ UNCHANGED <<mem, files, tmp, now, env, calls, faults, began, want>>

RemoveExport(p) ==
  /\ Next1(p, "remove")
  /\ tmp' = [tmp EXCEPT ![at[p].name] = NoFile]
  /\ Return(p)
  /\ UNCHANGED <<mem, files, now, got, env, calls, faults, began, want>>

\* Decrypt and open: what is not a plain archive by then is an error.
Open(p) ==
  LET a == at[p].data
      opened == IF at[p].key = None THEN a ELSE decryptBackup(a, at[p].key)
  IN
  /\ Next1(p, "open")
  /\ IF (at[p].key # None => CanDecrypt(a, at[p].key)) /\ opened.keys = <<>>
     THEN DoneWith(p, [at[p] EXCEPT
            !.data = opened, !.left = {d \in 1 .. MaxDepth : opened.members[d] # None},
            !.to = opened.members[1]])
     ELSE Return(p)
  /\ UNCHANGED <<mem, files, tmp, now, got, env, calls, faults, began, want>>

\* One member after the other, in the order in which tar met them.
WriteMember(p) ==
  /\ Next1(p, "member")
  /\ \E d \in at[p].left :
       /\ files' = [files EXCEPT ![Target(d)] = at[p].data.members[d]]
       /\ IF at[p].left = {d}
          THEN want' = at[p].to /\ Return(p)
          ELSE /\ at' = [at EXCEPT ![p].left = @ \ {d}]
               /\ UNCHANGED <<todo, want>>
  /\ UNCHANGED <<mem, tmp, now, got, env, calls, faults, began>>

\* Without a directory of defaults the reset is answered as an error.
FactoryReset(p) ==
  /\ Next1(p, "defaults")
  /\ IF env.defaults
     THEN /\ files' = [files EXCEPT ![0] = Factory]
          /\ todo' = [todo EXCEPT ![p] = Tail(@)]
          /\ at' = [Noting(Factory) EXCEPT ![p].to = Factory]
          /\ want' = None
     ELSE Return(p) /\ UNCHANGED <<files, want>>
  /\ UNCHANGED <<mem, tmp, now, got, env, calls, faults, began>>

\* runServe loads router.yaml; requests and /tmp do not outlive a reboot.
Reboot(p) ==
  /\ Next1(p, "reboot")
  /\ mem' = files[0]
  /\ tmp' = [s \in Seconds |-> NoFile]
  /\ todo' = [q \in Requests |-> <<>>]
  /\ at' = [q \in Requests |-> Nothing]
  /\ UNCHANGED <<files, now, got, env, calls, faults, began, want>>

\* A failed save, tar, read, write or member is answered as an error; of a reset,
\* a write or a reboot that fails is only logged.
Fails(p) ==
  /\ faults < env.faults
  /\ faults' = faults + 1
  /\ \/ \E step \in {"save", "tar", "read", "seal", "open", "member", "reboot"} : Next1(p, step) /\ Return(p)
     \/ Next1(p, "defaults") /\ env.defaults /\ DoneWith(p, at[p])
  /\ UNCHANGED <<mem, files, tmp, now, got, env, calls, began, want>>

Tick ==
  /\ now < env.seconds
  /\ now' = now + 1
  /\ UNCHANGED <<mem, files, tmp, got, todo, at, env, calls, faults, began, want>>

Step(p) ==
  \/ Save(p) \/ Tar(p) \/ ReadArchive(p) \/ Seal(p) \/ Serve(p) \/ RemoveExport(p)
  \/ Open(p) \/ WriteMember(p) \/ FactoryReset(p) \/ Reboot(p)

Handle(p) ==
  \/ \E c \in Configs : HandleChangeWebPassword(p, c)
  \/ \E key \in Keys : HandleExport(p, key)
  \/ \E g \in got, key \in Keys \cup {None} : HandleImport(p, g.data, key)
  \/ HandleFactoryReset(p)
  \/ HandleReboot(p)

Next == Tick \/ \E p \in Requests : Handle(p) \/ Step(p) \/ Fails(p)

Spec == Init /\ [][Next]_vars

----------------------------------------------------------------------------
(* Properties *)

TypeOK ==
  /\ mem \in Configs \cup {Factory}
  /\ files \in [Depths -> Configs \cup {Factory, None}]
  /\ now \in Seconds
  /\ \A p \in Requests : at[p].name \in Seconds /\ at[p].left \subseteq 1 .. MaxDepth

\* A browser that was sent an export can open it with the passphrase of its own
\* request, and finds a router.yaml that was in force while the request ran,
\* whatever was saved, imported or reset meanwhile; the file has one name per
\* second, so exports of one second are left out (HandleExport).
ExportHonest ==
  \A g \in got :
    began[g.name] = 1 => g.data.keys = <<g.key>> /\ g.data.members[1] \in g.seen

\* "Config export -> factory reset -> import": once an import has been answered as
\* done, and nothing was changed since, the router.yaml that the next start loads
\* is the one in the archive.
ImportRestores == want # None => files[0] = want
=============================================================================
