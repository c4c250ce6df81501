------------------------------ MODULE Settings ------------------------------
(***************************************************************************)
(* The pages that edit a list of the configuration and put it into force:   *)
(* NTP, syslog, NAS, routing policies and the firewall's lists              *)
(* (internal/web/handlers and internal/services: ntp, syslog, nas, routing, *)
(* firewall; internal/config/config.go).                                    *)
(*                                                                          *)
(* One configuration in memory is shared by all of them and saved as a      *)
(* whole.  A request edits its list, saves, and on three of the pages       *)
(* renders the daemon's file and reloads the daemon.  The NAS and routing   *)
(* services hold a mutex over edit and save; the others hold none, and a Go *)
(* slice is a length over an array that edits change in place, so an edit   *)
(* reads the slice and assigns it in two steps.                             *)
(***************************************************************************)
EXTENDS Integers, Sequences, FiniteSets

CONSTANTS
  Requests,       \* the HTTP requests that may be in progress at once
  Names,          \* hosts, subnets, facilities, shares, policies, rules
  Forms,          \* the contents of a form of scalar settings
  MaxEntries,     \* MaxNTPSources, MaxNTPAllowSubnets
  Envs            \* bounds, one set of which a behaviour has: the requests that may
                  \* overlap, the lists they edit, how many are made, steps that
                  \* fail, restarts of the process

VARIABLES
  mem,        \* the configuration in memory: [list, form]
  disk,       \* router.yaml
  file,       \* the rendered file of each page that has one
  live,       \* what its daemon runs with
  mu,         \* who holds the mutex of the NAS and of the routing service
  configMu,   \* who holds configMu
  todo,       \* the steps each request has yet to do
  at,         \* the local variables of each request
  env, calls, faults, restarts,
  disturbed,  \* history: pages whose requests overlapped, failed or were cut off
  lost,       \* history: lists with an edit whose save failed
  count       \* history: how many entries were added less those removed

vars == <<mem, disk, file, live, mu, configMu, todo, at, env, calls, faults, restarts,
          disturbed, lost, count>>

Nobody == "nobody"
Lists == {"sources", "subnets", "facilities", "shares", "policies", "forwards", "ports", "rules"}
Blocks == {"ntp", "server", "client"}
Locked == {"shares", "policies"}
Rendered == {"ntp", "syslog", "nas"}
Pages == Rendered \cup {"routing", "firewall"}

PageOf(l) ==
  CASE l \in {"sources", "subnets", "ntp"} -> "ntp"
    [] l \in {"facilities", "server", "client"} -> "syslog"
    [] l = "shares" -> "nas"
    [] l = "policies" -> "routing"
    [] OTHER -> "firewall"

\* val: the priority of a policy or a rule, and whether a rule is enabled.
Entry == [name : Names, val : Int, on : BOOLEAN]
Nothing == [list |-> "ports", op |-> "none", name |-> CHOOSE x \in Names : TRUE, i |-> 0, n |-> 0,
            val |-> 0, on |-> TRUE, order |-> <<>>, form |-> CHOOSE f \in Forms : TRUE,
            head |-> <<>>, snap |-> <<>>]

----------------------------------------------------------------------------
(* A configuration *)

Visible(s) == SubSeq(s.arr, 1, s.len)
Slice(seq) == [arr |-> seq, len |-> Len(seq)]
View(c) == [list |-> [l \in Lists |-> Visible(c.list[l])], form |-> c.form]
LoadFrom(v) == [list |-> [l \in Lists |-> Slice(v.list[l])], form |-> v.form]

\* The lengths that are read before the elements are.
Heads(c) == [len |-> [l \in Lists |-> c.list[l].len], form |-> c.form]
Elements(c, h) == [list |-> [l \in Lists |-> SubSeq(c.list[l].arr, 1, h.len[l])], form |-> h.form]

\* What the template of a page is given.
PagePart(v, page) ==
  [list |-> [l \in {x \in Lists : PageOf(x) = page} |-> v.list[l]],
   form |-> [b \in {x \in Blocks : PageOf(x) = page} |-> v.form[b]]]

Max(seq) == CHOOSE m \in {0} \cup {seq[i].val : i \in DOMAIN seq} : \A i \in DOMAIN seq : seq[i].val <= m
NextPriority(seq) == Max(seq) + 10
IndexOf(seq, name) ==
  CHOOSE i \in DOMAIN seq : seq[i].name = name /\ \A j \in 1 .. i - 1 : seq[j].name # name
Has(seq, name) == \E i \in DOMAIN seq : seq[i].name = name

\* append(s, e) and append(s[:i], s[i+1:]...), of a slice whose length was read
\* as n: they write to the array as it is now.
Appended(s, n, e) ==
  [arr |-> SubSeq(s.arr, 1, n) \o <<e>> \o SubSeq(s.arr, n + 2, Len(s.arr)), len |-> n + 1]
Cut(s, n, i) ==
  [arr |-> [k \in DOMAIN s.arr |-> IF k \in i .. n - 1 THEN s.arr[k + 1] ELSE s.arr[k]], len |-> n - 1]

----------------------------------------------------------------------------
(* Requests *)

Init ==
  /\ mem = [list |-> [l \in Lists |-> Slice(<<>>)], form |-> [b \in Blocks |-> Nothing.form]]
  /\ disk = View(mem)
  /\ file = [page \in Rendered |-> PagePart(disk, page)]
  /\ live = file
  /\ mu = [l \in Locked |-> Nobody]
  /\ configMu = Nobody
  /\ todo = [p \in Requests |-> <<>>]
  /\ at = [p \in Requests |-> Nothing]
  /\ env \in Envs
  /\ calls = 0 /\ faults = 0 /\ restarts = 0
  /\ disturbed = {} /\ lost = {}
  /\ count = [l \in Lists |-> 0]

Active(p) == todo[p] # <<>>
OnPage(page) == {p \in Requests : Active(p) /\ PageOf(at[p].list) = page}

Save == <<"marshal", "encode", "commit">>
Edit(l) == IF l \in Locked THEN <<"lock", "read", "assign">> \o Save \o <<"unlock">>
                           ELSE <<"read", "assign">> \o Save
ApplyConfig(l) == IF PageOf(l) \in Rendered THEN <<"head", "render", "write", "reload">> ELSE <<>>

\* What lies behind a slice is forgotten once no request can still see it.
Begin(p, local) ==
  /\ ~Active(p)
  /\ p \in env.reqs
  /\ local.list \in env.lists
  /\ calls < env.calls
  /\ calls' = calls + 1
  /\ todo' = [todo EXCEPT ![p] = Edit(local.list) \o ApplyConfig(local.list)]
  /\ at' = [at EXCEPT ![p] = local]
  /\ mem' = IF \E q \in Requests : Active(q) THEN mem ELSE LoadFrom(View(mem))
  /\ disturbed' = disturbed \cup (IF OnPage(PageOf(local.list)) = {} THEN {} ELSE {PageOf(local.list)})
  /\ UNCHANGED <<disk, file, live, mu, configMu, env, faults, restarts, lost, count>>

To(l, op) == [Nothing EXCEPT !.list = l, !.op = op]
Now(l) == Visible(mem.list[l])

\* What the services refuse: an entry that is there already, one more than there is
\* room for (no facility is refused for want of room), a position past the end.
AddSource(name) == Len(Now("sources")) < MaxEntries /\ ~Has(Now("sources"), name)
AddAllowSubnet(name) == Len(Now("subnets")) < MaxEntries /\ ~Has(Now("subnets"), name)
AddFacility(name) == ~Has(Now("facilities"), name)
RemoveSource(i) == i <= Len(Now("sources"))
RemoveAllowSubnet(i) == i <= Len(Now("subnets"))
RemoveFacility(i) == i <= Len(Now("facilities"))

HandleAddSource(p, name) ==
  AddSource(name) /\ Begin(p, [To("sources", "add") EXCEPT !.name = name])
HandleAddAllowSubnet(p, name) ==
  AddAllowSubnet(name) /\ Begin(p, [To("subnets", "add") EXCEPT !.name = name])
HandleAddFacility(p, name) ==
  AddFacility(name) /\ Begin(p, [To("facilities", "add") EXCEPT !.name = name])

\* The position is the one on the page that the browser shows.
HandleRemoveSource(p, i) ==
  RemoveSource(i) /\ Begin(p, [To("sources", "remove") EXCEPT !.i = i])
HandleRemoveAllowSubnet(p, i) ==
  RemoveAllowSubnet(i) /\ Begin(p, [To("subnets", "remove") EXCEPT !.i = i])
HandleRemoveFacility(p, i) ==
  RemoveFacility(i) /\ Begin(p, [To("facilities", "remove") EXCEPT !.i = i])

\* A form of the NTP page, or of the syslog server, is assigned as it was posted;
\* that of the syslog client is filled into a copy of the block, facilities
\* included, which is then put back.
HandleSaveSettings(p, f) == Begin(p, [To("sources", "ntp") EXCEPT !.form = f])
HandleSaveServerConfig(p, f) == Begin(p, [To("facilities", "server") EXCEPT !.form = f])
HandleSaveClientConfig(p, f) == Begin(p, [To("facilities", "client") EXCEPT !.form = f])

HandleAddShare(p, name) == Begin(p, [To("shares", "add") EXCEPT !.name = name])
HandleDeleteShare(p, name) == Begin(p, [To("shares", "remove") EXCEPT !.name = name])

HandleAddPolicy(p, name) == Begin(p, [To("policies", "add") EXCEPT !.name = name])
HandleDeletePolicy(p, name) == Begin(p, [To("policies", "remove") EXCEPT !.name = name])
HandleReorder(p, order) == Begin(p, [To("policies", "reorder") EXCEPT !.order = order])

HandleAddPortForward(p, name) == Begin(p, [To("forwards", "add") EXCEPT !.name = name])
HandleAddOpenPort(p, name) == Begin(p, [To("ports", "add") EXCEPT !.name = name])
HandleAddRule(p, name) ==
  Begin(p, [To("rules", "add") EXCEPT !.name = name, !.val = NextPriority(Now("rules"))])

HandleDeletePortForward(p, i) ==
  i <= Len(Now("forwards")) /\ Begin(p, [To("forwards", "remove") EXCEPT !.i = i])
HandleDeleteOpenPort(p, i) ==
  i <= Len(Now("ports")) /\ Begin(p, [To("ports", "remove") EXCEPT !.i = i])
HandleDeleteRule(p, i) ==
  i <= Len(Now("rules")) /\ Begin(p, [To("rules", "remove") EXCEPT !.i = i])
HandleToggleOpenPort(p, i, on) ==
  i <= Len(Now("ports")) /\ Begin(p, [To("ports", "toggle") EXCEPT !.i = i, !.on = on])
HandleToggleRule(p, i, on) ==
  i <= Len(Now("rules")) /\ Begin(p, [To("rules", "toggle") EXCEPT !.i = i, !.on = on])

----------------------------------------------------------------------------
(* One step of a request *)

Next1(p, step) == Active(p) /\ Head(todo[p]) = step

\* The step is done and leaves the local variables a.
DoneWith(p, a) ==
  /\ todo' = [todo EXCEPT ![p] = Tail(@)]
  /\ at' = [at EXCEPT ![p] = IF Len(todo[p]) = 1 THEN Nothing ELSE a]

Done(p) == DoneWith(p, at[p])

\* A process that gives up, or panics, releases what it holds.
Return(p) ==
  /\ todo' = [todo EXCEPT ![p] = <<>>]
  /\ at' = [at EXCEPT ![p] = Nothing]
  /\ mu' = [l \in Locked |-> IF mu[l] = p THEN Nobody ELSE mu[l]]
  /\ configMu' = IF configMu = p THEN Nobody ELSE configMu
  /\ disturbed' = disturbed \cup {PageOf(at[p].list)}

\* Mutant: the mutex of the service is not waited for.
LockNot(p) ==
  LET l == at[p].list
      seq == Now(l)
  IN
  /\ Next1(p, "lock")
  /\ IF at[p].op = "remove" /\ ~Has(seq, at[p].name)
     THEN /\ todo' = [todo EXCEPT ![p] = <<>>]
          /\ at' = [at EXCEPT ![p] = Nothing]
          /\ UNCHANGED mu
     ELSE /\ mu' = [mu EXCEPT ![l] = p]
          /\ DoneWith(p, [at[p] EXCEPT
               !.i = IF at[p].op = "remove" THEN IndexOf(seq, at[p].name) ELSE 0,
               !.val = IF l = "policies" /\ at[p].op = "add" THEN NextPriority(seq) ELSE 0])
  /\ UNCHANGED <<mem, disk, file, live, configMu, env, calls, faults, restarts, disturbed, lost, count>>

\* Under the mutex, an entry is found by its name and a policy gets the next
\* priority; a name that is not there is an error.
Lock(p) ==
  LET l == at[p].list
      seq == Now(l)
  IN
  /\ Next1(p, "lock")
  /\ mu[l] = Nobody
  /\ IF at[p].op = "remove" /\ ~Has(seq, at[p].name)
     THEN /\ todo' = [todo EXCEPT ![p] = <<>>]
          /\ at' = [at EXCEPT ![p] = Nothing]
          /\ UNCHANGED mu
     ELSE /\ mu' = [mu EXCEPT ![l] = p]
          /\ DoneWith(p, [at[p] EXCEPT
               !.i = IF at[p].op = "remove" THEN IndexOf(seq, at[p].name) ELSE 0,
               !.val = IF l = "policies" /\ at[p].op = "add" THEN NextPriority(seq) ELSE 0])
  /\ UNCHANGED <<mem, disk, file, live, configMu, env, calls, faults, restarts, disturbed, lost, count>>

\* The slice is read; a position past its end panics.
Read(p) ==
  LET n == mem.list[at[p].list].len IN
  /\ Next1(p, "read")
  /\ IF at[p].i > n
     THEN Return(p)
     ELSE DoneWith(p, [at[p] EXCEPT !.n = n]) /\ UNCHANGED <<mu, configMu, disturbed>>
  /\ UNCHANGED <<mem, disk, file, live, env, calls, faults, restarts, lost, count>>

\* UpdatePriorities: of the entries with one name the last is renumbered.
Reordered(s, order) ==
  LET last(k) == \A j \in k + 1 .. s.len : s.arr[j].name # s.arr[k].name
      pos(name) == CHOOSE i \in DOMAIN order : order[i] = name /\ \A j \in i + 1 .. Len(order) : order[j] # name
  IN  [s EXCEPT !.arr = [k \in DOMAIN s.arr |->
         IF k <= s.len /\ last(k) /\ \E i \in DOMAIN order : order[i] = s.arr[k].name
         THEN [s.arr[k] EXCEPT !.val = 10 * pos(s.arr[k].name)]
         ELSE s.arr[k]]]

\* SaveClientConfig puts its copy of the block back, the facilities as it read them.
SaveClientConfig(s, a) == [s EXCEPT !.len = a.n]

Edited(s, a) ==
  CASE a.op = "add" -> Appended(s, a.n, [name |-> a.name, val |-> a.val, on |-> TRUE])
    [] a.op = "remove" -> Cut(s, a.n, a.i)
    [] a.op = "toggle" -> [s EXCEPT !.arr[a.i].on = a.on]
    [] a.op = "reorder" -> Reordered(s, a.order)
    [] a.op = "client" -> SaveClientConfig(s, a)
    [] OTHER -> s

Assign(p) ==
  LET a == at[p] IN
  /\ Next1(p, "assign")
  /\ mem' = [mem EXCEPT !.list[a.list] = Edited(@, a),
                        !.form = [b \in Blocks |-> IF b = a.op THEN a.form ELSE @[b]]]
  /\ count' = [count EXCEPT ![a.list] =
                 @ + (CASE a.op = "add" -> 1 [] a.op = "remove" -> -1 [] OTHER -> 0)]
  /\ disturbed' = disturbed \cup (IF a.op = "reorder" THEN {"order"} ELSE {})
  /\ DoneWith(p, To(a.list, "none"))
  /\ UNCHANGED <<disk, file, live, mu, configMu, env, calls, faults, restarts, lost>>

\* Mutant: configMu is not waited for.
MarshalUnlocked(p) ==
  /\ Next1(p, "marshal")
  /\ configMu' = p
  /\ DoneWith(p, [at[p] EXCEPT !.head = Heads(mem)])
  /\ UNCHANGED <<mem, disk, file, live, mu, env, calls, faults, restarts, disturbed, lost, count>>

\* SaveToFile: the whole configuration, under configMu.
Marshal(p) ==
  /\ Next1(p, "marshal")
  /\ configMu = Nobody
  /\ configMu' = p
  /\ DoneWith(p, [at[p] EXCEPT !.head = Heads(mem)])
  /\ UNCHANGED <<mem, disk, file, live, mu, env, calls, faults, restarts, disturbed, lost, count>>

Encode(p) ==
  /\ Next1(p, "encode")
  /\ DoneWith(p, [at[p] EXCEPT !.snap = Elements(mem, at[p].head), !.head = <<>>])
  /\ UNCHANGED <<mem, disk, file, live, mu, configMu, env, calls, faults, restarts, disturbed, lost, count>>

Commit(p) ==
  /\ Next1(p, "commit")
  /\ disk' = at[p].snap
  /\ configMu' = Nobody
  /\ DoneWith(p, [at[p] EXCEPT !.snap = <<>>])
  /\ UNCHANGED <<mem, file, live, mu, env, calls, faults, restarts, disturbed, lost, count>>

Unlock(p) ==
  /\ Next1(p, "unlock")
  /\ mu' = [mu EXCEPT ![at[p].list] = Nobody]
  /\ Done(p)
  /\ UNCHANGED <<mem, disk, file, live, configMu, env, calls, faults, restarts, disturbed, lost, count>>

\* RenderConfig: the NAS service takes its mutex to read the slice.
ReadForRender(p) ==
  /\ Next1(p, "head")
  /\ at[p].list = "shares" => mu["shares"] = Nobody
  /\ DoneWith(p, [at[p] EXCEPT !.head = Heads(mem)])
  /\ UNCHANGED <<mem, disk, file, live, mu, configMu, env, calls, faults, restarts, disturbed, lost, count>>

RenderConfig(p) ==
  /\ Next1(p, "render")
  /\ DoneWith(p, [at[p] EXCEPT !.snap = PagePart(Elements(mem, at[p].head), PageOf(at[p].list)), !.head = <<>>])
  /\ UNCHANGED <<mem, disk, file, live, mu, configMu, env, calls, faults, restarts, disturbed, lost, count>>

RenderToDisk(p) ==
  /\ Next1(p, "write")
  /\ file' = [file EXCEPT ![PageOf(at[p].list)] = at[p].snap]
  /\ DoneWith(p, [at[p] EXCEPT !.snap = <<>>])
  /\ UNCHANGED <<mem, disk, live, mu, configMu, env, calls, faults, restarts, disturbed, lost, count>>

Reload(p) ==
  LET page == PageOf(at[p].list) IN
  /\ Next1(p, "reload")
  /\ live' = [live EXCEPT ![page] = file[page]]
  /\ Done(p)
  /\ UNCHANGED <<mem, disk, file, mu, configMu, env, calls, faults, restarts, disturbed, lost, count>>

\* A save that fails is answered as an error, and the edit stays in memory; a
\* write or a reload that fails is only logged.
Fails(p) ==
  /\ faults < env.faults
  /\ faults' = faults + 1
  /\ \/ Next1(p, "commit") /\ lost' = lost \cup {at[p].list}
     \/ Next1(p, "write") /\ UNCHANGED lost
     \/ Next1(p, "reload") /\ UNCHANGED lost
  /\ Return(p)
  /\ UNCHANGED <<mem, disk, file, live, env, calls, restarts, count>>

\* The process stops wherever its requests are and loads router.yaml again.
Restart ==
  /\ restarts < env.restarts
  /\ restarts' = restarts + 1
  /\ mem' = LoadFrom(disk)
  /\ count' = [l \in Lists |-> Len(disk.list[l])]
  /\ disturbed' = disturbed \cup {page \in Pages : OnPage(page) # {}} \cup {PageOf(l) : l \in lost}
  /\ lost' = {}
  /\ todo' = [p \in Requests |-> <<>>]
  /\ at' = [p \in Requests |-> Nothing]
  /\ mu' = [l \in Locked |-> Nobody]
  /\ configMu' = Nobody
  /\ UNCHANGED <<disk, file, live, env, calls, faults>>

Handle(p) ==
  \/ \E name \in Names :
       \/ HandleAddSource(p, name) \/ HandleAddAllowSubnet(p, name) \/ HandleAddFacility(p, name)
       \/ HandleAddShare(p, name) \/ HandleDeleteShare(p, name)
       \/ HandleAddPolicy(p, name) \/ HandleDeletePolicy(p, name)
       \/ HandleAddPortForward(p, name) \/ HandleAddOpenPort(p, name) \/ HandleAddRule(p, name)
  \/ \E i \in 1 .. env.calls :
       \/ HandleRemoveSource(p, i) \/ HandleRemoveAllowSubnet(p, i) \/ HandleRemoveFacility(p, i)
       \/ HandleDeletePortForward(p, i) \/ HandleDeleteOpenPort(p, i) \/ HandleDeleteRule(p, i)
       \/ \E on \in BOOLEAN : HandleToggleOpenPort(p, i, on) \/ HandleToggleRule(p, i, on)
  \/ \E f \in Forms : HandleSaveSettings(p, f) \/ HandleSaveServerConfig(p, f) \/ HandleSaveClientConfig(p, f)
  \/ \E a, b \in Names : HandleReorder(p, <<a, b>>)

Step(p) ==
  \/ Lock(p) \/ Read(p) \/ Assign(p) \/ Marshal(p) \/ Encode(p) \/ Commit(p) \/ Unlock(p)
  \/ ReadForRender(p) \/ RenderConfig(p) \/ RenderToDisk(p) \/ Reload(p)

Next == Restart \/ \E p \in Requests : Handle(p) \/ Step(p) \/ Fails(p)

Spec == Init /\ [][Next]_vars

----------------------------------------------------------------------------
(* Properties *)

TypeOK ==
  /\ \A l \in Lists : mem.list[l].len \in 0 .. Len(mem.list[l].arr) /\ \A i \in DOMAIN mem.list[l].arr : mem.list[l].arr[i] \in Entry
  /\ mem.form \in [Blocks -> Forms]
  /\ DOMAIN file = Rendered /\ DOMAIN live = Rendered
  /\ mu \in [Locked -> Requests \cup {Nobody}] /\ configMu \in Requests \cup {Nobody}
  /\ disturbed \subseteq Pages \cup {"order"} /\ lost \subseteq Lists

Pending(l) == \E p \in Requests : at[p].list = l /\ \E k \in DOMAIN todo[p] : todo[p][k] = "commit"

\* A list whose edits have all been saved reads the same in router.yaml as in
\* memory: no other page's save, begun before the edit and finished after it, puts
\* back what it marshalled, and a restart loses no edit that was answered as saved.
\* And a page whose requests came one at a time and failed nowhere has its daemon
\* run with the configuration in memory, whatever the other pages did meanwhile.
SavedIsCurrent ==
  /\ \A l \in Lists : ~Pending(l) /\ l \notin lost => disk.list[l] = Now(l)
  /\ \A page \in Rendered :
       page \notin disturbed /\ OnPage(page) = {} => live[page] = PagePart(View(mem), page)

\* No edit of the NAS and routing pages undoes another that it overlapped, and
\* policies that nobody reordered have priorities of their own; on the pages
\* without a mutex this is so while their requests do not overlap, and no name
\* is then on a list twice.
NoEditUndone ==
  \A l \in Lists :
    (\A p \in Requests : at[p].list = l => ~Active(p))
      => /\ l \in Locked \/ PageOf(l) \notin disturbed => Len(Now(l)) = count[l]
         /\ l = "policies" /\ "order" \notin disturbed
              => \A i, j \in DOMAIN Now(l) : Now(l)[i].val = Now(l)[j].val => i = j
         /\ l \in {"sources", "subnets", "facilities"} /\ PageOf(l) \notin disturbed
              => \A i, j \in DOMAIN Now(l) : Now(l)[i].name = Now(l)[j].name => i = j
=============================================================================
