------------------------------- MODULE Vlans --------------------------------
(***************************************************************************)
(* The VLAN page (internal/web/handlers/vlan.go, services/network.go) and   *)
(* the sub-prefix of each VLAN: the SLA-ID map of the IPv6 page and the     *)
(* list that dhcp6c.conf and the router advertisements are rendered from    *)
(* (services/ipv6.go).                                                      *)
(*                                                                          *)
(* Handlers run on one shared list without a lock; a request is the         *)
(* sequence of steps it has yet to do, and its steps interleave with those  *)
(* of the others wherever it runs a command or waits.                       *)
(***************************************************************************)
EXTENDS Integers, Sequences, FiniteSets

CONSTANTS
  Requests,  \* the HTTP requests that may be in progress at once
  Ids,       \* the names a VLAN may be given
  Vids,      \* the tags a VLAN may be given
  Orders,    \* the orders the page of announced interfaces may submit
  SlaLens,   \* 64 minus the length of the delegated prefix
  Envs       \* bounds, one set of which a behaviour has: the requests that may
             \* overlap, how many are made, commands and writes that fail

VARIABLES
  vlans,    \* cfg.VLANs: a sequence of [id, vid], all on one parent
  map,      \* cfg.IPv6.LAN.SubnetMap
  slaLen,   \* from the prefix hint
  kernel,   \* the state of each VLAN device: absent, added or up
  file,     \* the list that dhcp6c.conf was last rendered with
  mu,       \* who holds the mutex of the IPv6 service
  todo,     \* the steps each request has yet to do
  at,       \* the local variables of each request
  env, calls, faults,
  over,     \* history: two requests have been in progress at once
  failed,   \* history: a command or a save failed
  moved     \* history: the VLANs or the map changed after the last rendering began

vars == <<vlans, map, slaLen, kernel, file, mu, todo, at, env, calls, faults, over, failed, moved>>

Nobody == "nobody"
Vlan == [id : Ids, vid : Vids]
Nothing == [i |-> 0, vid |-> 0, map |-> <<>>, list |-> <<>>]

----------------------------------------------------------------------------
(* The sub-prefixes *)

\* ValidateSubnetMap: "lan" keeps 0, other keys name a VLAN, no value twice.
ValidateSubnetMap(m, vs) ==
  /\ "lan" \in DOMAIN m => m["lan"] = 0
  /\ DOMAIN m \subseteq {"lan"} \cup {vs[i].id : i \in DOMAIN vs}
  /\ \A j, k \in DOMAIN m : m[j] = m[k] => j = k

\* HandleSubnetMap takes an order that begins with the LAN and names nothing
\* twice, and gives each name its position.
Accepted(order) ==
  /\ order # <<>> /\ order[1] = "lan"
  /\ \A i, j \in DOMAIN order : order[i] = order[j] => i = j

MapOf(order) ==
  [k \in {order[i] : i \in DOMAIN order} |-> (CHOOSE i \in DOMAIN order : order[i] = k) - 1]

Pick(m, key, dflt) == IF key \in DOMAIN m THEN m[key] ELSE dflt

\* Mutant: the automatic numbers start at the LAN's.
CarveFromZero(vs, m, len) ==
  LET carve[n \in 0 .. Len(vs)] ==
        IF n = 0 THEN <<[name |-> "lan", sla |-> Pick(m, "lan", 0)]>>
        ELSE LET out == carve[n - 1]
                 sla == Pick(m, vs[n].id, Len(out) - 1)
             IN  IF sla > 2^len - 1 THEN out ELSE Append(out, [name |-> vs[n].id, sla |-> sla])
  IN  carve[Len(vs)]

\* The interfaces of the first n VLANs: a VLAN whose SLA-ID does not fit is
\* skipped, and only one that is not skipped moves the automatic number on.
Carve(vs, m, len) ==
  LET carve[n \in 0 .. Len(vs)] ==
        IF n = 0 THEN <<[name |-> "lan", sla |-> Pick(m, "lan", 0)]>>
        ELSE LET out == carve[n - 1]
                 sla == Pick(m, vs[n].id, Len(out))
             IN  IF sla > 2^len - 1 THEN out ELSE Append(out, [name |-> vs[n].id, sla |-> sla])
  IN  carve[Len(vs)]

\* A delegated /64 has room for the LAN only.
buildPrefixInterfaces(vs, m, len) == IF len = 0 THEN Carve(<<>>, m, len) ELSE Carve(vs, m, len)

----------------------------------------------------------------------------
(* Requests *)

Init ==
  /\ vlans = <<>>
  /\ map = <<>>
  /\ slaLen \in SlaLens
  /\ env \in Envs
  /\ kernel = [v \in Vids |-> "absent"]
  /\ file = buildPrefixInterfaces(vlans, map, slaLen)
  /\ mu = Nobody
  /\ todo = [p \in Requests |-> <<>>]
  /\ at = [p \in Requests |-> Nothing]
  /\ calls = 0 /\ faults = 0
  /\ over = FALSE /\ failed = FALSE /\ moved = FALSE

Idle == \A p \in Requests : todo[p] = <<>>

Begin(p, steps, local) ==
  /\ todo[p] = <<>>
  /\ p \in env.reqs
  /\ calls < env.calls
  /\ calls' = calls + 1
  /\ todo' = [todo EXCEPT ![p] = steps]
  /\ at' = [at EXCEPT ![p] = local]
  /\ over' = (over \/ ~Idle)
  /\ UNCHANGED <<map, slaLen, env, kernel, file, mu, faults, failed>>

\* The VLAN joins the list whatever VLANs it already has.
HandleAdd(p, v) ==
  /\ Begin(p, <<"save", "linkAdd", "linkUp">>, [Nothing EXCEPT !.vid = v.vid])
  /\ vlans' = Append(vlans, v)
  /\ moved' = TRUE

\* The first VLAN of that name: its position is kept across `ip link delete`.
HandleDelete(p, id) ==
  /\ \E i \in DOMAIN vlans :
       /\ vlans[i].id = id
       /\ \A j \in 1 .. i - 1 : vlans[j].id # id
       /\ Begin(p, <<"linkDel", "remove", "save">>, [Nothing EXCEPT !.i = i, !.vid = vlans[i].vid])
  /\ UNCHANGED <<vlans, moved>>

\* A map is validated against the VLANs of the moment.
HandleSubnetMap(p, order) ==
  /\ Accepted(order)
  /\ ValidateSubnetMap(MapOf(order), vlans)
  /\ Begin(p, <<"setMap", "save", "lock", "render", "write">>, [Nothing EXCEPT !.map = MapOf(order)])
  /\ UNCHANGED <<vlans, moved>>

----------------------------------------------------------------------------
(* One step of a request *)

Next1(p, step) ==
  /\ todo[p] # <<>>
  /\ Head(todo[p]) = step

Done(p) ==
  /\ todo' = [todo EXCEPT ![p] = Tail(@)]
  /\ at' = IF Len(todo[p]) = 1 THEN [at EXCEPT ![p] = Nothing] ELSE at

\* The request ends here: an error return, a logged error of the last call, or a
\* panic that net/http recovers.
Return(p) ==
  /\ todo' = [todo EXCEPT ![p] = <<>>]
  /\ at' = [at EXCEPT ![p] = Nothing]
  /\ mu' = IF mu = p THEN Nobody ELSE mu
  /\ failed' = TRUE

SaveToFile(p) ==
  /\ Next1(p, "save")
  /\ Done(p)
  /\ UNCHANGED <<vlans, map, slaLen, env, kernel, file, mu, calls, faults, over, failed, moved>>

\* CreateVLAN: the device is added unless there is one, then brought up.
CreateVLAN(p) ==
  LET vid == at[p].vid IN
  /\ \/ Next1(p, "linkAdd") /\ kernel[vid] = "absent"
        /\ kernel' = [kernel EXCEPT ![vid] = "added"] /\ Done(p) /\ UNCHANGED <<mu, failed>>
     \/ Next1(p, "linkUp") /\ kernel[vid] # "absent"
        /\ kernel' = [kernel EXCEPT ![vid] = "up"] /\ Done(p) /\ UNCHANGED <<mu, failed>>
     \/ Next1(p, "linkAdd") /\ kernel[vid] # "absent" /\ UNCHANGED kernel /\ Return(p)
     \/ Next1(p, "linkUp") /\ kernel[vid] = "absent" /\ UNCHANGED kernel /\ Return(p)
  /\ UNCHANGED <<vlans, map, slaLen, env, file, calls, faults, over, moved>>

\* A failure here is logged and the entry is removed all the same.
DeleteVLAN(p) ==
  /\ Next1(p, "linkDel")
  /\ kernel' = [kernel EXCEPT ![at[p].vid] = "absent"]
  /\ Done(p)
  /\ failed' = (failed \/ kernel[at[p].vid] = "absent")
  /\ UNCHANGED <<vlans, map, slaLen, env, file, mu, calls, faults, over, moved>>

\* append(VLANs[:i], VLANs[i+1:]...) of the list as it is now; a position past
\* its end panics.
Remove(p) ==
  /\ Next1(p, "remove")
  /\ LET i == at[p].i IN
     IF i > Len(vlans)
     THEN UNCHANGED <<vlans, moved>> /\ Return(p)
     ELSE /\ vlans' = SubSeq(vlans, 1, i - 1) \o SubSeq(vlans, i + 1, Len(vlans))
          /\ moved' = TRUE
          /\ Done(p)
          /\ UNCHANGED <<mu, failed>>
  /\ UNCHANGED <<map, slaLen, env, kernel, file, calls, faults, over>>

\* SetSubnetMap takes the mutex for the assignment and again to render.
SetSubnetMap(p) ==
  /\ Next1(p, "setMap")
  /\ mu = Nobody
  /\ map' = at[p].map
  /\ moved' = TRUE
  /\ Done(p)
  /\ UNCHANGED <<vlans, slaLen, env, kernel, file, mu, calls, faults, over, failed>>

\* Mutant: the file is rendered and written without the mutex.
LockNot(p) ==
  /\ Next1(p, "lock")
  /\ Done(p)
  /\ UNCHANGED <<vlans, map, slaLen, env, kernel, file, mu, calls, faults, over, failed, moved>>

Lock(p) ==
  /\ Next1(p, "lock")
  /\ mu = Nobody
  /\ mu' = p
  /\ Done(p)
  /\ UNCHANGED <<vlans, map, slaLen, env, kernel, file, calls, faults, over, failed, moved>>

Render(p) ==
  /\ Next1(p, "render")
  /\ at' = [at EXCEPT ![p].list = buildPrefixInterfaces(vlans, map, slaLen)]
  /\ todo' = [todo EXCEPT ![p] = Tail(@)]
  /\ moved' = FALSE
  /\ UNCHANGED <<vlans, map, slaLen, env, kernel, file, mu, calls, faults, over, failed>>

Write(p) ==
  /\ Next1(p, "write")
  /\ file' = at[p].list
  /\ mu' = Nobody
  /\ Done(p)
  /\ UNCHANGED <<vlans, map, slaLen, env, kernel, calls, faults, over, failed, moved>>

Fails(p) ==
  /\ faults < env.faults
  /\ faults' = faults + 1
  /\ \/ Next1(p, "save") /\ Return(p)
     \/ Next1(p, "linkAdd") /\ Return(p)
     \/ Next1(p, "linkUp") /\ Return(p)
     \/ Next1(p, "write") /\ Return(p)
     \/ Next1(p, "linkDel") /\ Done(p) /\ failed' = TRUE /\ UNCHANGED mu
  /\ UNCHANGED <<vlans, map, slaLen, env, kernel, file, calls, over, moved>>

Next ==
  \E p \in Requests :
    \/ \E v \in Vlan : HandleAdd(p, v)
    \/ \E id \in Ids : HandleDelete(p, id)
    \/ \E order \in Orders : HandleSubnetMap(p, order)
    \/ SaveToFile(p) \/ CreateVLAN(p) \/ DeleteVLAN(p) \/ Remove(p)
    \/ SetSubnetMap(p) \/ Lock(p) \/ Render(p) \/ Write(p)
    \/ Fails(p)

Spec == Init /\ [][Next]_vars

----------------------------------------------------------------------------
(* Properties *)

TypeOK ==
  /\ \A i \in DOMAIN vlans : vlans[i] \in Vlan
  /\ DOMAIN map \subseteq Ids \cup {"lan"} /\ \A k \in DOMAIN map : map[k] \in Nat
  /\ slaLen \in SlaLens
  /\ kernel \in [Vids -> {"absent", "added", "up"}]
  /\ mu \in Requests \cup {Nobody}
  /\ calls \in 0 .. env.calls /\ faults \in 0 .. env.faults

Unique(vs, f(_)) == \A i, j \in DOMAIN vs : f(vs[i]) = f(vs[j]) => i = j

\* No two interfaces are given the same sub-prefix, and none one that does not
\* fit, while the VLANs have distinct names and the map names all of them or
\* none: the orders that were submitted and the VLANs that came and went since do
\* not bring two SLA-IDs together.  (Where it names some, they do collide.)
PrefixesDistinct ==
  LET mapped == {i \in DOMAIN vlans : vlans[i].id \in DOMAIN map}
      list == buildPrefixInterfaces(vlans, map, slaLen)
  IN  Unique(vlans, LAMBDA v : v.id) /\ mapped \in {{}, DOMAIN vlans}
        => /\ Unique(list, LAMBDA e : e.sla)
           /\ \A i \in DOMAIN list : list[i].sla < 2^slaLen

\* When requests did not overlap and no step failed (a tag that is used twice makes
\* one fail), the VLAN devices of the kernel are those of the list.  However they
\* overlap, dhcp6c.conf is what the list and the map give, until one of them changes.
DevicesMatch ==
  Idle =>
    /\ ~over /\ ~failed => \A v \in Vids : kernel[v] = "up" <=> \E i \in DOMAIN vlans : vlans[i].vid = v
    /\ ~moved /\ ~failed => file = buildPrefixInterfaces(vlans, map, slaLen)
=============================================================================
