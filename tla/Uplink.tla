------------------------------- MODULE Uplink -------------------------------
(***************************************************************************)
(* The WAN side of the router: the PPPoE service and its connect hooks      *)
(* (internal/services/pppoe.go, internal/web/server.go), the 6in4 tunnel    *)
(* (sixinfour.go), the configuration files and the dhcp6c unit of the IPv6  *)
(* service (ipv6.go), and the pages that drive them.                        *)
(*                                                                          *)
(* A request is the sequence of steps that it has yet to do.  A handler, a  *)
(* hook or a method is the sequence it stands for; each step is an action,  *)
(* and the error return of a step drops the rest.                           *)
(***************************************************************************)
EXTENDS Integers, Sequences

CONSTANTS
  Requests,    \* the HTTP requests that may be in progress at once
  Devices,     \* names the tunnel device may have
  Forms,       \* the settings the IPv6 page may submit
  MaxAddress,  \* bound: addresses the provider hands out
  Envs         \* bounds, one set of which a behaviour has: the requests that
               \* may overlap, how many are made, commands and writes that fail; and pppd's link
               \* at the start, which outlives the web process

\* cfg.IPv6: Enabled # "off", Mode, WAN.RequestPrefix, whether the prefix length
\* in use parses, whether the tunnel fields are filled in, and Tunnel.Device.
Settings == [on : BOOLEAN, mode : {"dhcpv6-pd", "6in4"}, pd : BOOLEAN,
             len : BOOLEAN, whole : BOOLEAN, dev : Devices]

Nobody == "nobody"
NoTunnel == [st |-> "none", local |-> 0, v6 |-> FALSE, route |-> FALSE]
Tunnels == [st : {"none", "down", "up"}, local : 0 .. MaxAddress, v6 : BOOLEAN, route : BOOLEAN]

VARIABLES
  cfg,      \* the IPv6 settings in memory, which every handler shares
  wan,      \* pppd: its link and its address; s.connected of the PPPoE service
  v6,       \* dhcp6c.conf, the RA drop-in, what dnsmasq read, the dhcp6c unit
  tun,      \* the sit devices of the kernel
  six,      \* s.running of the 6in4 service and its state file
  mu,       \* who holds the mutex of the IPv6 service
  todo,     \* the steps each request has yet to do
  at,       \* the local variables of each request
  env, calls, faults,
  over,     \* history: two requests have been in progress at once
  failed,   \* history: a step returned an error, or a best-effort one failed
  renamed,  \* history: the tunnel device has been given another name
  by        \* history: what touched the dhcp6c unit last

vars == <<cfg, wan, v6, tun, six, mu, todo, at, env, calls, faults, over, failed, renamed, by>>
history == <<env, over, renamed>>

Steps == {"peer", "dial", "onConnect", "kill", "onDisconnect", "save", "lock", "unlock",
          "renderConf", "writeConf", "renderRA", "writeRA", "reload", "unit",
          "restartUnit", "startUnit", "stopUnit", "renew", "routeDel", "linkDown", "tunDel",
          "notRunning", "validate", "localIPv4", "tunAdd", "linkUp", "addrAdd", "routeAdd",
          "running", "saveUp", "saveDown"}

----------------------------------------------------------------------------
(* What the services do, as steps *)

\* Stop never fails: every command of it is best-effort.
Stop == <<"routeDel", "linkDown", "tunDel", "notRunning", "saveDown">>

\* Mutant: the service says that it runs before the route is there.
StartEarly == <<"validate", "localIPv4", "tunDel", "tunAdd", "linkUp", "addrAdd", "running",
                "routeAdd", "saveUp">>

Start == <<"validate", "localIPv4", "tunDel", "tunAdd", "linkUp", "addrAdd", "routeAdd",
           "running", "saveUp">>

Restart == Stop \o Start

RenderToDisk == <<"renderConf", "writeConf", "renderRA", "writeRA">>

\* Mutant: ApplyConfig does not take the mutex.
ApplyConfigUnlocked == RenderToDisk \o <<"reload", "unit">>

ApplyConfig == <<"lock">> \o RenderToDisk \o <<"reload", "unit", "unlock">>

\* IPv6Service.Restart, Start, Stop and Release, each under the mutex.
Locked(step) == <<"lock", step, "unlock">>

\* The hooks NewServer registers.  The broker update of the connect hook never
\* runs: Status reports no address, because processExists signals nil, which
\* os.Process.Signal refuses.
OnConnect(c) == IF c.mode = "6in4" THEN Restart \o ApplyConfig ELSE Locked("restartUnit")

OnDisconnect(c) == IF c.mode = "6in4" THEN Stop ELSE Locked("stopUnit")

Connect == <<"peer", "dial", "onConnect">>

Disconnect == <<"kill", "onDisconnect">>

----------------------------------------------------------------------------
(* What the settings ask for *)

pdRequested(c) == c.mode # "6in4" /\ c.pd

\* IPv6 is off, or no plane is active: both files become stubs.
Disabled(c) == ~c.on \/ (c.mode # "6in4" /\ ~c.pd)

ConfOf(c) == IF ~Disabled(c) /\ pdRequested(c) THEN "pd" ELSE "stub"

RaOf(c) == IF Disabled(c) THEN "none" ELSE c.mode

WantsUnit(c) == c.on /\ c.mode # "6in4" /\ c.pd

----------------------------------------------------------------------------
\* The files are as `lankeeper render-configs` left them at install time.
Init ==
  /\ cfg \in {c \in Forms : c.len}
  /\ env \in Envs
  /\ wan = [link |-> env.link, addr |-> IF env.link = "up" THEN 1 ELSE 0, connected |-> FALSE]
  /\ v6 = [conf |-> ConfOf(cfg), ra |-> RaOf(cfg), loaded |-> RaOf(cfg), unit |-> FALSE]
  /\ tun = [d \in Devices |-> NoTunnel]
  /\ six = [running |-> FALSE, active |-> FALSE]
  /\ mu = Nobody
  /\ todo = [p \in Requests |-> <<>>]
  /\ at = [p \in Requests |-> [conf |-> "stub", ra |-> "none", dev |-> cfg.dev, local |-> 0]]
  /\ calls = 0
  /\ faults = 0
  /\ over = FALSE
  /\ failed = FALSE
  /\ renamed = FALSE
  /\ by = "boot"

Idle == \A p \in Requests : todo[p] = <<>>

Begin(p, steps) ==
  /\ todo[p] = <<>>
  /\ calls < env.calls
  /\ p \in env.reqs
  /\ calls' = calls + 1
  /\ todo' = [todo EXCEPT ![p] = steps]
  /\ over' = (over \/ ~Idle)
  /\ UNCHANGED <<wan, v6, tun, six, mu, at, env, faults, failed, by>>

HandleConnect(p) == Begin(p, Connect) /\ UNCHANGED <<cfg, renamed>>

HandleDisconnect(p) == Begin(p, Disconnect) /\ UNCHANGED <<cfg, renamed>>

\* The settings are changed in memory, without a lock, before they are saved.
HandleSave(p, c) ==
  /\ Begin(p, <<"save">>
              \o (IF cfg.mode = "6in4" /\ c.mode # "6in4" THEN Stop ELSE <<>>)
              \o ApplyConfig
              \o (IF c.mode = "6in4" THEN Restart ELSE <<>>))
  /\ cfg' = c
  /\ renamed' = (renamed \/ c.dev # cfg.dev)

HandleRenew(p) == Begin(p, <<"renew">>) /\ UNCHANGED <<cfg, renamed>>

HandleRelease(p) == Begin(p, Locked("stopUnit")) /\ UNCHANGED <<cfg, renamed>>

HandleStart(p) == Begin(p, Locked("startUnit")) /\ UNCHANGED <<cfg, renamed>>

----------------------------------------------------------------------------
(* One step of a request *)

Next1(p, step) ==
  /\ todo[p] # <<>>
  /\ Head(todo[p]) = step

Done(p) == todo' = [todo EXCEPT ![p] = Tail(@)]

\* An error return; the deferred Unlock runs if the mutex is held.
Return(p) ==
  /\ todo' = [todo EXCEPT ![p] = <<>>]
  /\ mu' = IF mu = p THEN Nobody ELSE mu
  /\ failed' = TRUE

\* PPPoEService.renderConfig: nothing here reads the peer file back.
renderConfig(p) ==
  /\ Next1(p, "peer")
  /\ Done(p)
  /\ UNCHANGED <<cfg, wan, v6, tun, six, mu, at, calls, faults, history, failed, by>>

\* `pppd call wan` returns once pppd is in the background, before the link is up.
\* A second pppd leaves ppp0 alone.
Dial(p) ==
  /\ Next1(p, "dial")
  /\ wan' = [wan EXCEPT !.link = IF @ = "down" THEN "dialing" ELSE @, !.connected = TRUE]
  /\ Done(p)
  /\ UNCHANGED <<cfg, v6, tun, six, mu, at, calls, faults, history, failed, by>>

\* The hook looks at the mode when it runs.
Hook(p) ==
  /\ \/ Next1(p, "onConnect") /\ todo' = [todo EXCEPT ![p] = OnConnect(cfg)]
     \/ Next1(p, "onDisconnect") /\ todo' = [todo EXCEPT ![p] = OnDisconnect(cfg)]
  /\ UNCHANGED <<cfg, wan, v6, tun, six, mu, at, calls, faults, history, failed, by>>

\* pppd keeps /var/run/ppp0.pid while the link is up.
Kill(p) ==
  /\ Next1(p, "kill")
  /\ IF wan.link = "up"
     THEN /\ wan' = [wan EXCEPT !.link = "down", !.connected = FALSE]
          /\ Done(p)
          /\ UNCHANGED <<mu, failed>>
     ELSE UNCHANGED wan /\ Return(p)
  /\ UNCHANGED <<cfg, v6, tun, six, at, calls, faults, history, by>>

SaveToFile(p) ==
  /\ Next1(p, "save")
  /\ Done(p)
  /\ UNCHANGED <<cfg, wan, v6, tun, six, mu, at, calls, faults, history, failed, by>>

Lock(p) ==
  /\ Next1(p, "lock")
  /\ mu = Nobody
  /\ mu' = p
  /\ Done(p)
  /\ UNCHANGED <<cfg, wan, v6, tun, six, at, calls, faults, history, failed, by>>

Unlock(p) ==
  /\ Next1(p, "unlock")
  /\ mu' = Nobody
  /\ Done(p)
  /\ UNCHANGED <<cfg, wan, v6, tun, six, at, calls, faults, history, failed, by>>

----------------------------------------------------------------------------
(* Files and the dhcp6c unit *)

\* RenderToDisk decides once whether the planes are off; RenderConfig fails on
\* a prefix hint outside [48,64].
RenderConfig(p) ==
  /\ Next1(p, "renderConf")
  /\ IF ~Disabled(cfg) /\ pdRequested(cfg) /\ ~cfg.len
     THEN UNCHANGED at /\ Return(p)
     ELSE /\ at' = [at EXCEPT ![p].conf = ConfOf(cfg),
                              ![p].ra = IF Disabled(cfg) THEN "none" ELSE "unread"]
          /\ Done(p)
          /\ UNCHANGED <<mu, failed>>
  /\ UNCHANGED <<cfg, wan, v6, tun, six, calls, faults, history, by>>

WriteConf(p) ==
  /\ Next1(p, "writeConf")
  /\ v6' = [v6 EXCEPT !.conf = at[p].conf]
  /\ Done(p)
  /\ UNCHANGED <<cfg, wan, tun, six, mu, at, calls, faults, history, failed, by>>

\* RenderRAConfig reads the settings again.
RenderRAConfig(p) ==
  /\ Next1(p, "renderRA")
  /\ IF at[p].ra = "unread" /\ cfg.on /\ ~cfg.len
     THEN UNCHANGED at /\ Return(p)
     ELSE /\ at' = [at EXCEPT ![p].ra = IF @ # "unread" THEN @
                                        ELSE IF cfg.on THEN cfg.mode ELSE "none"]
          /\ Done(p)
          /\ UNCHANGED <<mu, failed>>
  /\ UNCHANGED <<cfg, wan, v6, tun, six, calls, faults, history, by>>

WriteRA(p) ==
  /\ Next1(p, "writeRA")
  /\ v6' = [v6 EXCEPT !.ra = at[p].ra]
  /\ Done(p)
  /\ UNCHANGED <<cfg, wan, tun, six, mu, at, calls, faults, history, failed, by>>

reloadDnsmasq(p) ==
  /\ Next1(p, "reload")
  /\ v6' = [v6 EXCEPT !.loaded = v6.ra]
  /\ Done(p)
  /\ UNCHANGED <<cfg, wan, tun, six, mu, at, calls, faults, history, failed, by>>

\* The end of ApplyConfig: stopUnitLocked or restartUnitLocked.
ApplyUnit(p) ==
  /\ Next1(p, "unit")
  /\ v6' = [v6 EXCEPT !.unit = WantsUnit(cfg)]
  /\ by' = "apply"
  /\ Done(p)
  /\ UNCHANGED <<cfg, wan, tun, six, mu, at, calls, faults, history, failed>>

\* Restart of the connect hook and Start of the page, whatever the settings say;
\* and Renew, without the mutex, whose reload-or-restart starts a stopped unit.
UnitUp(p) ==
  /\ Next1(p, "restartUnit") \/ Next1(p, "startUnit") \/ Next1(p, "renew")
  /\ v6' = [v6 EXCEPT !.unit = TRUE]
  /\ by' = "other"
  /\ Done(p)
  /\ UNCHANGED <<cfg, wan, tun, six, mu, at, calls, faults, history, failed>>

stopUnit(p) ==
  /\ Next1(p, "stopUnit")
  /\ v6' = [v6 EXCEPT !.unit = FALSE]
  /\ by' = "other"
  /\ Done(p)
  /\ UNCHANGED <<cfg, wan, tun, six, mu, at, calls, faults, history, failed>>

----------------------------------------------------------------------------
(* The tunnel.  No mutex is held between the commands. *)

\* Stop picks the device by the name it has in the settings now.
RouteDel(p) ==
  /\ Next1(p, "routeDel")
  /\ at' = [at EXCEPT ![p].dev = cfg.dev]
  /\ tun' = [tun EXCEPT ![cfg.dev].route = FALSE]
  /\ Done(p)
  /\ UNCHANGED <<cfg, wan, v6, six, mu, calls, faults, history, failed, by>>

\* The kernel drops the IPv6 addresses and routes of a device that goes down.
LinkDown(p) ==
  /\ Next1(p, "linkDown")
  /\ tun' = [tun EXCEPT ![at[p].dev] = IF @.st = "none" THEN @
                                       ELSE [@ EXCEPT !.st = "down", !.v6 = FALSE, !.route = FALSE]]
  /\ Done(p)
  /\ UNCHANGED <<cfg, wan, v6, six, mu, at, calls, faults, history, failed, by>>

TunDel(p) ==
  /\ Next1(p, "tunDel")
  /\ tun' = [tun EXCEPT ![at[p].dev] = NoTunnel]
  /\ Done(p)
  /\ UNCHANGED <<cfg, wan, v6, six, mu, at, calls, faults, history, failed, by>>

\* s.running and the state file.
Running(p) ==
  /\ \/ Next1(p, "running") /\ six' = [six EXCEPT !.running = TRUE]
     \/ Next1(p, "notRunning") /\ six' = [six EXCEPT !.running = FALSE]
  /\ Done(p)
  /\ UNCHANGED <<cfg, wan, v6, tun, mu, at, calls, faults, history, failed, by>>

persistState(p) ==
  /\ \/ Next1(p, "saveUp") /\ six' = [six EXCEPT !.active = TRUE]
     \/ Next1(p, "saveDown") /\ six' = [six EXCEPT !.active = FALSE]
  /\ Done(p)
  /\ UNCHANGED <<cfg, wan, v6, tun, mu, at, calls, faults, history, failed, by>>

validate(p) ==
  /\ Next1(p, "validate")
  /\ IF cfg.whole THEN Done(p) /\ UNCHANGED <<mu, failed>> ELSE Return(p)
  /\ UNCHANGED <<cfg, wan, v6, tun, six, at, calls, faults, history, by>>

\* ppp0 has an address only while the link is up.
localIPv4(p) ==
  /\ Next1(p, "localIPv4")
  /\ IF wan.link = "up"
     THEN /\ at' = [at EXCEPT ![p].local = wan.addr, ![p].dev = cfg.dev]
          /\ Done(p)
          /\ UNCHANGED <<mu, failed>>
     ELSE UNCHANGED at /\ Return(p)
  /\ UNCHANGED <<cfg, wan, v6, tun, six, calls, faults, history, by>>

\* A command that the kernel refuses when `ok` is false.
Command(p, step, ok, t) ==
  /\ Next1(p, step)
  /\ IF ok
     THEN /\ tun' = [tun EXCEPT ![at[p].dev] = t]
          /\ Done(p)
          /\ UNCHANGED <<mu, failed>>
     ELSE UNCHANGED tun /\ Return(p)
  /\ UNCHANGED <<cfg, wan, v6, six, at, calls, faults, history, by>>

\* Two sit devices may not have the same endpoints.
TunAdd(p) ==
  Command(p, "tunAdd",
          tun[at[p].dev].st = "none" /\ \A d \in Devices : tun[d].local # at[p].local,
          [NoTunnel EXCEPT !.st = "down", !.local = at[p].local])

LinkSetUp(p) ==
  Command(p, "linkUp", tun[at[p].dev].st # "none", [tun[at[p].dev] EXCEPT !.st = "up"])

AddrAdd(p) ==
  Command(p, "addrAdd", tun[at[p].dev].st # "none" /\ ~tun[at[p].dev].v6,
          [tun[at[p].dev] EXCEPT !.v6 = TRUE])

\* There is one route to ::/0, and a device that is down carries none.
RouteAdd(p) ==
  Command(p, "routeAdd", tun[at[p].dev].st = "up" /\ \A d \in Devices : ~tun[d].route,
          [tun[at[p].dev] EXCEPT !.route = TRUE])

----------------------------------------------------------------------------
(* Faults, and the provider *)

Fallible == {"peer", "dial", "kill", "save", "writeConf", "writeRA", "unit", "restartUnit",
             "startUnit", "stopUnit", "renew", "tunAdd", "linkUp", "addrAdd", "routeAdd"}
BestEffort == {"routeDel", "linkDown", "tunDel", "reload", "saveUp", "saveDown"}

\* A command or a write fails: an error return, or an error that is ignored.
Fails(p) ==
  /\ faults < env.faults
  /\ todo[p] # <<>>
  /\ \/ Head(todo[p]) \in Fallible /\ Return(p) /\ UNCHANGED at
     \/ /\ Head(todo[p]) \in BestEffort
        /\ Done(p)
        /\ failed' = TRUE
        /\ at' = IF Head(todo[p]) = "routeDel" THEN [at EXCEPT ![p].dev = cfg.dev] ELSE at
        /\ UNCHANGED mu
  /\ faults' = faults + 1
  /\ UNCHANGED <<cfg, wan, v6, tun, six, calls, history, by>>

\* The provider answers: every session has an address of its own.
LinkUp ==
  /\ wan.link = "dialing"
  /\ wan.addr < MaxAddress
  /\ wan' = [wan EXCEPT !.link = "up", !.addr = @ + 1]
  /\ UNCHANGED <<cfg, v6, tun, six, mu, todo, at, calls, faults, history, failed, by>>

\* The session ends; the peer file says `persist`, so pppd dials again by itself.
Redial ==
  /\ wan.link = "up"
  /\ wan.addr < MaxAddress
  /\ wan' = [wan EXCEPT !.link = "dialing"]
  /\ UNCHANGED <<cfg, v6, tun, six, mu, todo, at, calls, faults, history, failed, by>>

Handle(p) ==
  \/ HandleConnect(p) \/ HandleDisconnect(p)
  \/ HandleRenew(p) \/ HandleRelease(p) \/ HandleStart(p)
  \/ \E c \in Forms : HandleSave(p, c)

Step(p) ==
  \/ renderConfig(p) \/ Dial(p) \/ Hook(p) \/ Kill(p) \/ SaveToFile(p) \/ Lock(p) \/ Unlock(p)
  \/ RenderConfig(p) \/ WriteConf(p) \/ RenderRAConfig(p) \/ WriteRA(p) \/ reloadDnsmasq(p)
  \/ ApplyUnit(p) \/ UnitUp(p) \/ stopUnit(p)
  \/ RouteDel(p) \/ LinkDown(p) \/ TunDel(p) \/ Running(p) \/ persistState(p)
  \/ validate(p) \/ localIPv4(p) \/ TunAdd(p) \/ LinkSetUp(p) \/ AddrAdd(p) \/ RouteAdd(p)

Next ==
  \/ \E p \in Requests : Handle(p) \/ Step(p) \/ Fails(p)
  \/ LinkUp \/ Redial

Spec == Init /\ [][Next]_vars

----------------------------------------------------------------------------
(* Properties *)

TypeOK ==
  /\ cfg \in Settings
  /\ wan \in [link : {"down", "dialing", "up"}, addr : 0 .. MaxAddress, connected : BOOLEAN]
  /\ v6 \in [conf : {"stub", "pd"}, ra : {"none", "dhcpv6-pd", "6in4"},
             loaded : {"none", "dhcpv6-pd", "6in4"}, unit : BOOLEAN]
  /\ tun \in [Devices -> Tunnels]
  /\ six \in [running : BOOLEAN, active : BOOLEAN]
  /\ mu \in Requests \cup {Nobody}
  /\ \A p \in Requests : \A i \in DOMAIN todo[p] : todo[p][i] \in Steps
  /\ calls \in 0 .. env.calls /\ faults \in 0 .. env.faults
  /\ over \in BOOLEAN /\ failed \in BOOLEAN /\ renamed \in BOOLEAN
  /\ by \in {"boot", "apply", "other"}

\* However requests overlap, once they are all answered nobody is left with the
\* mutex, and if nothing failed both files and what dnsmasq has loaded are those of
\* the settings in memory, and so is the dhcp6c unit unless a hook or a button
\* moved it after ApplyConfig did.
PlaneFollowsConfig ==
  Idle =>
    /\ mu = Nobody
    /\ ~failed => /\ v6.conf = ConfOf(cfg)
                  /\ v6.ra = RaOf(cfg)
                  /\ v6.loaded = v6.ra
                  /\ by = "apply" => v6.unit = WantsUnit(cfg)

Complete(t) == t.st = "up" /\ t.v6 /\ t.route

\* Without overlapping requests, whatever fails: the 6in4 service says that the
\* tunnel runs only when a device is up with its address and the default route;
\* and when nothing failed and the device kept its name, a tunnel exists only if
\* the service says so, and never in the other mode.
TunnelHonest ==
  Idle /\ ~over =>
    /\ six.running => \E d \in Devices : Complete(tun[d])
    /\ ~failed /\ ~renamed =>
         \A d \in Devices : tun[d] # NoTunnel => six.running /\ cfg.mode = "6in4"
=============================================================================
