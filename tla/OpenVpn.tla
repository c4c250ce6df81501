------------------------------ MODULE OpenVpn -------------------------------
(***************************************************************************)
(* The OpenVPN service (internal/services/openvpn.go) and its page          *)
(* (internal/web/handlers/openvpn.go): the PKI that easy-rsa keeps, the      *)
(* client list in memory and on disk, the openvpn@server unit and the flag   *)
(* the service keeps of it, and the daemons of outbound connections.        *)
(*                                                                          *)
(* A request is the sequence of steps it has yet to do; a failing step      *)
(* drops the rest.  The web process may restart between any two steps: the  *)
(* PKI, the unit and the daemons outlive it.                                *)
(***************************************************************************)
EXTENDS Integers, Sequences, FiniteSets

CONSTANTS
  Requests,  \* the HTTP requests that may be in progress at once
  Names,     \* names of clients of the server
  Outbound,  \* names of outbound connections
  Envs       \* bounds, one set of which a behaviour has: the requests that may
             \* overlap, how many are made, steps that fail, restarts, and the
             \* operations the page is used for

VARIABLES
  pki,       \* easy-rsa: CA and server keys, requests, issued serials, the
             \* serials revoked, and the ones the CRL lists
  serial,    \* serials handed out
  clients,   \* cfg.OpenVPN.Server.Clients: a sequence of [name, serial, enabled, s2s]
  disk,      \* what router.yaml says of it
  ccd,       \* names with a file in /etc/openvpn/ccd
  routes,    \* names whose subnets server.conf routes
  unit,      \* is openvpn@server active?
  running,   \* s.running
  out,       \* per outbound name: in memory, on disk, its daemons, the one in the pid file
  mu,        \* who holds s.mu across a command
  todo, at,  \* steps and local variables of each request
  env, calls, faults, restarts,
  over,      \* history: two requests have been in progress at once
  failed,    \* history: a step failed, or a restart cut a request short
  again,     \* history: a name was added, or a connection made, a second time
  reinit     \* history: the PKI was initialized a second time

hist == <<over, failed, again, reinit>>
vars == <<pki, serial, clients, disk, ccd, routes, unit, running, out, mu, todo, at,
          env, calls, faults, restarts, hist>>

Nobody == "nobody"
None == "none"
NoPki == [ca |-> FALSE, server |-> FALSE, reqs |-> {}, issued |-> [n \in Names |-> 0],
          revoked |-> {}, crl |-> {}]
Unused == [set |-> FALSE, saved |-> FALSE, daemons |-> {}, pid |-> 0]
NoArg == [name |-> None, s2s |-> FALSE, serial |-> 0]

\* Enough distinct process ids for the daemons that the bounds allow.
Pids == 1 .. 2

----------------------------------------------------------------------------
(* The operations, as steps *)

InitPKI == <<"initPki", "buildCa", "serverKeys", "genCrl">>
AddClient == <<"genReq", "signReq", "append", "ccd", "persist">>
\* Mutant: the entry is disabled before the CRL is made.
RevokeClientEarly == <<"revoke", "disable", "genCrl", "persist">>

RevokeClient == <<"revoke", "genCrl", "disable", "persist">>
ServerStart == <<"lockIfDown", "renderServer", "startUnit">>
ServerStop == <<"lockIfUp", "stopUnit">>
AddOutboundClient == <<"appendOut", "persist">>
ConnectClient == <<"renderClient", "daemon">>
DisconnectClient == <<"kill", "removePid">>

\* GenerateClientOVPN reads the CA, the certificate, the key and ta.key.
GenerateClientOVPN(n) == pki.ca /\ pki.server /\ n \in pki.reqs /\ pki.issued[n] # 0

Init ==
  /\ env \in Envs
  /\ pki = NoPki
  /\ serial = 0
  /\ clients = <<>> /\ disk = <<>>
  /\ ccd = {} /\ routes = {}
  /\ unit = FALSE /\ running = FALSE
  /\ out = [n \in Outbound |-> Unused]
  /\ mu = Nobody
  /\ todo = [p \in Requests |-> <<>>]
  /\ at = [p \in Requests |-> NoArg]
  /\ calls = 0 /\ faults = 0 /\ restarts = 0
  /\ over = FALSE /\ failed = FALSE /\ again = FALSE /\ reinit = FALSE

Idle == \A p \in Requests : todo[p] = <<>>

Begin(p, op, steps, arg) ==
  /\ p \in env.reqs
  /\ op \in env.ops
  /\ todo[p] = <<>>
  /\ calls < env.calls
  /\ calls' = calls + 1
  /\ todo' = [todo EXCEPT ![p] = steps]
  /\ at' = [at EXCEPT ![p] = arg]
  /\ over' = (over \/ ~Idle)
  /\ UNCHANGED <<pki, serial, clients, disk, ccd, routes, unit, running, out, mu,
                 env, faults, restarts, failed>>

HandleInitPKI(p) ==
  /\ Begin(p, "pki", InitPKI, NoArg)
  /\ reinit' = (reinit \/ pki # NoPki)
  /\ UNCHANGED again

\* The page checks the form of the name, not whether the list has it.
HandleAddClient(p, n, s2s) ==
  /\ Begin(p, "clients", AddClient, [name |-> n, s2s |-> s2s, serial |-> 0])
  /\ again' = (again \/ \E i \in DOMAIN clients : clients[i].name = n)
  /\ UNCHANGED reinit

HandleRevokeClient(p, n) ==
  Begin(p, "clients", RevokeClient, [NoArg EXCEPT !.name = n]) /\ UNCHANGED <<again, reinit>>

HandleServerStart(p) == Begin(p, "server", ServerStart, NoArg) /\ UNCHANGED <<again, reinit>>

HandleServerStop(p) == Begin(p, "server", ServerStop, NoArg) /\ UNCHANGED <<again, reinit>>

HandleAddOutboundClient(p, n) ==
  Begin(p, "out", AddOutboundClient, [NoArg EXCEPT !.name = n]) /\ UNCHANGED <<again, reinit>>

\* A name that is not in the list is an error before anything is done.
HandleConnectOutbound(p, n) ==
  /\ out[n].set
  /\ Begin(p, "out", ConnectClient, [NoArg EXCEPT !.name = n])
  /\ again' = (again \/ out[n].daemons # {})
  /\ UNCHANGED reinit

HandleDisconnectOutbound(p, n) ==
  Begin(p, "out", DisconnectClient, [NoArg EXCEPT !.name = n]) /\ UNCHANGED <<again, reinit>>

Handle(p) ==
  \/ HandleInitPKI(p) \/ HandleServerStart(p) \/ HandleServerStop(p)
  \/ \E n \in Names : HandleRevokeClient(p, n) \/ \E s2s \in BOOLEAN : HandleAddClient(p, n, s2s)
  \/ \E n \in Outbound : HandleAddOutboundClient(p, n) \/ HandleConnectOutbound(p, n)
                         \/ HandleDisconnectOutbound(p, n)

----------------------------------------------------------------------------
(* Steps *)

Next1(p, step) ==
  /\ todo[p] # <<>>
  /\ Head(todo[p]) = step

Done(p) ==
  /\ todo' = [todo EXCEPT ![p] = Tail(@)]
  /\ at' = IF Len(todo[p]) = 1 THEN [at EXCEPT ![p] = NoArg] ELSE at

Return(p) ==
  /\ todo' = [todo EXCEPT ![p] = <<>>]
  /\ at' = [at EXCEPT ![p] = NoArg]
  /\ mu' = IF mu = p THEN Nobody ELSE mu

\* An easy-rsa command on the PKI; `ok` says when easy-rsa accepts it.
Rsa(p, step, ok, new) ==
  /\ Next1(p, step)
  /\ IF ok
     THEN pki' = new /\ Done(p) /\ UNCHANGED <<mu, failed>>
     ELSE Return(p) /\ failed' = TRUE /\ UNCHANGED pki
  /\ UNCHANGED <<serial, clients, disk, ccd, routes, unit, running, out, env, calls, faults,
                 restarts, over, again, reinit>>

\* init-pki starts an empty PKI; gen-dh and ta.key go with the server's keys.
EasyRsa(p) ==
  LET n == at[p].name IN
  \/ Rsa(p, "initPki", TRUE, NoPki)
  \/ Rsa(p, "buildCa", TRUE, [pki EXCEPT !.ca = TRUE])
  \/ Rsa(p, "serverKeys", pki.ca, [pki EXCEPT !.server = TRUE])
  \/ Rsa(p, "genCrl", pki.ca, [pki EXCEPT !.crl = pki.revoked])
  \/ Next1(p, "genReq") /\ Rsa(p, "genReq", n \notin pki.reqs, [pki EXCEPT !.reqs = @ \cup {n}])
  \/ Next1(p, "revoke") /\ Rsa(p, "revoke", pki.issued[n] # 0,
         [pki EXCEPT !.revoked = @ \cup {pki.issued[n]}, !.issued[n] = 0, !.reqs = @ \ {n}])

\* sign-req gives the certificate a serial of its own.
SignReq(p) ==
  /\ Next1(p, "signReq")
  /\ LET n == at[p].name IN
     IF pki.ca /\ n \in pki.reqs /\ pki.issued[n] = 0
     THEN /\ serial' = serial + 1
          /\ pki' = [pki EXCEPT !.issued[n] = serial + 1]
          /\ at' = [at EXCEPT ![p].serial = serial + 1]
          /\ todo' = [todo EXCEPT ![p] = Tail(@)]
          /\ UNCHANGED <<mu, failed>>
     ELSE Return(p) /\ failed' = TRUE /\ UNCHANGED <<serial, pki>>
  /\ UNCHANGED <<clients, disk, ccd, routes, unit, running, out, env, calls, faults, restarts,
                 over, again, reinit>>

AppendClient(p) ==
  /\ Next1(p, "append") /\ mu = Nobody
  /\ clients' = Append(clients, [name |-> at[p].name, serial |-> at[p].serial,
                                 enabled |-> TRUE, s2s |-> at[p].s2s])
  /\ Done(p)
  /\ UNCHANGED <<pki, serial, disk, ccd, routes, unit, running, out, mu, env, calls, faults,
                 restarts, hist>>

writeCCD(p) ==
  /\ Next1(p, "ccd")
  /\ ccd' = ccd \cup {at[p].name}
  /\ Done(p)
  /\ UNCHANGED <<pki, serial, clients, disk, routes, unit, running, out, mu, env, calls, faults,
                 restarts, hist>>

\* Only the first entry of that name.
Disable(p) ==
  /\ Next1(p, "disable") /\ mu = Nobody
  /\ clients' = [i \in DOMAIN clients |->
                   IF clients[i].name = at[p].name /\ \A j \in 1 .. i - 1 : clients[j].name # at[p].name
                   THEN [clients[i] EXCEPT !.enabled = FALSE] ELSE clients[i]]
  /\ Done(p)
  /\ UNCHANGED <<pki, serial, disk, ccd, routes, unit, running, out, mu, env, calls, faults,
                 restarts, hist>>

\* The whole configuration is saved; AddOutboundClient still holds s.mu.
persist(p) ==
  /\ Next1(p, "persist")
  /\ disk' = clients
  /\ out' = [n \in Outbound |-> [out[n] EXCEPT !.saved = out[n].set]]
  /\ mu' = IF mu = p THEN Nobody ELSE mu
  /\ Done(p)
  /\ UNCHANGED <<pki, serial, clients, ccd, routes, unit, running, env, calls, faults,
                 restarts, hist>>

\* ServerStart and ServerStop hold s.mu to the end; "already running" and
\* "already stopped" are answered like success.
LockServer(p) ==
  /\ Next1(p, "lockIfDown") \/ Next1(p, "lockIfUp")
  /\ mu = Nobody
  /\ IF running = Next1(p, "lockIfUp")
     THEN mu' = p /\ Done(p)
     ELSE Return(p)
  /\ UNCHANGED <<pki, serial, clients, disk, ccd, routes, unit, running, out, env, calls, faults,
                 restarts, hist>>

\* server.conf, then the file of every enabled client.
RenderServerConfig(p) ==
  /\ Next1(p, "renderServer")
  /\ LET enabled == {i \in DOMAIN clients : clients[i].enabled} IN
     /\ routes' = {clients[i].name : i \in {j \in enabled : clients[j].s2s}}
     /\ ccd' = ccd \cup {clients[i].name : i \in enabled}
  /\ Done(p)
  /\ UNCHANGED <<pki, serial, clients, disk, unit, running, out, mu, env, calls, faults,
                 restarts, hist>>

\* openvpn@server does not come up without the server's keys.
StartUnit(p) ==
  /\ Next1(p, "startUnit")
  /\ Return(p)
  /\ unit' = pki.server
  /\ running' = pki.server
  /\ failed' = (failed \/ ~pki.server)
  /\ UNCHANGED <<pki, serial, clients, disk, ccd, routes, out, env, calls, faults, restarts,
                 over, again, reinit>>

StopUnit(p) ==
  /\ Next1(p, "stopUnit")
  /\ Return(p)
  /\ unit' = FALSE
  /\ running' = FALSE
  /\ UNCHANGED <<pki, serial, clients, disk, ccd, routes, out, env, calls, faults, restarts, hist>>

AppendOutbound(p) ==
  /\ Next1(p, "appendOut") /\ mu = Nobody
  /\ mu' = p
  /\ out' = [out EXCEPT ![at[p].name].set = TRUE]
  /\ Done(p)
  /\ UNCHANGED <<pki, serial, clients, disk, ccd, routes, unit, running, env, calls, faults,
                 restarts, hist>>

renderClientConfig(p) ==
  /\ Next1(p, "renderClient")
  /\ Done(p)
  /\ UNCHANGED <<pki, serial, clients, disk, ccd, routes, unit, running, out, mu, env, calls,
                 faults, restarts, hist>>

\* A new daemon, whose pid replaces the one in the file.
Daemon(p) ==
  /\ Next1(p, "daemon")
  /\ \E d \in Pids \ UNION {out[n].daemons : n \in Outbound} :
       out' = [out EXCEPT ![at[p].name].daemons = @ \cup {d}, ![at[p].name].pid = d]
  /\ Done(p)
  /\ UNCHANGED <<pki, serial, clients, disk, ccd, routes, unit, running, mu, env, calls, faults,
                 restarts, hist>>

\* DisconnectClient without a pid file does nothing, and says so to nobody.
Kill(p) ==
  /\ Next1(p, "kill")
  /\ LET n == at[p].name IN
     IF out[n].pid = 0
     THEN Return(p) /\ UNCHANGED out
     ELSE out' = [out EXCEPT ![n].daemons = @ \ {out[n].pid}] /\ Done(p) /\ UNCHANGED mu
  /\ UNCHANGED <<pki, serial, clients, disk, ccd, routes, unit, running, env, calls, faults,
                 restarts, hist>>

RemovePid(p) ==
  /\ Next1(p, "removePid")
  /\ out' = [out EXCEPT ![at[p].name].pid = 0]
  /\ Done(p)
  /\ UNCHANGED <<pki, serial, clients, disk, ccd, routes, unit, running, mu, env, calls, faults,
                 restarts, hist>>

----------------------------------------------------------------------------
(* Faults *)

Logged == {"ccd", "kill", "removePid"}
Infallible == {"append", "disable", "lockIfDown", "lockIfUp", "appendOut"}

\* A command or a write fails: an error return, or one that is only logged.
Fails(p) ==
  /\ faults < env.faults
  /\ faults' = faults + 1
  /\ todo[p] # <<>>
  /\ Head(todo[p]) \notin Infallible
  /\ IF Head(todo[p]) \in Logged THEN Done(p) /\ UNCHANGED mu ELSE Return(p)
  /\ failed' = TRUE
  /\ UNCHANGED <<pki, serial, clients, disk, ccd, routes, unit, running, out, env, calls, restarts,
                 over, again, reinit>>

\* The web process restarts; it reads the configuration, not the unit's state.
Restart ==
  /\ restarts < env.restarts
  /\ restarts' = restarts + 1
  /\ clients' = disk
  /\ out' = [n \in Outbound |-> [out[n] EXCEPT !.set = out[n].saved]]
  /\ running' = FALSE
  /\ mu' = Nobody
  /\ todo' = [p \in Requests |-> <<>>]
  /\ at' = [p \in Requests |-> NoArg]
  /\ failed' = (failed \/ ~Idle)
  /\ UNCHANGED <<pki, serial, disk, ccd, routes, unit, env, calls, faults, over, again, reinit>>

Step(p) ==
  \/ EasyRsa(p) \/ SignReq(p) \/ AppendClient(p) \/ writeCCD(p) \/ Disable(p) \/ persist(p)
  \/ LockServer(p) \/ RenderServerConfig(p) \/ StartUnit(p) \/ StopUnit(p)
  \/ AppendOutbound(p) \/ renderClientConfig(p) \/ Daemon(p) \/ Kill(p) \/ RemovePid(p)

Next ==
  \/ \E p \in Requests : Handle(p) \/ Step(p) \/ Fails(p)
  \/ Restart

Spec == Init /\ [][Next]_vars

----------------------------------------------------------------------------
(* Properties *)

TypeOK ==
  /\ \A list \in {clients, disk} : \A i \in DOMAIN list :
       list[i] \in [name : Names, serial : 1 .. serial, enabled : BOOLEAN, s2s : BOOLEAN]
  /\ pki.reqs \subseteq Names /\ pki.crl \cup pki.revoked \subseteq 1 .. serial
  /\ ccd \subseteq Names /\ routes \subseteq Names
  /\ unit \in BOOLEAN /\ running \in BOOLEAN
  /\ \A n \in Outbound : out[n].daemons \subseteq Pids /\ out[n].pid \in Pids \cup {0}
  /\ mu \in Requests \cup {Nobody}

\* A client that the list shows as revoked is one whose certificate the published
\* CRL lists, whatever failed on the way and wherever the process restarted:
\* RevokeClient disables the entry only after gen-crl.  And when nothing failed and
\* no name was used twice, the clients that the list shows as enabled are exactly
\* those whose profile can be downloaded, and the list on disk is the list in
\* memory.  Both are for requests that do not overlap and a PKI that is made once.
ListMatchesPki ==
  ~over /\ ~reinit =>
    /\ \A i \in DOMAIN clients : ~clients[i].enabled => clients[i].serial \in pki.crl
    /\ Idle /\ ~failed /\ ~again =>
         /\ {clients[i].name : i \in {j \in DOMAIN clients : clients[j].enabled}}
              = {n \in Names : GenerateClientOVPN(n)}
         /\ disk = clients
=============================================================================
