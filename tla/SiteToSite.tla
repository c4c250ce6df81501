----------------------------- MODULE SiteToSite -----------------------------
\* The WireGuard server and the site-to-site wizard: invites, joins, acks, expiry
\* and garbage collection of pending peers, ordinary peers, router.yaml, and the
\* running interface wgs0 with its `wg syncconf` reloads.
\*
\* Two routers that share the secret which signs the tokens; the operators carry
\* the tokens and may paste any of them at any time.  The originating router is
\* modelled with its requests step by step, the joining one with a request per step.
EXTENDS Integers, Sequences, Functions, FiniteSets, FiniteSetsExt

CONSTANTS
  Names,
  MaxAddress,      \* tunnel addresses 2 .. MaxAddress, 254 in the code
  Envs,            \* "serial": one request at a time, steps fail and the process restarts;
                   \* "overlap": two requests at once
  MaxSerial, MaxOverlap,   \* requests in either environment
  MaxFaults, MaxCrashes

ASSUME SiteAssumption ==
  /\ MaxAddress \in Nat /\ Envs \subseteq {"serial", "overlap"}
  /\ {MaxSerial, MaxOverlap, MaxFaults, MaxCrashes} \subseteq Nat

VARIABLES
  peers,     \* cfg.VPN.Server.Peers of the originator: [name, id, ip, key, pending, by]
  disk,      \* the same in router.yaml
  joined,    \* the peers that the joining router has registered: [name, id]
  tokens,    \* the tokens handed to the operators: [kind, name, id, key]
  expired,   \* the invites whose hour has passed
  req,       \* the requests under way at the originator, one per browser tab
  running,   \* VPNService.running
  up, live,  \* the kernel's wgs0: is it up, and its peers
  conf, sync,  \* wgs0.conf and /tmp/lankeeper-wgs0-sync.conf
  removed,   \* how many peers RemovePeer has removed
  ops, faults, crashes, env

router == <<peers, disk, joined, tokens, expired>>
wg == <<running, up, live, conf, sync>>
bounds == <<removed, ops, faults, crashes, env>>
vars == <<router, req, wg, bounds>>

Tabs == {"t1", "t2"}
Idle == [pc |-> "idle"]
NoKey == "none"
ServerKey == "server"   \* the joining router's own key, cfg.VPN.Server.PrivateKey
FreshKey == "fresh"     \* a key of GenerateKeypair

NamesOf(ps) == {ps[i].name : i \in DOMAIN ps}
First(ps, n) == Min({i \in DOMAIN ps : ps[i].name = n})
Without(ps, i) == SubSeq(ps, 1, i - 1) \o SubSeq(ps, i + 1, Len(ps))

\* The places of a set, from the lowest to the highest.
Ascending(S) ==
  {f \in [1 .. Cardinality(S) -> S] :
     (\A i, j \in DOMAIN f : i < j => f[i] < f[j]) /\ Range(f) = S}

\* wireguard-server.conf.tmpl: pending peers are skipped.
Conf(ps) == {[name |-> ps[i].name, ip |-> ps[i].ip, key |-> ps[i].key] :
               i \in {j \in DOMAIN ps : ~ps[j].pending /\ ps[j].key # NoKey}}

Init ==
  /\ peers = <<>> /\ disk = <<>> /\ joined = {} /\ tokens = {} /\ expired = {}
  /\ req = [t \in Tabs |-> Idle]
  /\ running = FALSE /\ up = FALSE /\ live = {} /\ conf = {} /\ sync = {}
  /\ removed = 0 /\ ops = 0 /\ faults = 0 /\ crashes = 0
  /\ env \in Envs

-----------------------------------------------------------------------------
MayFail == env = "serial" /\ faults < MaxFaults
More == ops < (IF env = "serial" THEN MaxSerial ELSE MaxOverlap)
Op == More /\ ops' = ops + 1 /\ UNCHANGED <<removed, faults, crashes, env>>
Ok == UNCHANGED bounds
Fault == MayFail /\ faults' = faults + 1 /\ UNCHANGED <<removed, ops, crashes, env>>

\* A tab may send a request.
Free(t) == req[t] = Idle /\ (env = "serial" => t = "t1")
Goes(t, r) == req' = [req EXCEPT ![t] = r]
At(t, pc) == req[t].pc = pc

\* Mutant: counted from the number of peers, as AddPeer does.
NextTunnelIPCounted(ps) == {Len(ps) + 2} \cap (2 .. MaxAddress)

\* nextTunnelIP: the lowest unused address.
NextTunnelIP(ps) == (2 .. MaxAddress) \ {ps[i].ip : i \in DOMAIN ps}

\* CreateS2SInvite: the address is chosen before the lock is taken, ...
Create(t) ==
  /\ Free(t) /\ Op
  /\ NextTunnelIP(peers) # {}
  /\ \E n \in Names :
       Goes(t, [pc |-> "add", peer |-> [name |-> n, id |-> ops', ip |-> Min(NextTunnelIP(peers)),
                                         key |-> NoKey, pending |-> TRUE, by |-> "invite"]])
  /\ UNCHANGED <<router, wg>>

\* ... AddPeer's is counted from the number of peers, ...
AddPeer(t) ==
  /\ Free(t) /\ Op
  /\ \E n \in Names :
       Goes(t, [pc |-> "add", peer |-> [name |-> n, id |-> ops', ip |-> Len(peers) + 2,
                                         key |-> FreshKey, pending |-> FALSE, by |-> "page"]])
  /\ UNCHANGED <<router, wg>>

\* ... and the peer is appended under the lock; only the wizard refuses a name twice.
Append1(t) ==
  /\ At(t, "add") /\ Ok
  /\ LET p == req[t].peer IN
     IF p.by = "invite" /\ p.name \in NamesOf(peers)
     THEN Goes(t, Idle) /\ UNCHANGED router
     ELSE /\ peers' = Append(peers, p)
          /\ Goes(t, [pc |-> "save", peer |-> p])
          /\ UNCHANGED <<disk, joined, tokens, expired>>
  /\ UNCHANGED wg

\* persist; the invite token is handed out only when it succeeds.
SavePeer(t) ==
  /\ At(t, "save")
  /\ Goes(t, Idle)
  /\ \/ /\ Ok /\ disk' = peers
        /\ LET p == req[t].peer IN
           tokens' = IF p.by = "invite"
                     THEN tokens \cup {[kind |-> "invite", name |-> p.name, id |-> p.id, key |-> NoKey]}
                     ELSE tokens
     \/ Fault /\ UNCHANGED <<disk, tokens>>
  /\ UNCHANGED <<peers, joined, expired, wg>>

\* ConsumeInvite on the joining router.  The ack bears the key of a fresh keypair;
\* when the save fails there is none, but the peer is registered.
Join ==
  /\ \E k \in tokens :
       /\ k.kind = "invite" /\ k.id \notin expired
       /\ ~\E j \in joined : j.name = k.name
       /\ joined' = joined \cup {[name |-> k.name, id |-> k.id]}
       /\ \/ /\ Ok
             /\ tokens' = tokens \cup {[kind |-> "ack", name |-> k.name, id |-> k.id, key |-> FreshKey]}
          \/ Fault /\ UNCHANGED tokens
  /\ UNCHANGED <<peers, disk, expired, req, wg>>

Finalized(p, ack) == [p EXCEPT !.key = ack.key, !.pending = FALSE]

\* FinalizeInvite: the ack names the peer, which must be pending.
Finalize(t) ==
  /\ Free(t) /\ Op
  /\ \E k \in tokens :
       /\ k.kind = "ack" /\ k.name \in NamesOf(peers)
       /\ LET i == First(peers, k.name) IN
          /\ peers[i].pending
          /\ peers' = [peers EXCEPT ![i] = Finalized(@, k)]
  /\ Goes(t, [pc |-> "savefinal"])
  /\ UNCHANGED <<disk, joined, tokens, expired, wg>>

\* Mutant: no SyncWGServer.
SaveFinalNoSync(t) ==
  /\ At(t, "savefinal") /\ Ok
  /\ disk' = peers /\ Goes(t, Idle)
  /\ UNCHANGED <<peers, joined, tokens, expired, wg>>

\* A failed save ends the request before SyncWGServer.
SaveFinal(t) ==
  /\ At(t, "savefinal")
  /\ \/ Ok /\ disk' = peers /\ Goes(t, [pc |-> "render"])
     \/ Fault /\ UNCHANGED disk /\ Goes(t, Idle)
  /\ UNCHANGED <<peers, joined, tokens, expired, wg>>

\* SyncWGServer renders wgs0.conf, ...
RenderSync(t) ==
  /\ At(t, "render") /\ Ok
  /\ conf' = Conf(peers)
  /\ Goes(t, [pc |-> "strip"])
  /\ UNCHANGED <<router, running, up, live, sync>>

\* ... strips it, ...
Strip(t) ==
  /\ At(t, "strip") /\ Ok
  /\ Goes(t, [pc |-> "write", out |-> conf])
  /\ UNCHANGED <<router, wg>>

\* ... writes the result to a fixed file, ...
WriteSync(t) ==
  /\ At(t, "write") /\ Ok
  /\ sync' = req[t].out
  /\ Goes(t, [pc |-> "sync"])
  /\ UNCHANGED <<router, running, up, live, conf>>

\* ... and hands that file to the kernel, which refuses it when wgs0 is down.
SyncConf(t) ==
  /\ At(t, "sync")
  /\ Goes(t, Idle)
  /\ \/ Ok /\ live' = IF up THEN sync ELSE live
     \/ Fault /\ UNCHANGED live
  /\ UNCHANGED <<router, running, up, conf, sync>>

-----------------------------------------------------------------------------
Saved == \/ Op /\ disk' = peers'
         \/ /\ MayFail /\ faults' = faults + 1
            /\ More /\ ops' = ops + 1
            /\ UNCHANGED <<disk, removed, crashes, env>>

\* CancelInvite: a pending peer goes; the save is made under the lock.
Cancel(t) ==
  /\ Free(t)
  /\ \E n \in NamesOf(peers) :
       /\ peers[First(peers, n)].pending
       /\ peers' = Without(peers, First(peers, n))
  /\ Saved
  /\ UNCHANGED <<joined, tokens, expired, req, wg>>

\* RemovePeer: the first peer of the name goes; wgs0 is left as it is.
RemovePeer(t) ==
  /\ Free(t) /\ More /\ ops' = ops + 1
  /\ \E n \in NamesOf(peers) : peers' = Without(peers, First(peers, n))
  /\ removed' = removed + 1
  /\ \/ disk' = peers' /\ UNCHANGED faults
     \/ MayFail /\ faults' = faults + 1 /\ UNCHANGED disk
  /\ UNCHANGED <<joined, tokens, expired, req, wg, crashes, env>>

\* An hour passes for an invite.
Expire ==
  /\ \E i \in DOMAIN peers : peers[i].pending /\ expired' = expired \cup {peers[i].id}
  /\ expired' # expired
  /\ UNCHANGED <<peers, disk, joined, tokens, req, wg, bounds>>

\* Mutant: InviteExpiresAt outlives the invite.
LapsedActive(p) == p.id \in expired

Lapsed(p) == p.pending /\ p.id \in expired
Unlapsed == Ascending({i \in DOMAIN peers : ~Lapsed(peers[i])})

\* Mutant: the swept list is only saved.
GCDiskOnly ==
  /\ \E i \in DOMAIN peers : Lapsed(peers[i])
  /\ \E left \in Unlapsed : disk' = [k \in DOMAIN left |-> peers[left[k]]]
  /\ Ok
  /\ UNCHANGED <<peers, joined, tokens, expired, req, wg>>

\* GCExpiredInvites, at the start and every five minutes.
GCExpiredInvites ==
  /\ \E i \in DOMAIN peers : Lapsed(peers[i])
  /\ \E left \in Unlapsed : peers' = [k \in DOMAIN left |-> peers[left[k]]]
  /\ \/ Ok /\ disk' = peers'
     \/ Fault /\ UNCHANGED disk
  /\ UNCHANGED <<joined, tokens, expired, req, wg>>

\* ServerUp renders and brings wgs0 up, which fails when it is up already.
ServerUp ==
  /\ ~running /\ Op
  /\ conf' = Conf(peers)
  /\ IF up THEN UNCHANGED <<running, up, live>>
     ELSE running' = TRUE /\ up' = TRUE /\ live' = conf'
  /\ UNCHANGED <<router, req, sync>>

ServerDown ==
  /\ running /\ Op
  /\ running' = FALSE /\ up' = FALSE /\ live' = {}
  /\ UNCHANGED <<router, req, conf, sync>>

\* The web process stops and starts with router.yaml; the kernel goes on.
Restart ==
  /\ env = "serial" /\ crashes < MaxCrashes /\ crashes' = crashes + 1
  /\ peers' = disk /\ running' = FALSE
  /\ req' = [t \in Tabs |-> Idle]
  /\ UNCHANGED <<disk, joined, tokens, expired, up, live, conf, sync, removed, ops, faults, env>>

Request(t) == \/ Append1(t) \/ SavePeer(t) \/ SaveFinal(t)
              \/ RenderSync(t) \/ Strip(t) \/ WriteSync(t) \/ SyncConf(t)

Next == \/ \E t \in Tabs : \/ Create(t) \/ AddPeer(t) \/ Finalize(t) \/ Cancel(t)
                           \/ RemovePeer(t) \/ Request(t)
        \/ Join \/ Expire \/ GCExpiredInvites \/ ServerUp \/ ServerDown \/ Restart

Spec == Init /\ [][Next]_vars

\* Commands and saves end, and the ticker of StartInviteGC comes round.
FairSpec == Spec /\ WF_vars(GCExpiredInvites) /\ \A t \in Tabs : WF_vars(Request(t))

-----------------------------------------------------------------------------
Peer == [name : Names, id : Nat, ip : Nat, key : {NoKey, ServerKey, FreshKey}, pending : BOOLEAN,
         by : {"invite", "page"}]

\* Every variable has the type the code gives it, and an invite's address is one of
\* 10.10.11.2 to 254.
TypeOK ==
  /\ peers \in Seq(Peer) /\ disk \in Seq(Peer)
  /\ \A i \in DOMAIN peers : peers[i].by = "invite" => peers[i].ip \in 2 .. MaxAddress
  /\ \A k \in tokens : k.kind \in {"invite", "ack"} /\ k.name \in Names
  /\ \A t \in Tabs : req[t].pc \in {"idle", "add", "save", "savefinal", "render", "strip",
                                    "write", "sync"}
  /\ {running, up} \subseteq BOOLEAN

\* "must be unique" (CreateS2SInvite): however requests overlap, the first peer of a
\* name, the one that FinalizeInvite and CancelInvite act on, is the only one that
\* can be pending.  "picks the lowest unused /32 ... Skips ... any already-allocated
\* peer" (nextTunnelIP): with one request at a time, an invited peer shares its
\* address with no peer that was there before it.
InvitesDistinct ==
  /\ \A i \in DOMAIN peers : peers[i].pending => i = First(peers, peers[i].name)
  /\ env = "serial" =>
       \A i, j \in DOMAIN peers : i < j /\ peers[j].by = "invite" => peers[i].ip # peers[j].ip

\* A tunnel that is in use is never lost to a cancelled or expired invite: an active
\* peer leaves the configuration only when the operator removes it, or when the
\* process restarts before it was saved.
ActiveKept ==
  [][\A i \in DOMAIN peers :
       ~peers[i].pending /\ removed' = removed /\ crashes' = crashes =>
         peers[i] \in Range(peers')]_vars

\* "applied live via wg syncconf" (CHANGELOG): with one request at a time and no
\* failing step or restart, every finalised peer is in the kernel's wgs0 when no
\* request is under way.
FinalizedIsLive ==
  env = "serial" /\ up /\ faults = 0 /\ crashes = 0 /\ (\A t \in Tabs : req[t] = Idle) =>
    \A i \in DOMAIN peers :
      peers[i].by = "invite" /\ ~peers[i].pending =>
        [name |-> peers[i].name, ip |-> peers[i].ip, key |-> peers[i].key] \in live

\* "garbage collected after invite expiry" (CHANGELOG): also when the save fails and
\* the process restarts with the old file, an expired invite disappears.
ExpiredReaped ==
  (\E p \in Range(peers) : Lapsed(p)) ~> (\A p \in Range(peers) : ~Lapsed(p))

\* "returns an ack token bearing its own public key" (CHANGELOG): the key that a
\* finalised peer gets is the one the joining router's wgs0 uses.
TunnelAgrees ==
  \A i \in DOMAIN peers :
    peers[i].by = "invite" /\ ~peers[i].pending => peers[i].key = ServerKey
=============================================================================
