------------------------------- MODULE Names -------------------------------
\* Names on the LAN: static DHCP leases, the DNS records mirrored from them, the
\* operator's own records, the encryption mode, router.yaml and the files and
\* daemons (dnsmasq, unbound, dnscrypt-proxy) behind them.
\*
\* Two requests can be under way, one of the DHCP or settings page ("dhcp") and
\* one of the DNS page ("dns").  DNSService.mu makes one edit of the records with
\* its save atomic; nothing spans the steps of a request.
EXTENDS Integers, Sequences, Functions, FiniteSets

CONSTANTS
  Devices,     \* a device has a MAC and an IP address of its own
  Hosts,
  Domains, Default,  \* "lan" until the operator sets another
  MaxRecords,  \* MaxStaticDNSRecords, 500 in the code
  MaxOps, MaxFaults, MaxCrashes,
  Envs         \* the environments to explore

ASSUME NamesAssumption ==
  /\ Default \in Domains
  /\ "user" \notin Devices   \* the source of the operator's own records
  /\ MaxRecords \in Nat \ {0}
  /\ {MaxOps, MaxFaults, MaxCrashes} \subseteq Nat
  /\ Envs \subseteq {"tidy", "messy", "busy"}

VARIABLES
  cfg,      \* the configuration in memory
  yaml,     \* router.yaml
  conf,     \* unbound.conf: the records and the mode it was rendered from
  unbound,  \* what the running unbound has loaded
  hosts,    \* [file, loaded]: the leases in dnsmasq.conf and in dnsmasq
  proxy,    \* [up, enabled]: the dnscrypt-proxy unit
  dhcp,     \* the request of the DHCP or settings page, or the start-up
  dns,      \* the request of the DNS page
  ops, faults, crashes,
  env

vars == <<cfg, yaml, conf, unbound, hosts, proxy, dhcp, dns, ops, faults, crashes, env>>

User == "user"
Name == Hosts \X Domains
Lease == [dev : Devices, host : Hosts]
Record == [name : Name, src : Devices \cup {User}]
Mode == {"direct", "doh"}   \* plain DNS and DoT do not use the proxy

View(c) == [records |-> c.records, mode |-> c.mode]
Quiet == [step |-> "idle"]
Idle == dhcp = Quiet /\ dns = Quiet
Booting == dhcp # Quiet /\ dhcp.boot

Mirrored(records) == {r \in Range(records) : r.src # User}
Own(records) == {r \in Range(records) : r.src = User}
\* append(list[:i], list[i+1:]...)
Without(list, i) == SubSeq(list, 1, i - 1) \o SubSeq(list, i + 1, Len(list))
MirrorOf(l, domain) == [name |-> <<l.host, domain>>, src |-> l.dev]

Init ==
  /\ cfg = [domain |-> Default, leases |-> <<>>, records |-> <<>>, mode |-> "direct"]
  /\ yaml = cfg
  /\ conf = View(cfg) /\ unbound = conf
  /\ hosts = [file |-> <<>>, loaded |-> <<>>]
  /\ proxy = [up |-> FALSE, enabled |-> FALSE]
  /\ dhcp = Quiet /\ dns = Quiet
  /\ ops = 0 /\ faults = 0 /\ crashes = 0
  /\ env \in Envs

-----------------------------------------------------------------------------
Ok == UNCHANGED faults

Fault == /\ env # "tidy" /\ faults < MaxFaults
         /\ faults' = faults + 1

\* SaveToFile: the whole configuration replaces router.yaml, or nothing does.
Saves(c) == cfg' = c /\ yaml' = c /\ Ok
SaveFails(c) == cfg' = c /\ Fault /\ UNCHANGED yaml

NewRequest == /\ ops < MaxOps /\ ~Booting
              /\ env # "busy" => Idle
              /\ ops' = ops + 1

\* An orderly operator: a host name belongs to one lease or to one own record.
HostFree(h) == env = "tidy" =>
  /\ \A i \in DOMAIN cfg.leases : cfg.leases[i].host # h
  /\ \A i \in DOMAIN cfg.records : cfg.records[i].name[1] # h

\* CanAdd without the search for the name.
CanAddDuplicate(r) == Len(cfg.records) < MaxRecords

CanAdd(r) == /\ Len(cfg.records) < MaxRecords
             /\ \A i \in DOMAIN cfg.records : cfg.records[i].name # r.name

WithRecord(r) == [cfg EXCEPT !.records = Append(@, r)]
WithoutRecord(i) == [cfg EXCEPT !.records = Without(@, i)]

-----------------------------------------------------------------------------
\* The DHCP page.  HandleAddStatic: the lease, its mirror, then dnsmasq.
AddLease ==
  /\ dhcp = Quiet /\ NewRequest
  /\ \E l \in Lease :
       /\ \A i \in DOMAIN cfg.leases : cfg.leases[i].dev # l.dev
       /\ HostFree(l.host)
       /\ LET c == [cfg EXCEPT !.leases = Append(@, l)] IN
          \/ Saves(c) /\ dhcp' = [step |-> "mirror", lease |-> l, boot |-> FALSE]
          \/ SaveFails(c) /\ dhcp' = Quiet
  /\ UNCHANGED <<conf, unbound, hosts, proxy, dns, crashes, env>>

RemoveLease ==
  /\ dhcp = Quiet /\ NewRequest
  /\ \E i \in DOMAIN cfg.leases :
       LET c == [cfg EXCEPT !.leases = Without(@, i)] IN
       \/ Saves(c) /\ dhcp' = [step |-> "find", host |-> cfg.leases[i].host, boot |-> FALSE]
       \/ SaveFails(c) /\ dhcp' = Quiet
  /\ UNCHANGED <<conf, unbound, hosts, proxy, dns, crashes, env>>

Render == [step |-> "render", boot |-> FALSE]

\* AddStaticRecord for the lease; a refusal or a failed save is only logged.
Mirror ==
  /\ dhcp.step = "mirror"
  /\ LET r == MirrorOf(dhcp.lease, cfg.domain) IN
     \/ CanAdd(r) /\ (Saves(WithRecord(r)) \/ SaveFails(WithRecord(r)))
     \/ ~CanAdd(r) /\ Ok /\ UNCHANGED <<cfg, yaml>>
  /\ dhcp' = Render
  /\ UNCHANGED <<conf, unbound, hosts, proxy, dns, ops, crashes, env>>

\* FindMirror by name alone.
FindMirrorAnySource ==
  /\ dhcp.step = "find"
  /\ LET named == {i \in DOMAIN cfg.records : cfg.records[i].name = <<dhcp.host, cfg.domain>>}
     IN dhcp' = IF named = {} THEN Render
                ELSE [step |-> "unmirror", idx |-> CHOOSE i \in named : \A j \in named : i <= j,
                      boot |-> FALSE]
  /\ UNCHANGED <<cfg, yaml, conf, unbound, hosts, proxy, dns, ops, faults, crashes, env>>

\* FindStaticRecordIndexBySource; the lock is released before the removal.
FindMirror ==
  /\ dhcp.step = "find"
  /\ LET mine == {i \in DOMAIN cfg.records :
                    cfg.records[i].src # User /\ cfg.records[i].name = <<dhcp.host, cfg.domain>>}
     IN dhcp' = IF mine = {} THEN Render
                ELSE [step |-> "unmirror", idx |-> CHOOSE i \in mine : \A j \in mine : i <= j,
                      boot |-> FALSE]
  /\ UNCHANGED <<cfg, yaml, conf, unbound, hosts, proxy, dns, ops, faults, crashes, env>>

\* RemoveStaticRecord(idx); an error is only logged.
Unmirror ==
  /\ dhcp.step = "unmirror"
  /\ \/ /\ dhcp.idx \in DOMAIN cfg.records
        /\ Saves(WithoutRecord(dhcp.idx)) \/ SaveFails(WithoutRecord(dhcp.idx))
     \/ dhcp.idx \notin DOMAIN cfg.records /\ Ok /\ UNCHANGED <<cfg, yaml>>
  /\ dhcp' = Render
  /\ UNCHANGED <<conf, unbound, hosts, proxy, dns, ops, crashes, env>>

\* DHCPService.ApplyConfig: dnsmasq.conf, then SIGHUP.
RenderHosts ==
  /\ dhcp.step = "render"
  /\ \/ Ok /\ hosts' = [hosts EXCEPT !.file = cfg.leases]
        /\ dhcp' = [step |-> "reload", boot |-> FALSE]
     \/ Fault /\ dhcp' = Quiet /\ UNCHANGED hosts
  /\ UNCHANGED <<cfg, yaml, conf, unbound, proxy, dns, ops, crashes, env>>

ReloadHosts ==
  /\ dhcp.step = "reload"
  /\ \/ Ok /\ hosts' = [hosts EXCEPT !.loaded = hosts.file]
     \/ Fault /\ UNCHANGED hosts
  /\ dhcp' = Quiet
  /\ UNCHANGED <<cfg, yaml, conf, unbound, proxy, dns, ops, crashes, env>>

-----------------------------------------------------------------------------
\* HandleUpdateHostname: the domain changes in memory, a new one re-mirrors every
\* lease, and the configuration is saved last.
Sync(boot) == [step |-> "stripfind", boot |-> boot]

\* SetDomain without RebuildDNSRecords.
SetDomainNoSync ==
  /\ dhcp = Quiet /\ NewRequest
  /\ \E d \in Domains : cfg' = [cfg EXCEPT !.domain = d]
  /\ dhcp' = [step |-> "save", boot |-> FALSE]
  /\ UNCHANGED <<yaml, conf, unbound, hosts, proxy, dns, faults, crashes, env>>

SetDomain ==
  /\ dhcp = Quiet /\ NewRequest
  /\ \E d \in Domains :
       /\ cfg' = [cfg EXCEPT !.domain = d]
       /\ dhcp' = IF d # cfg.domain THEN Sync(FALSE) ELSE [step |-> "save", boot |-> FALSE]
  /\ UNCHANGED <<yaml, conf, unbound, hosts, proxy, dns, faults, crashes, env>>

\* After a sync, the settings handler saves; the start-up begins to serve.
AfterSync == IF dhcp.boot THEN Quiet ELSE [step |-> "save", boot |-> FALSE]

\* SyncStaticDNSRecords strips the mirrored records one by one, ...
StripFind ==
  /\ dhcp.step = "stripfind"
  /\ LET mine == {i \in DOMAIN cfg.records : cfg.records[i].src # User} IN
     dhcp' = IF mine # {}
             THEN [step |-> "strip", idx |-> CHOOSE i \in mine : \A j \in mine : i <= j,
                   boot |-> dhcp.boot]
             ELSE [step |-> "readd", todo |-> cfg.leases, boot |-> dhcp.boot]
  /\ UNCHANGED <<cfg, yaml, conf, unbound, hosts, proxy, dns, ops, faults, crashes, env>>

\* Strip that forgets to remove the record it found.
StripKeeps ==
  /\ dhcp.step = "strip"
  /\ dhcp' = Sync(dhcp.boot)
  /\ UNCHANGED <<cfg, yaml, conf, unbound, hosts, proxy, dns, ops, faults, crashes, env>>

Strip ==
  /\ dhcp.step = "strip"
  /\ \/ /\ dhcp.idx \in DOMAIN cfg.records
        /\ \/ Saves(WithoutRecord(dhcp.idx)) /\ dhcp' = Sync(dhcp.boot)
           \/ SaveFails(WithoutRecord(dhcp.idx)) /\ dhcp' = AfterSync
     \/ /\ dhcp.idx \notin DOMAIN cfg.records
        /\ dhcp' = AfterSync
        /\ Ok /\ UNCHANGED <<cfg, yaml>>
  /\ UNCHANGED <<conf, unbound, hosts, proxy, dns, ops, crashes, env>>

\* ... adds one for each lease (errors are logged), ...
Readd ==
  /\ dhcp.step = "readd" /\ dhcp.todo # <<>>
  /\ LET r == MirrorOf(Head(dhcp.todo), cfg.domain) IN
     \/ CanAdd(r) /\ (Saves(WithRecord(r)) \/ SaveFails(WithRecord(r)))
     \/ ~CanAdd(r) /\ Ok /\ UNCHANGED <<cfg, yaml>>
  /\ dhcp' = [dhcp EXCEPT !.todo = Tail(@)]
  /\ UNCHANGED <<conf, unbound, hosts, proxy, dns, ops, crashes, env>>

\* ... and applies: RenderConfig reads the configuration, ...
SyncRenders ==
  /\ dhcp.step = "readd" /\ dhcp.todo = <<>>
  /\ dhcp' = [step |-> "write", out |-> View(cfg), boot |-> dhcp.boot]
  /\ UNCHANGED <<cfg, yaml, conf, unbound, hosts, proxy, dns, ops, faults, crashes, env>>

\* ... the agent writes unbound.conf, ...
SyncWrites ==
  /\ dhcp.step = "write"
  /\ \/ Ok /\ conf' = dhcp.out /\ dhcp' = [step |-> "dnsreload", boot |-> dhcp.boot]
     \/ Fault /\ dhcp' = AfterSync /\ UNCHANGED conf
  /\ UNCHANGED <<cfg, yaml, unbound, hosts, proxy, dns, ops, crashes, env>>

\* ... and unbound loads it.
SyncReloads ==
  /\ dhcp.step = "dnsreload"
  /\ \/ Ok /\ unbound' = conf
     \/ Fault /\ UNCHANGED unbound
  /\ dhcp' = AfterSync
  /\ UNCHANGED <<cfg, yaml, conf, hosts, proxy, dns, ops, crashes, env>>

SaveDomain ==
  /\ dhcp.step = "save"
  /\ Saves(cfg) \/ SaveFails(cfg)
  /\ dhcp' = Quiet
  /\ UNCHANGED <<conf, unbound, hosts, proxy, dns, ops, crashes, env>>

-----------------------------------------------------------------------------
\* The DNS page.  HandleAddRecord and HandleDeleteRecord: a failed save answers
\* with an error, before anything is applied.
AddRecord ==
  /\ dns = Quiet /\ NewRequest
  /\ \E n \in Name :
       LET r == [name |-> n, src |-> User] IN
       /\ HostFree(n[1]) /\ CanAdd(r)
       /\ \/ Saves(WithRecord(r)) /\ dns' = [step |-> "render"]
          \/ SaveFails(WithRecord(r)) /\ dns' = Quiet
  /\ UNCHANGED <<conf, unbound, hosts, proxy, dhcp, crashes, env>>

\* The index comes from the page, whoever the record belongs to.
DeleteRecord ==
  /\ dns = Quiet /\ NewRequest
  /\ \E i \in DOMAIN cfg.records :
       /\ env = "tidy" => cfg.records[i].src = User
       /\ \/ Saves(WithoutRecord(i)) /\ dns' = [step |-> "render"]
          \/ SaveFails(WithoutRecord(i)) /\ dns' = Quiet
  /\ UNCHANGED <<conf, unbound, hosts, proxy, dhcp, crashes, env>>

\* SetMode without DoHService.ApplyConfig.
SetModeUnboundOnly ==
  /\ dns = Quiet /\ NewRequest
  /\ \E mo \in Mode : Saves([cfg EXCEPT !.mode = mo])
  /\ dns' = [step |-> "render"]
  /\ UNCHANGED <<conf, unbound, hosts, proxy, dhcp, crashes, env>>

\* HandleSaveDoT: the mode, then dnscrypt-proxy, then unbound.
SetMode ==
  /\ dns = Quiet /\ NewRequest
  /\ \E mo \in Mode :
       LET c == [cfg EXCEPT !.mode = mo] IN
       \/ Saves(c) /\ dns' = [step |-> "proxyconf"]
       \/ SaveFails(c) /\ dns' = Quiet
  /\ UNCHANGED <<conf, unbound, hosts, proxy, dhcp, crashes, env>>

\* DoHService.ApplyConfig writes its file and looks at EnableDoH; its errors are
\* logged.
ProxyConf ==
  /\ dns.step = "proxyconf"
  /\ \/ Ok /\ dns' = [step |-> IF cfg.mode = "doh" THEN "proxystart" ELSE "proxystop"]
     \/ Fault /\ dns' = [step |-> "render"]
  /\ UNCHANGED <<cfg, yaml, conf, unbound, hosts, proxy, dhcp, ops, crashes, env>>

ProxyStop ==
  /\ dns.step = "proxystop"
  /\ \/ Ok /\ proxy' = [proxy EXCEPT !.up = FALSE]
     \/ Fault /\ UNCHANGED proxy
  /\ dns' = [step |-> "render"]
  /\ UNCHANGED <<cfg, yaml, conf, unbound, hosts, dhcp, ops, crashes, env>>

\* A failed restart leaves the unit down.
ProxyStart ==
  /\ dns.step = "proxystart"
  /\ \/ Ok /\ proxy' = [proxy EXCEPT !.up = TRUE] /\ dns' = [step |-> "enable"]
     \/ Fault /\ proxy' = [proxy EXCEPT !.up = FALSE] /\ dns' = [step |-> "render"]
  /\ UNCHANGED <<cfg, yaml, conf, unbound, hosts, dhcp, ops, crashes, env>>

ProxyEnable ==
  /\ dns.step = "enable"
  /\ \/ Ok /\ proxy' = [proxy EXCEPT !.enabled = TRUE]
     \/ Fault /\ UNCHANGED proxy
  /\ dns' = [step |-> "render"]
  /\ UNCHANGED <<cfg, yaml, conf, unbound, hosts, dhcp, ops, crashes, env>>

\* DNSService.ApplyConfig; its errors are logged.
RenderDns ==
  /\ dns.step = "render"
  /\ dns' = [step |-> "write", out |-> View(cfg)]
  /\ UNCHANGED <<cfg, yaml, conf, unbound, hosts, proxy, dhcp, ops, faults, crashes, env>>

WriteDns ==
  /\ dns.step = "write"
  /\ \/ Ok /\ conf' = dns.out /\ dns' = [step |-> "reload"]
     \/ Fault /\ dns' = Quiet /\ UNCHANGED conf
  /\ UNCHANGED <<cfg, yaml, unbound, hosts, proxy, dhcp, ops, crashes, env>>

\* UpdateBlocklist ends in the same reload.
UpdateBlocklist ==
  /\ dns = Quiet /\ NewRequest
  /\ dns' = [step |-> "reload"]
  /\ UNCHANGED <<cfg, yaml, conf, unbound, hosts, proxy, dhcp, faults, crashes, env>>

ReloadDns ==
  /\ dns.step = "reload"
  /\ \/ Ok /\ unbound' = conf
     \/ Fault /\ UNCHANGED unbound
  /\ dns' = Quiet
  /\ UNCHANGED <<cfg, yaml, conf, hosts, proxy, dhcp, ops, crashes, env>>

-----------------------------------------------------------------------------
\* The web process stops anywhere; the next one loads router.yaml and syncs
\* before it serves.  When the router lost power the daemons start from their
\* files as well.
Restart ==
  /\ crashes < MaxCrashes /\ crashes' = crashes + 1
  /\ cfg' = yaml
  /\ dhcp' = Sync(TRUE) /\ dns' = Quiet
  /\ \/ UNCHANGED <<unbound, hosts, proxy>>
     \/ /\ unbound' = conf
        /\ hosts' = [hosts EXCEPT !.loaded = hosts.file]
        /\ proxy' = [proxy EXCEPT !.up = proxy.enabled]
  /\ UNCHANGED <<yaml, conf, ops, faults, env>>

DhcpStep == \/ Mirror \/ FindMirror \/ Unmirror \/ RenderHosts \/ ReloadHosts
            \/ StripFind \/ Strip \/ Readd \/ SyncRenders \/ SyncWrites \/ SyncReloads
            \/ SaveDomain

DnsStep == \/ ProxyConf \/ ProxyStop \/ ProxyStart \/ ProxyEnable
           \/ RenderDns \/ WriteDns \/ ReloadDns

Next == \/ AddLease \/ RemoveLease \/ SetDomain \/ DhcpStep
        \/ AddRecord \/ DeleteRecord \/ SetMode \/ UpdateBlocklist \/ DnsStep
        \/ Restart

Spec == Init /\ [][Next]_vars

\* A handler, once called, runs on its own goroutine and the agent answers or
\* times out.
FairSpec == Spec /\ WF_vars(DhcpStep) /\ WF_vars(DnsStep)

-----------------------------------------------------------------------------
Config == [domain : Domains, leases : Seq(Lease), records : Seq(Record), mode : Mode]
Rendered == [records : Seq(Record), mode : Mode]

\* Every variable has the type the code gives it, the records obey the limit of
\* MaxStaticDNSRecords, and no device is leased twice.
TypeOK ==
  /\ cfg \in Config /\ yaml \in Config
  /\ Len(cfg.records) <= MaxRecords
  /\ \A i, j \in DOMAIN cfg.leases : cfg.leases[i].dev = cfg.leases[j].dev => i = j
  /\ conf \in Rendered /\ unbound \in Rendered
  /\ hosts \in [file : Seq(Lease), loaded : Seq(Lease)]
  /\ proxy \in [up : BOOLEAN, enabled : BOOLEAN]
  /\ dhcp = Quiet \/ dhcp.boot \in BOOLEAN

\* AddStaticRecord refuses a name that exists: whatever the pages, the mirror and
\* the sync do at once, unbound is never given two addresses for one name, in
\* memory, on disk or in the running daemon.
OneAddressPerName ==
  \A rs \in {cfg.records, yaml.records, conf.records, unbound.records} :
    \A i, j \in DOMAIN rs : rs[i].name = rs[j].name => i = j

\* "automated mirrors never delete user-added records" (config.go): one request at
\* a time, no step of the DHCP page, the settings page or the start-up changes the
\* operator's records, also when names collide or a save fails.
UserRecordsKept ==
  [][env # "busy" /\ dhcp # Quiet /\ crashes' = crashes
       => Own(cfg'.records) = Own(cfg.records)]_vars

\* When no request is under way, the copies agree.  "static leases mirrored to DNS
\* records" (README), one entry per lease (config.go): for an orderly operator, while
\* there is room for a record of every host, and with restarts at any moment, the
\* mirrored records are those of the leases, under the current domain.  And when no
\* step failed, router.yaml holds the configuration in memory, although the requests
\* save the whole of it at different moments, and unbound serves the records of an
\* operator who makes one request at a time.
CopiesAgree ==
  Idle =>
    /\ env = "tidy" =>
         Mirrored(cfg.records) = {MirrorOf(l, cfg.domain) : l \in Range(cfg.leases)}
    /\ faults = 0 => yaml = cfg
    /\ faults = 0 /\ env # "busy" => Own(unbound.records) = Own(cfg.records)

\* "dnscrypt-proxy MUST be up before unbound reloads" (HandleSaveDoT): one request
\* at a time and without failures, unbound forwards to the proxy only while it
\* runs, but for the moment in which both are switched to another mode.
ForwarderUp ==
  env # "busy" /\ faults = 0 /\ crashes = 0 =>
    (unbound.mode = "doh" => proxy.up \/ (cfg.mode # "doh" /\ dns # Quiet))

\* Every request and the start-up end: the loop of SyncStaticDNSRecords finishes
\* although the DNS page edits the same list.
RequestsReturn == (dhcp # Quiet ~> dhcp = Quiet) /\ (dns # Quiet ~> dns = Quiet)
=============================================================================
