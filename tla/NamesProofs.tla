----------------------------- MODULE NamesProofs -----------------------------
(* What Names promises for any devices, hosts, domains and limit of records, and any
   number of requests, faults and restarts: no name has two addresses, the operator's
   records survive the mirror, unbound forwards to a running proxy, and once no request is
   under way the copies agree.  The last part is about an orderly operator: their mirror
   is exact as long as there is room for a record of every host. *)
EXTENDS Names, FiniteSetTheorems, SequenceTheorems, WellFoundedInduction, TLAPS

Distinct(rs) == \A i, j \in 1 .. Len(rs) : rs[i].name = rs[j].name => i = j

\* A configuration, in memory or on disk, and what unbound.conf is rendered from.
Sound(c) == c \in Config /\ Len(c.records) <= MaxRecords /\ Distinct(c.records)
SoundView(v) == v \in Rendered /\ Distinct(v.records)

Readding == [step : {"readd"}, todo : Seq(Lease), boot : BOOLEAN]

\* What the requests carry.
DhcpData(d) ==
  /\ d.step = "mirror" => d.lease \in Lease
  /\ d.step = "readd" => d \in Readding
  /\ d.step = "write" => SoundView(d.out)
  /\ d # Quiet =>
       /\ d.boot \in BOOLEAN /\ d.step # "idle"
       /\ d.boot => d.step \in {"stripfind", "strip", "readd", "write", "dnsreload"}
DnsData(d) ==
  /\ d.step = "write" => SoundView(d.out)
  /\ d # Quiet => d.step # "idle"

\* The configurations and all that is made from them are sound, also what a request
\* has rendered and not yet written.
DataInv ==
  /\ Sound(cfg) /\ Sound(yaml) /\ SoundView(conf) /\ SoundView(unbound)
  /\ DhcpData(dhcp) /\ DnsData(dns)

\* The requests of an operator who makes one at a time are under way one at a time, and
\* the index that the DHCP page is about to remove is that of a mirrored record.
AloneInv ==
  env # "busy" =>
    /\ dhcp = Quiet \/ dns = Quiet
    /\ dhcp.step \in {"unmirror", "strip"} =>
         dhcp.idx \in 1 .. Len(cfg.records) /\ cfg.records[dhcp.idx].src # User

\* Without a failure only the settings page holds a change that is not in router.yaml,
\* and it is on its way to save.
SavedInv ==
  faults = 0 =>
    \/ yaml = cfg
    \/ /\ dhcp.step \in {"save", "stripfind", "strip", "readd", "write", "dnsreload"}
       /\ dhcp.boot = FALSE

\* The stages of a change of mode: first the proxy follows the configuration, then
\* unbound.conf, then unbound.
Doh(mode) == mode = "doh"
ModeStages ==
  /\ dhcp.step = "write" => dhcp.out.mode = cfg.mode
  /\ dns.step \in {"idle", "reload"} => conf.mode = cfg.mode
  /\ dns.step = "idle" => unbound.mode = cfg.mode
  /\ dns.step \in {"proxyconf", "proxystart", "proxystop", "enable", "render", "write"} =>
       unbound.mode = conf.mode
  /\ dns.step \in {"proxyconf", "proxystart", "proxystop"} => (proxy.up <=> Doh(conf.mode))
  /\ dns.step = "proxystart" => Doh(cfg.mode)
  /\ dns.step = "proxystop" => ~Doh(cfg.mode)
  /\ dns.step \in {"idle", "enable", "render", "write", "reload"} => (proxy.up <=> Doh(cfg.mode))
  /\ dns.step = "write" => dns.out.mode = cfg.mode
  /\ dns.step \in {"idle", "proxyconf", "proxystart", "proxystop", "enable", "render", "write",
                   "reload"}
ModeInv == env # "busy" /\ faults = 0 /\ crashes = 0 => ModeStages

\* One request at a time and without a failure, unbound serves the operator's records
\* but while the DNS page, or the start-up, is about to apply them.
OwnStages ==
  /\ (dhcp = Quiet /\ dns = Quiet) \/ (dhcp # Quiet /\ ~dhcp.boot) =>
       Own(conf.records) = Own(cfg.records) /\ Own(unbound.records) = Own(cfg.records)
  /\ dhcp.step = "write" => Own(dhcp.out.records) = Own(cfg.records)
  /\ dns.step = "write" => Own(dns.out.records) = Own(cfg.records)
  /\ dhcp.step = "dnsreload" \/ dns.step = "reload" => Own(conf.records) = Own(cfg.records)
OwnInv == env # "busy" /\ faults = 0 => OwnStages

\* An orderly configuration: no host has two leases or two records, and no host of a
\* lease has a record of the operator's own.
Tidy(c) ==
  /\ \A i, j \in 1 .. Len(c.leases) : c.leases[i].host = c.leases[j].host => i = j
  /\ \A i, j \in 1 .. Len(c.records) : c.records[i].name[1] = c.records[j].name[1] => i = j
  /\ \A i \in 1 .. Len(c.leases), j \in 1 .. Len(c.records) :
       c.records[j].src = User => c.records[j].name[1] # c.leases[i].host

\* The records of the first k leases, and the hosts that have a record.
MirrorsOf(c, k) == {MirrorOf(c.leases[i], c.domain) : i \in 1 .. k}
Recorded(c, h) == \E j \in 1 .. Len(c.records) : c.records[j].name[1] = h

\* With an orderly operator the mirror is exact but for the lease that a request of the
\* DHCP page has in hand, and while a sync is stripping and adding.
TidyStages ==
  /\ dhcp.step \in {"idle", "render", "reload", "write", "dnsreload", "save"} =>
       Mirrored(cfg.records) = MirrorsOf(cfg, Len(cfg.leases))
  /\ dhcp.step = "mirror" =>
       /\ cfg.leases # <<>> /\ cfg.leases[Len(cfg.leases)] = dhcp.lease
       /\ Mirrored(cfg.records) = MirrorsOf(cfg, Len(cfg.leases) - 1)
       /\ ~Recorded(cfg, dhcp.lease.host)
  /\ dhcp.step = "find" =>
       /\ \A i \in 1 .. Len(cfg.leases) : cfg.leases[i].host # dhcp.host
       /\ \E d \in Devices : Mirrored(cfg.records) =
            MirrorsOf(cfg, Len(cfg.leases)) \cup {[name |-> <<dhcp.host, cfg.domain>>, src |-> d]}
  /\ dhcp.step = "unmirror" =>
       /\ dhcp.idx \in 1 .. Len(cfg.records)
       /\ cfg.records[dhcp.idx] \notin MirrorsOf(cfg, Len(cfg.leases))
       /\ Mirrored(cfg.records) = MirrorsOf(cfg, Len(cfg.leases)) \cup {cfg.records[dhcp.idx]}
  /\ dhcp.step = "readd" =>
       LET k == Len(cfg.leases) - Len(dhcp.todo) IN
       /\ k \in 0 .. Len(cfg.leases)
       /\ \A i \in 1 .. Len(dhcp.todo) : dhcp.todo[i] = cfg.leases[k + i]
       /\ Mirrored(cfg.records) = MirrorsOf(cfg, k)
       /\ \A i \in k + 1 .. Len(cfg.leases) : ~Recorded(cfg, cfg.leases[i].host)
TidyInv == env = "tidy" => Tidy(cfg) /\ Tidy(yaml) /\ TidyStages

\* The counters and the unit.
CountInv == faults \in Nat /\ crashes \in Nat /\ proxy \in [up : BOOLEAN, enabled : BOOLEAN]

\* The inductive invariant.
Inv == CountInv /\ DataInv /\ AloneInv /\ SavedInv /\ ModeInv /\ OwnInv

-----------------------------------------------------------------------------
\* What a sound configuration holds.
LEMMA SoundFields ==
  ASSUME NEW c, Sound(c)
  PROVE  /\ c \in Config /\ c.domain \in Domains /\ c.leases \in Seq(Lease) /\ c.records \in Seq(Record)
         /\ Len(c.leases) \in Nat /\ DOMAIN c.leases = 1 .. Len(c.leases)
         /\ Len(c.records) \in Nat /\ DOMAIN c.records = 1 .. Len(c.records)
         /\ Distinct(c.records)
<1>1. c \in Config /\ Distinct(c.records)
  BY DEF Sound
<1>2. c.domain \in Domains /\ c.leases \in Seq(Lease) /\ c.records \in Seq(Record)
  BY <1>1 DEF Config
<1>3. QED
  BY Zenon, <1>1, <1>2, LenProperties

\* The list without its i-th element.
LEMMA WithoutElements ==
  ASSUME NEW S, NEW s \in Seq(S), NEW i \in 1 .. Len(s)
  PROVE  /\ Without(s, i) \in Seq(S)
         /\ Len(Without(s, i)) = Len(s) - 1
         /\ \A j \in 1 .. Len(s) - 1 : Without(s, i)[j] = s[IF j < i THEN j ELSE j + 1]
<1> DEFINE a == SubSeq(s, 1, i - 1)
           b == SubSeq(s, i + 1, Len(s))
<1>1. /\ a \in Seq(S) /\ Len(a) = i - 1
      /\ \A j \in 1 .. i - 1 : a[j] = s[j]
  BY SubSeqProperties
<1>2. /\ b \in Seq(S) /\ Len(b) = Len(s) - i
      /\ \A j \in 1 .. Len(s) - i : b[j] = s[i + j]
  BY SubSeqProperties
<1> HIDE DEF a, b
<1>3. /\ a \o b \in Seq(S) /\ Len(a \o b) = Len(s) - 1
      /\ \A j \in 1 .. Len(s) - 1 : (a \o b)[j] = IF j <= i - 1 THEN a[j] ELSE b[j - (i - 1)]
  <2>1. /\ a \o b \in Seq(S) /\ Len(a \o b) = Len(a) + Len(b)
        /\ \A j \in 1 .. Len(a) + Len(b) : (a \o b)[j] = IF j <= Len(a) THEN a[j] ELSE b[j - Len(a)]
    BY Zenon, <1>1, <1>2, ConcatProperties
  <2>2. Len(a) = i - 1 /\ Len(a) + Len(b) = Len(s) - 1
    BY <1>1, <1>2
  <2>3. QED
    BY <2>1, <2>2
<1>4. ASSUME NEW j \in 1 .. Len(s) - 1
      PROVE  (a \o b)[j] = s[IF j < i THEN j ELSE j + 1]
  <2>1. CASE j < i
    BY <1>1, <1>3, <2>1
  <2>2. CASE ~(j < i)
    BY <1>2, <1>3, <2>2
  <2>3. QED
    BY Zenon, <2>1, <2>2
<1>5. QED
  BY Zenon, <1>3, <1>4 DEF Without, a, b

\* AddStaticRecord, when it adds, leaves a sound configuration: the name is new.
LEMMA AddedSound ==
  ASSUME Sound(cfg), NEW r \in Record, CanAdd(r)
  PROVE  Sound(WithRecord(r))
<1>1. cfg \in Config /\ cfg.records \in Seq(Record) /\ Len(cfg.records) \in Nat
  BY Zenon, SoundFields
<1>2. /\ Append(cfg.records, r) \in Seq(Record)
      /\ Len(Append(cfg.records, r)) = Len(cfg.records) + 1
      /\ \A i \in 1 .. Len(cfg.records) : Append(cfg.records, r)[i] = cfg.records[i]
      /\ Append(cfg.records, r)[Len(cfg.records) + 1] = r
  BY <1>1, AppendProperties
<1>3. WithRecord(r) \in Config /\ WithRecord(r).records = Append(cfg.records, r)
  BY Zenon, <1>1, <1>2 DEF WithRecord, Config
<1>4. /\ Len(cfg.records) < MaxRecords
      /\ \A i \in 1 .. Len(cfg.records) : cfg.records[i].name # r.name
  BY <1>1 DEF CanAdd
<1>5. Len(WithRecord(r).records) <= MaxRecords
  BY <1>1, <1>2, <1>3, <1>4, NamesAssumption
<1>6. Distinct(Append(cfg.records, r))
  BY <1>1, <1>2, <1>4 DEF Distinct, Sound
<1>7. QED
  BY <1>3, <1>5, <1>6 DEF Sound

\* RemoveStaticRecord leaves a sound configuration.
LEMMA RemovedSound ==
  ASSUME Sound(cfg), NEW i \in 1 .. Len(cfg.records)
  PROVE  Sound(WithoutRecord(i))
<1>1. cfg \in Config /\ cfg.records \in Seq(Record) /\ Len(cfg.records) \in Nat
  BY Zenon, SoundFields
<1> DEFINE rs == Without(cfg.records, i)
<1>2. /\ rs \in Seq(Record)
      /\ Len(rs) = Len(cfg.records) - 1
      /\ \A j \in 1 .. Len(cfg.records) - 1 : rs[j] = cfg.records[IF j < i THEN j ELSE j + 1]
  BY Zenon, <1>1, WithoutElements
<1>3. WithoutRecord(i) \in Config /\ WithoutRecord(i).records = rs
  BY Zenon, <1>1, <1>2 DEF WithoutRecord, Config
<1> HIDE DEF rs
<1>4. Distinct(rs)
  <2> DEFINE old(j) == IF j < i THEN j ELSE j + 1
  <2>1. SUFFICES ASSUME NEW j \in 1 .. Len(cfg.records) - 1, NEW k \in 1 .. Len(cfg.records) - 1,
                        rs[j].name = rs[k].name
                 PROVE  j = k
    BY SMTT(30), <1>2 DEF Distinct
  <2>2. old(j) \in 1 .. Len(cfg.records) /\ old(k) \in 1 .. Len(cfg.records)
    BY <1>1
  <2>3. cfg.records[old(j)].name = cfg.records[old(k)].name
    BY Zenon, <1>2, <2>1
  <2>4. old(j) = old(k)
    BY Zenon, <2>2, <2>3 DEF Distinct, Sound
  <2>5. QED
    BY <1>1, <2>4
<1>5. Len(rs) <= MaxRecords
  BY <1>1, <1>2, NamesAssumption DEF Sound
<1>6. QED
  BY <1>3, <1>4, <1>5 DEF Sound

\* What is rendered from a sound configuration.
LEMMA ViewSound ==
  ASSUME Sound(cfg)
  PROVE  SoundView(View(cfg)) /\ View(cfg).mode = cfg.mode
BY DEF Sound, SoundView, View, Config, Rendered

\* The record of a lease.
LEMMA MirrorIsRecord ==
  ASSUME NEW l \in Lease, NEW d \in Domains
  PROVE  MirrorOf(l, d) \in Record /\ MirrorOf(l, d).src # User
BY NamesAssumption DEF MirrorOf, Record, Lease, Name, User

-----------------------------------------------------------------------------
\* A save leaves the configuration in memory and router.yaml either as it was or the same.
LEMMA SavedOrNot ==
  ASSUME NEW c, Saves(c) \/ SaveFails(c)
  PROVE  cfg' = c /\ yaml' \in {yaml, c}
BY DEF Saves, SaveFails

\* The ways the configuration in memory changes: it is loaded again, a record is added
\* or removed, or what is not a record is edited.
LEMMA ConfigWrites ==
  ASSUME DataInv, [Next]_vars
  PROVE  /\ yaml' \in {yaml, cfg'}
         /\ \/ cfg' = yaml
            \/ \E r \in Record : CanAdd(r) /\ cfg' = WithRecord(r)
            \/ \E i \in 1 .. Len(cfg.records) : cfg' = WithoutRecord(i)
            \/ cfg' \in Config /\ cfg'.records = cfg.records
<1>0. /\ cfg \in Config /\ cfg.leases \in Seq(Lease) /\ cfg.domain \in Domains
      /\ cfg.records \in Seq(Record)
  BY Zenon, SoundFields DEF DataInv
<1>1. CASE AddLease
  <2>1. PICK l \in Lease : \/ Saves([cfg EXCEPT !.leases = Append(@, l)])
                           \/ SaveFails([cfg EXCEPT !.leases = Append(@, l)])
    BY Zenon, <1>1 DEF AddLease
  <2>2. Append(cfg.leases, l) \in Seq(Lease)
    BY <1>0, AppendProperties
  <2>3. [cfg EXCEPT !.leases = Append(@, l)] \in Config
    BY Zenon, <1>0, <2>2 DEF Config
  <2>4. [cfg EXCEPT !.leases = Append(@, l)].records = cfg.records
    BY <1>0 DEF Config
  <2>5. QED
    BY Zenon, <2>1, <2>3, <2>4, SavedOrNot
<1>2. CASE RemoveLease
  <2>0. DOMAIN cfg.leases = 1 .. Len(cfg.leases)
    BY <1>0
  <2>1. PICK i \in 1 .. Len(cfg.leases) : \/ Saves([cfg EXCEPT !.leases = Without(@, i)])
                                          \/ SaveFails([cfg EXCEPT !.leases = Without(@, i)])
    BY <1>2, <2>0, Zenon DEF RemoveLease
  <2> DEFINE ls == Without(cfg.leases, i)
  <2>2. ls \in Seq(Lease)
    BY <1>0, WithoutElements
  <2> HIDE DEF ls
  <2>3. [cfg EXCEPT !.leases = ls] \in Config /\ [cfg EXCEPT !.leases = ls].records = cfg.records
    BY Zenon, <1>0, <2>2 DEF Config
  <2>4. cfg' = [cfg EXCEPT !.leases = ls] /\ yaml' \in {yaml, cfg'}
    BY <2>1, SavedOrNot DEF ls
  <2>5. QED
    BY <2>3, <2>4
<1>3. CASE SetDomain
  BY <1>0, <1>3 DEF SetDomain, Config
<1>4. CASE AddRecord
  <2>1. PICK n \in Name : /\ CanAdd([name |-> n, src |-> User])
                          /\ \/ Saves(WithRecord([name |-> n, src |-> User]))
                             \/ SaveFails(WithRecord([name |-> n, src |-> User]))
    BY <1>4 DEF AddRecord
  <2>2. [name |-> n, src |-> User] \in Record
    BY DEF Record
  <2>3. QED
    BY <2>1, <2>2, SavedOrNot
<1>5. CASE DeleteRecord
  <2>1. PICK i \in 1 .. Len(cfg.records) : Saves(WithoutRecord(i)) \/ SaveFails(WithoutRecord(i))
    BY <1>0, <1>5 DEF DeleteRecord
  <2>2. QED
    BY <2>1, SavedOrNot
<1>6. CASE SetMode
  <2>1. PICK mo \in Mode : Saves([cfg EXCEPT !.mode = mo]) \/ SaveFails([cfg EXCEPT !.mode = mo])
    BY <1>6 DEF SetMode
  <2>2. [cfg EXCEPT !.mode = mo] \in Config /\ [cfg EXCEPT !.mode = mo].records = cfg.records
    BY <1>0 DEF Config
  <2>3. cfg' = [cfg EXCEPT !.mode = mo] /\ yaml' \in {yaml, cfg'}
    BY <2>1, SavedOrNot
  <2>4. QED
    BY <2>2, <2>3
<1>7. CASE Mirror
  <2>1. MirrorOf(dhcp.lease, cfg.domain) \in Record
    BY <1>0, <1>7, MirrorIsRecord DEF Mirror, DataInv, DhcpData
  <2>2. QED
    BY <1>0, <1>7, <2>1, SavedOrNot DEF Mirror
<1>8. CASE Readd
  <2>1. Head(dhcp.todo) \in Lease
    BY <1>8, HeadTailProperties DEF Readd, DataInv, DhcpData, Readding
  <2>2. MirrorOf(Head(dhcp.todo), cfg.domain) \in Record
    BY <1>0, <2>1, MirrorIsRecord
  <2>3. QED
    BY <1>0, <1>8, <2>2, SavedOrNot DEF Readd
<1>9. CASE Unmirror
  BY <1>0, <1>9, SavedOrNot DEF Unmirror
<1>10. CASE Strip
  BY <1>0, <1>10, SavedOrNot DEF Strip
<1>11. CASE SaveDomain
  BY <1>0, <1>11, SavedOrNot DEF SaveDomain
<1>12. CASE Restart
  BY <1>12 DEF Restart
<1>13. CASE \/ FindMirror \/ RenderHosts \/ ReloadHosts \/ StripFind \/ SyncRenders \/ SyncWrites
            \/ SyncReloads \/ UpdateBlocklist \/ DnsStep \/ UNCHANGED vars
  BY Zenon, <1>0, <1>13 DEF FindMirror, RenderHosts, ReloadHosts, StripFind, SyncRenders, SyncWrites,
     SyncReloads, UpdateBlocklist, DnsStep, ProxyConf, ProxyStop, ProxyStart, ProxyEnable, RenderDns,
     WriteDns, ReloadDns, vars
<1>14. QED
  BY Zenon, <1>1, <1>2, <1>3, <1>4, <1>5, <1>6, <1>7, <1>8, <1>9, <1>10, <1>11, <1>12, <1>13
     DEF Next, DhcpStep

\* unbound.conf is what a request rendered, and unbound has loaded a version of it.
LEMMA ConfWrites ==
  ASSUME [Next]_vars
  PROVE  /\ \/ conf' = conf
            \/ dhcp.step = "write" /\ conf' = dhcp.out
            \/ dns.step = "write" /\ conf' = dns.out
         /\ unbound' \in {unbound, conf}
<1>1. CASE AddLease
  BY <1>1 DEF AddLease
<1>2. CASE RemoveLease
  BY <1>2 DEF RemoveLease
<1>3. CASE SetDomain
  BY <1>3 DEF SetDomain
<1>4. CASE AddRecord
  BY Zenon, <1>4 DEF AddRecord
<1>5. CASE DeleteRecord
  BY <1>5 DEF DeleteRecord
<1>6. CASE SetMode
  BY <1>6 DEF SetMode
<1>7. CASE UpdateBlocklist
  BY <1>7 DEF UpdateBlocklist
<1>8. CASE Mirror
  BY <1>8 DEF Mirror
<1>9. CASE FindMirror
  BY Zenon, <1>9 DEF FindMirror
<1>10. CASE Unmirror
  BY <1>10 DEF Unmirror
<1>11. CASE RenderHosts
  BY <1>11 DEF RenderHosts
<1>12. CASE ReloadHosts
  BY <1>12 DEF ReloadHosts
<1>13. CASE StripFind
  BY <1>13 DEF StripFind
<1>14. CASE Strip
  BY <1>14 DEF Strip
<1>15. CASE Readd
  BY <1>15 DEF Readd
<1>16. CASE SyncRenders
  BY <1>16 DEF SyncRenders
<1>17. CASE SyncWrites
  BY <1>17 DEF SyncWrites
<1>18. CASE SyncReloads
  BY <1>18 DEF SyncReloads
<1>19. CASE SaveDomain
  BY <1>19 DEF SaveDomain
<1>20. CASE ProxyConf
  BY <1>20 DEF ProxyConf
<1>21. CASE ProxyStop
  BY <1>21 DEF ProxyStop
<1>22. CASE ProxyStart
  BY <1>22 DEF ProxyStart
<1>23. CASE ProxyEnable
  BY <1>23 DEF ProxyEnable
<1>24. CASE RenderDns
  BY <1>24 DEF RenderDns
<1>25. CASE WriteDns
  BY <1>25 DEF WriteDns
<1>26. CASE ReloadDns
  BY <1>26 DEF ReloadDns
<1>27. CASE Restart
  BY <1>27 DEF Restart
<1>28. CASE UNCHANGED vars
  BY <1>28 DEF vars
<1>29. QED
  BY Zenon, <1>1, <1>2, <1>3, <1>4, <1>5, <1>6, <1>7, <1>8, <1>9, <1>10, <1>11, <1>12, <1>13, <1>14,
     <1>15, <1>16, <1>17, <1>18, <1>19, <1>20, <1>21, <1>22, <1>23, <1>24, <1>25, <1>26, <1>27,
     <1>28 DEF Next, DhcpStep, DnsStep

\* The index that FindStaticRecordIndexBySource returns is one of those looked for.
LEMMA LeastIndex ==
  ASSUME NEW n \in Nat, NEW T \in SUBSET (1 .. n), T # {}
  PROVE  (CHOOSE i \in T : \A j \in T : i <= j) \in T
<1>0. T \subseteq Nat
  OBVIOUS
<1>1. PICK i \in T : \A j \in T : ~(<<j, i>> \in OpToRel(<, Nat))
  <2> HIDE DEF OpToRel
  <2>1. QED
    BY <1>0, NatLessThanWellFounded, WFMin, Zenon
<1>2. \A j \in T : i <= j
  <2> TAKE j \in T
  <2>1. i \in Nat /\ j \in Nat
    BY <1>0
  <2>2. ~(j < i)
    BY Zenon, <1>1, <2>1 DEF OpToRel
  <2>3. QED
    BY <2>1, <2>2
<1>3. QED
  BY Zenon, <1>2

\* A request of the DHCP page that carries nothing, or only where it came from.
LEMMA PlainDhcp ==
  /\ DhcpData(Quiet)
  /\ \A b \in BOOLEAN, st \in {"stripfind", "dnsreload"} : DhcpData([step |-> st, boot |-> b])
  /\ \A st \in {"render", "reload", "save"} : DhcpData([step |-> st, boot |-> FALSE])
  /\ \A h : DhcpData([step |-> "find", host |-> h, boot |-> FALSE])
  /\ \A l \in Lease : DhcpData([step |-> "mirror", lease |-> l, boot |-> FALSE])
BY DEF DhcpData, Quiet

\* The requests carry what they should after every step.
LEMMA RequestStep ==
  ASSUME DataInv, [Next]_vars
  PROVE  DhcpData(dhcp') /\ DnsData(dns')
<1>1. CASE AddLease
  <2>1. dhcp' = Quiet \/ \E l \in Lease : dhcp' = [step |-> "mirror", lease |-> l, boot |-> FALSE]
    BY <1>1 DEF AddLease
  <2>2. QED
    BY <1>1, <2>1, PlainDhcp DEF AddLease, DataInv
<1>2. CASE RemoveLease
  <2>1. dhcp' = Quiet \/ \E h : dhcp' = [step |-> "find", host |-> h, boot |-> FALSE]
    BY <1>2, Zenon DEF RemoveLease
  <2>2. QED
    BY <1>2, <2>1, PlainDhcp DEF RemoveLease, DataInv
<1>3. CASE SetDomain
  BY <1>3 DEF SetDomain, DataInv, DhcpData, Quiet, Sync
<1>4. CASE AddRecord
  BY <1>4 DEF AddRecord, DataInv, DnsData, Quiet
<1>5. CASE DeleteRecord
  BY <1>5 DEF DeleteRecord, DataInv, DnsData, Quiet
<1>6. CASE SetMode
  BY <1>6 DEF SetMode, DataInv, DnsData, Quiet
<1>7. CASE UpdateBlocklist
  BY <1>7 DEF UpdateBlocklist, DataInv, DnsData, Quiet
<1>8. CASE Mirror
  BY Zenon, <1>8 DEF Mirror, DataInv, DhcpData, Quiet, Render
<1>9. CASE FindMirror
  BY Zenon, <1>9 DEF FindMirror, DataInv, DhcpData, Quiet, Render
<1>10. CASE Unmirror
  BY <1>10 DEF Unmirror, DataInv, DhcpData, Quiet, Render
<1>11. CASE RenderHosts
  <2>1. dhcp' = Quiet \/ dhcp' = [step |-> "reload", boot |-> FALSE]
    BY <1>11, Zenon DEF RenderHosts
  <2>2. QED
    BY Zenon, <1>11, <2>1, PlainDhcp DEF RenderHosts, DataInv
<1>12. CASE ReloadHosts
  BY <1>12 DEF ReloadHosts, DataInv, DhcpData, Quiet
<1>13. CASE StripFind
  <2>1. dhcp.boot \in BOOLEAN /\ cfg.leases \in Seq(Lease)
    BY <1>13 DEF StripFind, DataInv, DhcpData, Quiet, Sound, Config
  <2>2. DhcpData(dhcp')
    BY Zenon, <1>13, <2>1 DEF StripFind, DhcpData, Quiet, Readding
  <2>3. QED
    BY Zenon, <1>13, <2>2 DEF StripFind, DataInv
<1>14. CASE Strip
  <2>1. dhcp.boot \in BOOLEAN
    BY <1>14 DEF Strip, DataInv, DhcpData, Quiet
  <2>2. dhcp' \in {Sync(dhcp.boot), AfterSync}
    BY <1>14, Zenon DEF Strip
  <2>3. QED
    BY Zenon, <1>14, <2>1, <2>2, PlainDhcp DEF Strip, DataInv, Sync, AfterSync
<1>15. CASE Readd
  <2>1. dhcp \in Readding /\ dhcp.todo # <<>>
    BY <1>15 DEF Readd, DataInv, DhcpData
  <2>2. dhcp.todo \in Seq(Lease)
    BY <2>1 DEF Readding
  <2>3. Tail(dhcp.todo) \in Seq(Lease)
    BY <2>1, <2>2, HeadTailProperties
  <2>4. dhcp' \in Readding /\ dhcp' # Quiet
    BY Zenon, <1>15, <2>1, <2>3 DEF Readd, Readding, Quiet
  <2>5. DhcpData(dhcp')
    BY <2>4 DEF DhcpData, Readding
  <2>6. QED
    BY <1>15, <2>5 DEF Readd, DataInv
<1>16. CASE SyncRenders
  BY <1>16, ViewSound DEF SyncRenders, DataInv, DhcpData, Quiet
<1>17. CASE SyncWrites
  <2>1. dhcp.boot \in BOOLEAN
    BY <1>17 DEF SyncWrites, DataInv, DhcpData, Quiet
  <2>2. dhcp' = [step |-> "dnsreload", boot |-> dhcp.boot] \/ dhcp' = AfterSync
    BY <1>17, Zenon DEF SyncWrites
  <2>3. QED
    BY ZenonT(40), <1>17, <2>1, <2>2, PlainDhcp DEF SyncWrites, DataInv, AfterSync
<1>18. CASE SyncReloads
  BY <1>18 DEF SyncReloads, DataInv, DhcpData, Quiet, AfterSync
<1>19. CASE SaveDomain
  BY <1>19 DEF SaveDomain, DataInv, DhcpData, Quiet
<1>20. CASE ProxyConf
  BY <1>20 DEF ProxyConf, DataInv, DnsData, Quiet
<1>21. CASE ProxyStop
  BY <1>21 DEF ProxyStop, DataInv, DnsData, Quiet
<1>22. CASE ProxyStart
  BY <1>22 DEF ProxyStart, DataInv, DnsData, Quiet
<1>23. CASE ProxyEnable
  BY <1>23 DEF ProxyEnable, DataInv, DnsData, Quiet
<1>24. CASE RenderDns
  BY <1>24, ViewSound DEF RenderDns, DataInv, DnsData, Quiet
<1>25. CASE WriteDns
  BY <1>25 DEF WriteDns, DataInv, DnsData, Quiet
<1>26. CASE ReloadDns
  BY <1>26 DEF ReloadDns, DataInv, DnsData, Quiet
<1>27. CASE Restart
  BY <1>27 DEF Restart, DhcpData, DnsData, Quiet, Sync
<1>28. CASE UNCHANGED vars
  BY <1>28 DEF vars, DataInv
<1>29. QED
  BY Zenon, <1>1, <1>2, <1>3, <1>4, <1>5, <1>6, <1>7, <1>8, <1>9, <1>10, <1>11, <1>12, <1>13, <1>14,
     <1>15, <1>16, <1>17, <1>18, <1>19, <1>20, <1>21, <1>22, <1>23, <1>24, <1>25, <1>26, <1>27,
     <1>28 DEF Next, DhcpStep, DnsStep

\* Every step keeps the data sound.
LEMMA DataStep == DataInv /\ [Next]_vars => DataInv'
<1> SUFFICES ASSUME DataInv, [Next]_vars PROVE DataInv'
  OBVIOUS
<1>1. Sound(cfg')
  <2>1. CASE cfg' = yaml
    BY <2>1 DEF DataInv
  <2>2. CASE \E r \in Record : CanAdd(r) /\ cfg' = WithRecord(r)
    BY <2>2, AddedSound DEF DataInv
  <2>3. CASE \E i \in 1 .. Len(cfg.records) : cfg' = WithoutRecord(i)
    BY <2>3, RemovedSound DEF DataInv
  <2>4. CASE cfg' \in Config /\ cfg'.records = cfg.records
    BY <2>4 DEF DataInv, Sound
  <2>5. QED
    BY <2>1, <2>2, <2>3, <2>4, ConfigWrites
<1>2. Sound(yaml')
  BY <1>1, ConfigWrites DEF DataInv
<1>3. SoundView(conf') /\ SoundView(unbound')
  BY ConfWrites DEF DataInv, DhcpData, DnsData
<1>4. QED
  BY <1>1, <1>2, <1>3, RequestStep DEF DataInv

\* A step that fails is counted, a restart as well, and neither is forgotten.
LEMMA CountStep ==
  ASSUME CountInv, [Next]_vars
  PROVE  /\ CountInv'
         /\ faults' = 0 => faults = 0 /\ ~Fault
         /\ crashes' = 0 => crashes = 0 /\ ~Restart
         /\ env' = env
<1>1. faults' \in {faults, faults + 1} /\ crashes' \in {crashes, crashes + 1} /\ env' = env
      /\ (Fault => faults' = faults + 1) /\ (Restart => crashes' = crashes + 1)
  <2>1. CASE AddLease
    BY Zenon, <2>1 DEF AddLease, CountInv, Restart, Saves, SaveFails, Ok, Fault
  <2>2. CASE RemoveLease
    BY Zenon, <2>2 DEF RemoveLease, CountInv, Restart, Saves, SaveFails, Ok, Fault
  <2>3. CASE SetDomain
    BY Zenon, <2>3 DEF SetDomain, CountInv, Restart, Fault
  <2>4. CASE AddRecord
    BY Zenon, <2>4 DEF AddRecord, CountInv, Restart, Saves, SaveFails, Ok, Fault
  <2>5. CASE DeleteRecord
    BY Zenon, <2>5 DEF DeleteRecord, CountInv, Restart, Saves, SaveFails, Ok, Fault
  <2>6. CASE SetMode
    BY Zenon, <2>6 DEF SetMode, CountInv, Restart, Saves, SaveFails, Ok, Fault
  <2>7. CASE UpdateBlocklist
    BY Zenon, <2>7 DEF UpdateBlocklist, CountInv, Restart, Fault
  <2>8. CASE Mirror
    BY Zenon, <2>8 DEF Mirror, CountInv, Restart, Saves, SaveFails, Ok, Fault
  <2>9. CASE FindMirror
    BY ZenonT(40), <2>9 DEF FindMirror, CountInv, Restart, Fault
  <2>10. CASE Unmirror
    BY Zenon, <2>10 DEF Unmirror, CountInv, Restart, Saves, SaveFails, Ok, Fault
  <2>11. CASE RenderHosts
    BY Zenon, <2>11 DEF RenderHosts, CountInv, Restart, Ok, Fault
  <2>12. CASE ReloadHosts
    BY Zenon, <2>12 DEF ReloadHosts, CountInv, Restart, Ok, Fault
  <2>13. CASE StripFind
    BY Zenon, <2>13 DEF StripFind, CountInv, Restart, Fault
  <2>14. CASE Strip
    BY Zenon, <2>14 DEF Strip, CountInv, Restart, Saves, SaveFails, Ok, Fault
  <2>15. CASE Readd
    BY Zenon, <2>15 DEF Readd, CountInv, Restart, Saves, SaveFails, Ok, Fault
  <2>16. CASE SyncRenders
    BY Zenon, <2>16 DEF SyncRenders, CountInv, Restart, Fault
  <2>17. CASE SyncWrites
    BY Zenon, <2>17 DEF SyncWrites, CountInv, Restart, Ok, Fault
  <2>18. CASE SyncReloads
    BY Zenon, <2>18 DEF SyncReloads, CountInv, Restart, Ok, Fault
  <2>19. CASE SaveDomain
    BY Zenon, <2>19 DEF SaveDomain, CountInv, Restart, Saves, SaveFails, Ok, Fault
  <2>20. CASE ProxyConf
    BY Zenon, <2>20 DEF ProxyConf, CountInv, Restart, Ok, Fault
  <2>21. CASE ProxyStop
    BY Zenon, <2>21 DEF ProxyStop, CountInv, Restart, Ok, Fault
  <2>22. CASE ProxyStart
    BY Zenon, <2>22 DEF ProxyStart, CountInv, Restart, Ok, Fault
  <2>23. CASE ProxyEnable
    BY Zenon, <2>23 DEF ProxyEnable, CountInv, Restart, Ok, Fault
  <2>24. CASE RenderDns
    BY Zenon, <2>24 DEF RenderDns, CountInv, Restart, Fault
  <2>25. CASE WriteDns
    BY Zenon, <2>25 DEF WriteDns, CountInv, Restart, Ok, Fault
  <2>26. CASE ReloadDns
    BY Zenon, <2>26 DEF ReloadDns, CountInv, Restart, Ok, Fault
  <2>27. CASE Restart
    BY <2>27 DEF Restart, CountInv, Fault
  <2>28. CASE UNCHANGED vars
    BY Zenon, <2>28 DEF vars, CountInv, Restart, Fault
  <2>29. QED
    BY Zenon, <2>1, <2>2, <2>3, <2>4, <2>5, <2>6, <2>7, <2>8, <2>9, <2>10, <2>11, <2>12, <2>13, <2>14,
       <2>15, <2>16, <2>17, <2>18, <2>19, <2>20, <2>21, <2>22, <2>23, <2>24, <2>25, <2>26,
       <2>27, <2>28 DEF Next, DhcpStep, DnsStep
<1>2. proxy' \in [up : BOOLEAN, enabled : BOOLEAN]
  <2>1. CASE ProxyStop
    BY Zenon, <2>1 DEF ProxyStop, CountInv
  <2>2. CASE ProxyStart
    BY Zenon, <2>2 DEF ProxyStart, CountInv
  <2>3. CASE ProxyEnable
    BY Zenon, <2>3 DEF ProxyEnable, CountInv
  <2>4. CASE Restart
    BY <2>4 DEF Restart, CountInv
  <2>5. ASSUME ~ProxyStop, ~ProxyStart, ~ProxyEnable, ~Restart
        PROVE  proxy' = proxy
    BY Zenon, <2>5 DEF Next, DhcpStep, DnsStep, vars, AddLease, RemoveLease, SetDomain, AddRecord,
       DeleteRecord, SetMode, UpdateBlocklist, Mirror, FindMirror, Unmirror, RenderHosts, ReloadHosts,
       StripFind, Strip, Readd, SyncRenders, SyncWrites, SyncReloads, SaveDomain, ProxyConf, RenderDns,
       WriteDns, ReloadDns
  <2>6. QED
    BY <2>1, <2>2, <2>3, <2>4, <2>5 DEF CountInv
<1>3. faults \in Nat /\ crashes \in Nat
  BY DEF CountInv
<1>4. QED
  BY <1>1, <1>2, <1>3 DEF CountInv

\* One request at a time stays one at a time.
LEMMA AloneStep ==
  ASSUME DataInv, AloneInv, [Next]_vars, env' = env
  PROVE  AloneInv'
<1> SUFFICES ASSUME env # "busy"
             PROVE  /\ dhcp' = Quiet \/ dns' = Quiet
                    /\ dhcp'.step \in {"unmirror", "strip"} =>
                         dhcp'.idx \in 1 .. Len(cfg'.records) /\ cfg'.records[dhcp'.idx].src # User
  BY Zenon DEF AloneInv
<1>0. cfg.records \in Seq(Record) /\ Len(cfg.records) \in Nat /\ DOMAIN cfg.records = 1 .. Len(cfg.records)
  BY Zenon, SoundFields DEF DataInv
<1>1. CASE FindMirror
  <2> DEFINE mine == {i \in DOMAIN cfg.records :
                        cfg.records[i].src # User /\ cfg.records[i].name = <<dhcp.host, cfg.domain>>}
  <2>1. mine # {} => (CHOOSE i \in mine : \A j \in mine : i <= j) \in mine
    BY Zenon, <1>0, LeastIndex
  <2>2. \/ dhcp'.step = "render"
        \/ mine # {} /\ dhcp'.idx = CHOOSE i \in mine : \A j \in mine : i <= j
    BY Zenon, <1>1 DEF FindMirror, Render
  <2>3. dhcp # Quiet /\ dns' = dns /\ cfg' = cfg
    BY <1>1 DEF FindMirror, Quiet
  <2> HIDE DEF mine
  <2>4. dhcp'.step \in {"unmirror", "strip"} => dhcp'.idx \in mine
    BY Zenon, <2>1, <2>2
  <2>5. dns' = Quiet
    BY <2>3 DEF AloneInv
  <2>6. QED
    BY <1>0, <2>3, <2>4, <2>5 DEF mine
<1>2. CASE StripFind
  <2> DEFINE mine == {i \in DOMAIN cfg.records : cfg.records[i].src # User}
  <2>1. mine # {} => (CHOOSE i \in mine : \A j \in mine : i <= j) \in mine
    BY Zenon, <1>0, LeastIndex
  <2>2. \/ dhcp'.step = "readd"
        \/ mine # {} /\ dhcp'.idx = CHOOSE i \in mine : \A j \in mine : i <= j
    BY Zenon, <1>2 DEF StripFind
  <2>3. dhcp # Quiet /\ dns' = dns /\ cfg' = cfg
    BY <1>2 DEF StripFind, Quiet
  <2> HIDE DEF mine
  <2>4. dhcp'.step \in {"unmirror", "strip"} => dhcp'.idx \in mine
    BY Zenon, <2>1, <2>2
  <2>5. dns' = Quiet
    BY <2>3 DEF AloneInv
  <2>6. QED
    BY <1>0, <2>3, <2>4, <2>5 DEF mine
<1>3. CASE AddLease
  BY <1>3 DEF AddLease, AloneInv, Quiet, NewRequest, Idle
<1>4. CASE RemoveLease
  BY <1>4 DEF RemoveLease, AloneInv, Quiet, NewRequest, Idle
<1>5. CASE SetDomain
  BY <1>5 DEF SetDomain, AloneInv, Quiet, NewRequest, Idle, Sync
<1>6. CASE AddRecord
  BY <1>6 DEF AddRecord, AloneInv, Quiet, NewRequest, Idle
<1>7. CASE DeleteRecord
  BY <1>7 DEF DeleteRecord, AloneInv, Quiet, NewRequest, Idle
<1>8. CASE SetMode
  BY <1>8 DEF SetMode, AloneInv, Quiet, NewRequest, Idle
<1>9. CASE UpdateBlocklist
  BY Zenon, <1>9 DEF UpdateBlocklist, AloneInv, Quiet, NewRequest, Idle
<1>10. CASE Mirror
  BY <1>10 DEF Mirror, AloneInv, Quiet, Render
<1>11. CASE Unmirror
  BY <1>11 DEF Unmirror, AloneInv, Quiet, Render
<1>12. CASE RenderHosts
  BY <1>12 DEF RenderHosts, AloneInv, Quiet
<1>13. CASE ReloadHosts
  BY <1>13 DEF ReloadHosts, AloneInv, Quiet
<1>14. CASE Strip
  BY <1>14 DEF Strip, AloneInv, Quiet, Sync, AfterSync
<1>15. CASE Readd
  <2>1. dhcp # Quiet /\ dns' = dns
    BY <1>15 DEF Readd, Quiet
  <2>2. dhcp \in Readding /\ dhcp' = [dhcp EXCEPT !.todo = Tail(@)]
    BY <1>15 DEF Readd, DataInv, DhcpData
  <2>3. dhcp'.step = "readd"
    BY <2>2 DEF Readding
  <2>4. QED
    BY <2>1, <2>3 DEF AloneInv
<1>16. CASE SyncRenders
  BY <1>16 DEF SyncRenders, AloneInv, Quiet
<1>17. CASE SyncWrites
  BY <1>17 DEF SyncWrites, AloneInv, Quiet, AfterSync
<1>18. CASE SyncReloads
  BY <1>18 DEF SyncReloads, AloneInv, Quiet, AfterSync
<1>19. CASE SaveDomain
  BY <1>19 DEF SaveDomain, AloneInv, Quiet
<1>20. CASE ProxyConf
  BY <1>20 DEF ProxyConf, AloneInv, Quiet
<1>21. CASE ProxyStop
  BY <1>21 DEF ProxyStop, AloneInv, Quiet
<1>22. CASE ProxyStart
  BY <1>22 DEF ProxyStart, AloneInv, Quiet
<1>23. CASE ProxyEnable
  BY <1>23 DEF ProxyEnable, AloneInv, Quiet
<1>24. CASE RenderDns
  BY <1>24 DEF RenderDns, AloneInv, Quiet
<1>25. CASE WriteDns
  BY <1>25 DEF WriteDns, AloneInv, Quiet
<1>26. CASE ReloadDns
  BY Zenon, <1>26 DEF ReloadDns, AloneInv, Quiet
<1>27. CASE Restart
  BY <1>27 DEF Restart, AloneInv, Quiet, Sync
<1>28. CASE UNCHANGED vars
  BY <1>28 DEF vars, AloneInv
<1>29. QED
  BY Zenon, <1>1, <1>2, <1>3, <1>4, <1>5, <1>6, <1>7, <1>8, <1>9, <1>10, <1>11, <1>12, <1>13, <1>14,
     <1>15, <1>16, <1>17, <1>18, <1>19, <1>20, <1>21, <1>22, <1>23, <1>24, <1>25, <1>26, <1>27,
     <1>28 DEF Next, DhcpStep, DnsStep

\* What an edit of the configuration leaves alone.
LEMMA EditFields ==
  ASSUME cfg \in Config
  PROVE  /\ \A r : LET c == WithRecord(r) IN
              /\ c.records = Append(cfg.records, r)
              /\ c.mode = cfg.mode /\ c.leases = cfg.leases /\ c.domain = cfg.domain
         /\ \A i : LET c == WithoutRecord(i) IN
              /\ c.records = Without(cfg.records, i)
              /\ c.mode = cfg.mode /\ c.leases = cfg.leases /\ c.domain = cfg.domain
         /\ \A ls : LET c == [cfg EXCEPT !.leases = ls] IN
              /\ c.leases = ls
              /\ c.mode = cfg.mode /\ c.records = cfg.records /\ c.domain = cfg.domain
         /\ \A d : LET c == [cfg EXCEPT !.domain = d] IN
              /\ c.domain = d
              /\ c.mode = cfg.mode /\ c.records = cfg.records /\ c.leases = cfg.leases
         /\ \A mo : LET c == [cfg EXCEPT !.mode = mo] IN
              /\ c.mode = mo
              /\ c.domain = cfg.domain /\ c.records = cfg.records /\ c.leases = cfg.leases
<1>1. ASSUME NEW rs
      PROVE  LET c == [cfg EXCEPT !.records = rs] IN
             /\ c.records = rs
             /\ c.mode = cfg.mode /\ c.leases = cfg.leases /\ c.domain = cfg.domain
  BY DEF Config
<1>2. ASSUME NEW r PROVE WithRecord(r) = [cfg EXCEPT !.records = Append(cfg.records, r)]
  BY DEF WithRecord
<1>3. ASSUME NEW i PROVE WithoutRecord(i) = [cfg EXCEPT !.records = Without(cfg.records, i)]
  BY Zenon DEF WithoutRecord
<1>4. QED
  BY <1>1, <1>2, <1>3 DEF Config

\* The mode changes on the DNS page alone, or when router.yaml is loaded.
LEMMA ModeWrites ==
  ASSUME DataInv,
         \/ AddLease \/ RemoveLease \/ SetDomain \/ AddRecord \/ DeleteRecord \/ UpdateBlocklist
         \/ DhcpStep \/ DnsStep \/ UNCHANGED vars
  PROVE  cfg'.mode = cfg.mode
<1>0. cfg \in Config
  BY DEF DataInv, Sound
<1>1. CASE AddLease
  <2>1. \E ls : cfg' = [cfg EXCEPT !.leases = ls]
    BY <1>1, Zenon DEF AddLease, Saves, SaveFails
  <2>2. QED
    BY <1>0, <2>1, EditFields
<1>2. CASE RemoveLease
  <2>1. \E ls : cfg' = [cfg EXCEPT !.leases = ls]
    BY <1>2, Zenon DEF RemoveLease, Saves, SaveFails
  <2>2. QED
    BY <1>0, <2>1, EditFields
<1>3. CASE AddRecord
  BY <1>0, <1>3, EditFields, SavedOrNot DEF AddRecord
<1>4. CASE DeleteRecord
  BY <1>0, <1>4, EditFields, SavedOrNot DEF DeleteRecord
<1>5. CASE Mirror
  BY <1>0, <1>5, EditFields, SavedOrNot DEF Mirror
<1>6. CASE Unmirror
  BY <1>0, <1>6, EditFields, SavedOrNot DEF Unmirror
<1>7. CASE Strip
  BY <1>0, <1>7, EditFields, SavedOrNot DEF Strip
<1>8. CASE Readd
  BY <1>0, <1>8, EditFields, SavedOrNot DEF Readd
<1>9. CASE SaveDomain
  BY <1>0, <1>9, EditFields, SavedOrNot DEF SaveDomain
<1>10. CASE SetDomain
  BY <1>0, <1>10, EditFields DEF SetDomain
<1>11. CASE \/ UpdateBlocklist \/ FindMirror \/ RenderHosts \/ ReloadHosts \/ StripFind
            \/ SyncRenders \/ SyncWrites \/ SyncReloads \/ ProxyConf \/ ProxyStop
            \/ ProxyStart \/ ProxyEnable \/ RenderDns \/ WriteDns \/ ReloadDns
            \/ UNCHANGED vars
  BY Zenon, <1>11 DEF UpdateBlocklist, FindMirror, RenderHosts, ReloadHosts, StripFind, SyncRenders,
     SyncWrites, SyncReloads, ProxyConf, ProxyStop, ProxyStart, ProxyEnable, RenderDns,
     WriteDns, ReloadDns, vars
<1>12. QED
  BY <1>1, <1>2, <1>3, <1>4, <1>5, <1>6, <1>7, <1>8, <1>9, <1>10, <1>11 DEF Next, DhcpStep,
     DnsStep

\* A change that is not saved is the settings page's, until it saves.
LEMMA SavedStep ==
  ASSUME DataInv, SavedInv, [Next]_vars, faults' = 0 => faults = 0 /\ ~Fault
  PROVE  SavedInv'
<1> DEFINE Syncing == {"save", "stripfind", "strip", "readd", "write", "dnsreload"}
<1> SUFFICES ASSUME faults' = 0, faults = 0, ~Fault
             PROVE  yaml' = cfg' \/ (dhcp'.step \in Syncing /\ dhcp'.boot = FALSE)
  BY Zenon DEF SavedInv
<1>0. yaml = cfg \/ (dhcp.step \in Syncing /\ dhcp.boot = FALSE)
  BY DEF SavedInv
<1>1. CASE AddLease
  BY <1>1 DEF AddLease, Saves, SaveFails
<1>2. CASE RemoveLease
  BY <1>2 DEF RemoveLease, Saves, SaveFails
<1>3. CASE SetDomain
  BY <1>0, <1>3 DEF SetDomain, Sync
<1>4. CASE AddRecord
  BY Zenon, <1>4 DEF AddRecord, Saves, SaveFails
<1>5. CASE DeleteRecord
  BY <1>5 DEF DeleteRecord, Saves, SaveFails
<1>6. CASE SetMode
  BY <1>6 DEF SetMode, Saves, SaveFails
<1>7. CASE UpdateBlocklist
  BY <1>0, <1>7 DEF UpdateBlocklist
<1>8. CASE Mirror
  BY <1>0, <1>8 DEF Mirror, Saves, SaveFails
<1>9. CASE FindMirror
  BY Zenon, <1>0, <1>9 DEF FindMirror
<1>10. CASE Unmirror
  BY Zenon, <1>0, <1>10 DEF Unmirror, Saves, SaveFails
<1>11. CASE RenderHosts
  BY <1>0, <1>11 DEF RenderHosts
<1>12. CASE ReloadHosts
  BY <1>0, <1>12 DEF ReloadHosts
<1>13. CASE StripFind
  BY Zenon, <1>0, <1>13 DEF StripFind
<1>14. CASE Strip
  <2>1. CASE dhcp.idx \in DOMAIN cfg.records
    BY Zenon, <1>14, <2>1 DEF Strip, Saves, SaveFails
  <2>2. CASE dhcp.idx \notin DOMAIN cfg.records
    <3>1. dhcp' = AfterSync /\ UNCHANGED <<cfg, yaml>>
      BY Zenon, <1>14, <2>2 DEF Strip
    <3>2. QED
      BY <1>0, <3>1 DEF AfterSync
  <2>3. QED
    BY Zenon, <2>1, <2>2
<1>15. CASE Readd
  <2>1. dhcp \in Readding /\ dhcp' = [dhcp EXCEPT !.todo = Tail(@)]
    BY <1>15 DEF Readd, DataInv, DhcpData
  <2>2. dhcp'.step = dhcp.step /\ dhcp'.boot = dhcp.boot
    BY <2>1 DEF Readding
  <2>3. (yaml' = cfg' \/ UNCHANGED <<cfg, yaml>>)
    BY <1>15 DEF Readd, Saves, SaveFails
  <2>4. QED
    BY <1>0, <2>2, <2>3
<1>16. CASE SyncRenders
  BY Zenon, <1>0, <1>16 DEF SyncRenders
<1>17. CASE SyncWrites
  BY <1>0, <1>17 DEF SyncWrites, AfterSync
<1>18. CASE SyncReloads
  BY Zenon, <1>0, <1>18 DEF SyncReloads, AfterSync
<1>19. CASE SaveDomain
  BY <1>0, <1>19 DEF SaveDomain, Saves, SaveFails
<1>20. CASE DnsStep
  BY <1>0, <1>20 DEF DnsStep, ProxyConf, ProxyStop, ProxyStart, ProxyEnable, RenderDns, WriteDns, ReloadDns
<1>21. CASE Restart
  BY <1>21 DEF Restart
<1>22. CASE UNCHANGED vars
  BY <1>0, <1>22 DEF vars
<1>23. QED
  BY ZenonT(40), <1>1, <1>2, <1>3, <1>4, <1>5, <1>6, <1>7, <1>8, <1>9, <1>10, <1>11, <1>12, <1>13, <1>14,
     <1>15, <1>16, <1>17, <1>18, <1>19, <1>20, <1>21, <1>22 DEF Next, DhcpStep

\* A change of mode goes through its stages in order.
LEMMA ModeStep ==
  ASSUME CountInv, DataInv, AloneInv, ModeInv, [Next]_vars
  PROVE  ModeInv'
<1>0. /\ faults' = 0 => faults = 0 /\ ~Fault
      /\ crashes' = 0 => crashes = 0 /\ ~Restart
      /\ env' = env
  BY CountStep
<1> SUFFICES ASSUME env # "busy", faults' = 0, crashes' = 0, faults = 0, crashes = 0, ~Fault, ~Restart
             PROVE  ModeStages'
  BY <1>0 DEF ModeInv
<1>a. ModeStages /\ (dhcp = Quiet \/ dns = Quiet)
  BY DEF ModeInv, AloneInv
<1>b. \/ AddLease \/ RemoveLease \/ SetDomain \/ AddRecord \/ DeleteRecord \/ UpdateBlocklist
      \/ DhcpStep \/ DnsStep
      => cfg'.mode = cfg.mode
  BY ModeWrites
<1>c. proxy \in [up : BOOLEAN, enabled : BOOLEAN] /\ cfg \in Config
  BY DEF CountInv, DataInv, Sound
<1>1. CASE AddLease
  <2>1. dhcp'.step \in {"idle", "mirror"}
    BY <1>1 DEF AddLease, Quiet
  <2>2. UNCHANGED <<dns, conf, unbound, proxy>>
    BY <1>1 DEF AddLease
  <2>3. QED
    BY Zenon, <1>1, <1>a, <1>b, <2>1, <2>2 DEF ModeStages
<1>2. CASE RemoveLease
  <2>1. dhcp'.step \in {"idle", "find"}
    BY <1>2 DEF RemoveLease, Quiet
  <2>2. UNCHANGED <<dns, conf, unbound, proxy>>
    BY <1>2 DEF RemoveLease
  <2>3. QED
    BY Zenon, <1>2, <1>a, <1>b, <2>1, <2>2 DEF ModeStages
<1>3. CASE SetDomain
  <2>1. dhcp'.step \in {"save", "stripfind"}
    BY <1>3 DEF SetDomain, Sync
  <2>2. UNCHANGED <<dns, conf, unbound, proxy>>
    BY <1>3 DEF SetDomain
  <2>3. QED
    BY Zenon, <1>3, <1>a, <1>b, <2>1, <2>2 DEF ModeStages
<1>4. CASE AddRecord
  <2>1. dns = Quiet /\ dhcp = Quiet /\ dns'.step = "render"
    BY <1>4 DEF AddRecord, SaveFails, NewRequest, Idle
  <2>2. UNCHANGED <<dhcp, conf, unbound, proxy>>
    BY <1>4 DEF AddRecord
  <2>3. QED
    BY Zenon, <1>4, <1>a, <1>b, <2>1, <2>2 DEF ModeStages, Quiet
<1>5. CASE DeleteRecord
  <2>1. dns = Quiet /\ dhcp = Quiet /\ dns'.step = "render"
    BY <1>5 DEF DeleteRecord, SaveFails, NewRequest, Idle
  <2>2. UNCHANGED <<dhcp, conf, unbound, proxy>>
    BY <1>5 DEF DeleteRecord
  <2>3. QED
    BY Zenon, <1>5, <1>a, <1>b, <2>1, <2>2 DEF ModeStages, Quiet
<1>6. CASE SetMode
  BY <1>6, <1>a, <1>b, <1>c DEF SetMode, ModeStages, Quiet, NewRequest, Idle, Saves, SaveFails
<1>7. CASE UpdateBlocklist
  BY Zenon, <1>7, <1>a, <1>b, <1>c DEF UpdateBlocklist, ModeStages, Quiet, NewRequest, Idle
<1>8. CASE Mirror
  <2>1. dhcp'.step \in {"render"}
    BY Zenon, <1>8 DEF Mirror, Render
  <2>2. UNCHANGED <<dns, conf, unbound, proxy>>
    BY <1>8 DEF Mirror
  <2>3. QED
    BY Zenon, <1>8, <1>a, <1>b, <2>1, <2>2 DEF ModeStages, DhcpStep
<1>9. CASE FindMirror
  <2>1. dhcp'.step \in {"render", "unmirror"}
    BY Zenon, <1>9 DEF FindMirror, Render
  <2>2. UNCHANGED <<dns, conf, unbound, proxy>>
    BY Zenon, <1>9 DEF FindMirror
  <2>3. QED
    BY Zenon, <1>9, <1>a, <1>b, <2>1, <2>2 DEF ModeStages, DhcpStep
<1>10. CASE Unmirror
  <2>1. dhcp'.step \in {"render"}
    BY Zenon, <1>10 DEF Unmirror, Render
  <2>2. UNCHANGED <<dns, conf, unbound, proxy>>
    BY Zenon, <1>10 DEF Unmirror
  <2>3. QED
    BY Zenon, <1>10, <1>a, <1>b, <2>1, <2>2 DEF ModeStages, DhcpStep
<1>11. CASE RenderHosts
  <2>1. dhcp'.step \in {"idle", "reload"}
    BY <1>11 DEF RenderHosts, Quiet
  <2>2. UNCHANGED <<dns, conf, unbound, proxy>>
    BY <1>11 DEF RenderHosts
  <2>3. QED
    BY Zenon, <1>11, <1>a, <1>b, <2>1, <2>2 DEF ModeStages, DhcpStep
<1>12. CASE ReloadHosts
  <2>1. dhcp'.step \in {"idle"}
    BY <1>12 DEF ReloadHosts, Quiet
  <2>2. UNCHANGED <<dns, conf, unbound, proxy>>
    BY <1>12 DEF ReloadHosts
  <2>3. QED
    BY Zenon, <1>12, <1>a, <1>b, <2>1, <2>2 DEF ModeStages, DhcpStep
<1>13. CASE StripFind
  <2>1. dhcp'.step \in {"strip", "readd"}
    BY Zenon, <1>13 DEF StripFind
  <2>2. UNCHANGED <<dns, conf, unbound, proxy>>
    BY Zenon, <1>13 DEF StripFind
  <2>3. QED
    BY Zenon, <1>13, <1>a, <1>b, <2>1, <2>2 DEF ModeStages, DhcpStep
<1>14. CASE Strip
  <2>1. dhcp'.step \in {"idle", "save", "stripfind"}
    BY SMTT(30), <1>14 DEF Strip, Sync, AfterSync, Quiet
  <2>2. UNCHANGED <<dns, conf, unbound, proxy>>
    BY Zenon, <1>14 DEF Strip
  <2>3. QED
    BY Zenon, <1>14, <1>a, <1>b, <2>1, <2>2 DEF ModeStages, DhcpStep
<1>15. CASE Readd
  <2>1. dhcp \in Readding /\ dhcp' = [dhcp EXCEPT !.todo = Tail(@)]
    BY <1>15 DEF Readd, DataInv, DhcpData
  <2>2. dhcp'.step = "readd"
    BY <2>1 DEF Readding
  <2>3. QED
    BY Zenon, <1>15, <1>a, <1>b, <2>2 DEF Readd, ModeStages, DhcpStep
<1>16. CASE SyncRenders
  BY Zenon, <1>16, <1>a, <1>b, <1>c DEF SyncRenders, ModeStages, DhcpStep, Quiet, View
<1>17. CASE SyncWrites
  BY SMTT(30), <1>17, <1>a, <1>b, <1>c DEF SyncWrites, ModeStages, DhcpStep, Quiet, AfterSync
<1>18. CASE SyncReloads
  BY Zenon, <1>18, <1>a, <1>b, <1>c DEF SyncReloads, ModeStages, DhcpStep, Quiet, AfterSync
<1>19. CASE SaveDomain
  <2>1. dhcp'.step \in {"idle"}
    BY <1>19 DEF SaveDomain, Quiet
  <2>2. UNCHANGED <<dns, conf, unbound, proxy>>
    BY <1>19 DEF SaveDomain
  <2>3. QED
    BY Zenon, <1>19, <1>a, <1>b, <2>1, <2>2 DEF ModeStages, DhcpStep
<1>20. CASE ProxyConf
  <2>1. dns.step = "proxyconf" /\ dns'.step = IF Doh(cfg.mode) THEN "proxystart" ELSE "proxystop"
    BY <1>20, <1>c DEF ProxyConf, Doh
  <2>2. UNCHANGED <<cfg, dhcp, conf, unbound, proxy>>
    BY <1>20 DEF ProxyConf
  <2>3. QED
    BY Zenon, <1>20, <1>a, <1>b, <2>1, <2>2 DEF ModeStages, DnsStep, Doh
<1>21. CASE ProxyStop
  <2>1. dns.step = "proxystop" /\ dns'.step = "render" /\ proxy'.up = FALSE
    BY <1>21, <1>c DEF ProxyStop
  <2>2. UNCHANGED <<cfg, dhcp, conf, unbound>>
    BY <1>21 DEF ProxyStop
  <2>3. QED
    BY Zenon, <1>21, <1>a, <1>b, <2>1, <2>2 DEF ModeStages, DnsStep, Doh
<1>22. CASE ProxyStart
  <2>1. dns.step = "proxystart" /\ dns'.step = "enable" /\ proxy'.up = TRUE
    BY <1>22, <1>c DEF ProxyStart
  <2>2. UNCHANGED <<cfg, dhcp, conf, unbound>>
    BY <1>22 DEF ProxyStart
  <2>3. QED
    BY Zenon, <1>22, <1>a, <1>b, <2>1, <2>2 DEF ModeStages, DnsStep, Doh
<1>23. CASE ProxyEnable
  <2>1. dns.step = "enable" /\ dns'.step = "render" /\ proxy'.up = proxy.up
    BY <1>23, <1>c DEF ProxyEnable
  <2>2. UNCHANGED <<cfg, dhcp, conf, unbound>>
    BY <1>23 DEF ProxyEnable
  <2>3. QED
    BY Zenon, <1>23, <1>a, <1>b, <2>1, <2>2 DEF ModeStages, DnsStep, Doh
<1>24. CASE RenderDns
  BY Zenon, <1>24, <1>a, <1>b, <1>c DEF RenderDns, ModeStages, DnsStep, Quiet, View
<1>25. CASE WriteDns
  BY SMTT(30), <1>25, <1>a, <1>b, <1>c DEF WriteDns, ModeStages, DnsStep, Quiet
<1>26. CASE ReloadDns
  BY Zenon, <1>26, <1>a, <1>b, <1>c DEF ReloadDns, ModeStages, DnsStep, Quiet
<1>27. CASE UNCHANGED vars
  BY Zenon, <1>27, <1>a DEF vars, ModeStages
<1>28. QED
  BY Zenon, <1>1, <1>2, <1>3, <1>4, <1>5, <1>6, <1>7, <1>8, <1>9, <1>10, <1>11, <1>12, <1>13, <1>14,
     <1>15, <1>16, <1>17, <1>18, <1>19, <1>20, <1>21, <1>22, <1>23, <1>24, <1>25, <1>26, <1>27
     DEF Next, DhcpStep, DnsStep

-----------------------------------------------------------------------------
\* Adding a record adds it to the set of records.
LEMMA AppendedSet ==
  ASSUME NEW S, NEW s \in Seq(S), NEW r \in S
  PROVE  Range(Append(s, r)) = Range(s) \cup {r}
<1>1. /\ Append(s, r) \in Seq(S) /\ Len(Append(s, r)) = Len(s) + 1 /\ Len(s) \in Nat
      /\ \A i \in 1 .. Len(s) : Append(s, r)[i] = s[i]
      /\ Append(s, r)[Len(s) + 1] = r
  BY AppendProperties
<1>2. DOMAIN s = 1 .. Len(s) /\ DOMAIN Append(s, r) = 1 .. Len(s) + 1
  BY <1>1
<1>3. \A i \in 1 .. Len(s) + 1 : i \in 1 .. Len(s) \/ i = Len(s) + 1
  BY <1>1
<1>4. 1 .. Len(s) \subseteq 1 .. Len(s) + 1 /\ Len(s) + 1 \in 1 .. Len(s) + 1
  BY <1>1
<1>5. QED
  BY <1>1, <1>2, <1>3, <1>4, Zenon DEF Range

\* Removing a record leaves the others.
LEMMA RemovedSet ==
  ASSUME NEW S, NEW s \in Seq(S), NEW i \in 1 .. Len(s)
  PROVE  /\ Range(Without(s, i)) \subseteq Range(s)
         /\ \A x \in Range(s) : x # s[i] => x \in Range(Without(s, i))
         /\ \A x \in Range(Without(s, i)) : \E j \in 1 .. Len(s) : j # i /\ x = s[j]
<1> DEFINE t == Without(s, i)
<1>1. /\ t \in Seq(S) /\ Len(t) = Len(s) - 1 /\ Len(s) \in Nat
      /\ \A j \in 1 .. Len(s) - 1 : t[j] = s[IF j < i THEN j ELSE j + 1]
  <2>1. Len(s) \in Nat
    BY Zenon, LenProperties
  <2>2. QED
    BY Zenon, <2>1, WithoutElements
<1> HIDE DEF t
<1>2. DOMAIN s = 1 .. Len(s) /\ DOMAIN t = 1 .. Len(s) - 1
  BY <1>1
<1>3. \A x \in Range(t) : \E j \in 1 .. Len(s) : j # i /\ x = s[j]
  <2> TAKE x \in Range(t)
  <2>1. PICK j \in 1 .. Len(s) - 1 : x = t[j]
    BY <1>2 DEF Range
  <2>2. CASE j < i
    <3>1. j \in 1 .. Len(s) /\ j # i /\ x = s[j]
      BY <1>1, <2>1, <2>2
    <3>2. QED
      BY <3>1
  <2>3. CASE ~(j < i)
    <3>1. j + 1 \in 1 .. Len(s) /\ j + 1 # i /\ x = s[j + 1]
      BY <1>1, <2>1, <2>3
    <3>2. QED
      BY <3>1
  <2>4. QED
    BY <2>2, <2>3
<1>4. \A x \in Range(s) : x # s[i] => x \in Range(t)
  <2> SUFFICES ASSUME NEW j \in 1 .. Len(s), s[j] # s[i] PROVE s[j] \in Range(t)
    BY <1>2 DEF Range
  <2>1. CASE j < i
    <3>1. j \in 1 .. Len(s) - 1 /\ t[j] = s[j]
      BY <1>1, <2>1
    <3>2. QED
      BY Zenon, <1>2, <3>1 DEF Range
  <2>2. CASE j > i
    <3>1. j - 1 \in 1 .. Len(s) - 1 /\ t[j - 1] = s[j]
      BY <1>1, <2>2
    <3>2. QED
      BY Zenon, <1>2, <3>1 DEF Range
  <2>3. QED
    BY <2>1, <2>2
<1>5. Range(t) \subseteq Range(s)
  <2> SUFFICES ASSUME NEW x \in Range(t) PROVE x \in Range(s)
    BY Zenon
  <2>1. PICK j \in 1 .. Len(s) : x = s[j]
    BY Zenon, <1>3
  <2>2. QED
    BY Zenon, <1>2, <2>1 DEF Range
<1>6. QED
  BY Zenon, <1>3, <1>4, <1>5 DEF t

\* Of an operator who makes one request at a time, while the DHCP page, the settings
\* page or the start-up is at work nothing else is, and the records it adds and removes
\* are mirrors.
LEMMA MirrorWrites ==
  ASSUME DataInv, AloneInv, [Next]_vars, env # "busy", dhcp # Quiet, ~Restart
  PROVE  /\ DhcpStep \/ UNCHANGED vars
         /\ \/ cfg' = cfg
            \/ \E r \in Record : r.src # User /\ cfg' = WithRecord(r)
            \/ \E i \in 1 .. Len(cfg.records) : cfg.records[i].src # User /\ cfg' = WithoutRecord(i)
<1>1. dns.step = "idle"
  BY DEF AloneInv, Quiet
<1>2. DhcpStep \/ UNCHANGED vars
  BY ZenonT(40), <1>1 DEF Next, DnsStep, AddLease, RemoveLease, SetDomain, AddRecord, DeleteRecord, SetMode,
     UpdateBlocklist, NewRequest, Idle, ProxyConf, ProxyStop, ProxyStart, ProxyEnable, RenderDns,
     WriteDns, ReloadDns
<1>3. cfg.domain \in Domains
  BY Zenon, SoundFields DEF DataInv
<1>4. CASE Mirror
  <2>1. dhcp.lease \in Lease
    BY Zenon, <1>4 DEF Mirror, DataInv, DhcpData
  <2>2. QED
    BY SMTT(30), <1>2, <1>3, <1>4, <2>1, MirrorIsRecord, SavedOrNot DEF Mirror
<1>5. CASE Readd
  <2>1. Head(dhcp.todo) \in Lease
    BY <1>5, HeadTailProperties DEF Readd, DataInv, DhcpData, Readding
  <2>2. QED
    BY <1>2, <1>3, <1>5, <2>1, MirrorIsRecord, SavedOrNot DEF Readd
<1>6. CASE Unmirror
  <2>1. dhcp.idx \in 1 .. Len(cfg.records) /\ cfg.records[dhcp.idx].src # User
    BY Zenon, <1>6 DEF Unmirror, AloneInv
  <2>2. cfg' = cfg \/ cfg' = WithoutRecord(dhcp.idx)
    BY Zenon, <1>6, SavedOrNot DEF Unmirror
  <2>3. QED
    BY Zenon, <1>2, <2>1, <2>2
<1>7. CASE Strip
  <2>1. dhcp.idx \in 1 .. Len(cfg.records) /\ cfg.records[dhcp.idx].src # User
    BY Zenon, <1>7 DEF Strip, AloneInv
  <2>2. cfg' = cfg \/ cfg' = WithoutRecord(dhcp.idx)
    BY Zenon, <1>7, SavedOrNot DEF Strip
  <2>3. QED
    BY <1>2, <2>1, <2>2
<1>8. CASE ~Mirror /\ ~Readd /\ ~Unmirror /\ ~Strip
  <2>1. cfg' = cfg
    BY Zenon, <1>2, <1>8, SavedOrNot DEF DhcpStep, vars, FindMirror, RenderHosts, ReloadHosts, StripFind,
       SyncRenders, SyncWrites, SyncReloads, SaveDomain
  <2>2. QED
    BY <1>2, <2>1
<1>9. QED
  BY Zenon, <1>4, <1>5, <1>6, <1>7, <1>8

\* So the operator's own records stay as they are.
LEMMA OwnKept ==
  ASSUME DataInv, AloneInv, [Next]_vars, env # "busy", dhcp # Quiet, ~Restart
  PROVE  Own(cfg'.records) = Own(cfg.records)
<1>0. cfg \in Config /\ cfg.records \in Seq(Record)
  BY Zenon, SoundFields DEF DataInv
<1>1. CASE \E r \in Record : r.src # User /\ cfg' = WithRecord(r)
  <2>1. PICK r \in Record : r.src # User /\ cfg' = WithRecord(r)
    BY <1>1
  <2>2. Range(cfg'.records) = Range(cfg.records) \cup {r}
    <3>1. cfg'.records = Append(cfg.records, r)
      BY <1>0, <2>1, EditFields
    <3>2. QED
      BY <1>0, <3>1, AppendedSet
  <2>3. QED
    BY Zenon, <2>1, <2>2 DEF Own
<1>2. CASE \E i \in 1 .. Len(cfg.records) : cfg.records[i].src # User /\ cfg' = WithoutRecord(i)
  <2>1. PICK i \in 1 .. Len(cfg.records) : cfg.records[i].src # User /\ cfg' = WithoutRecord(i)
    BY Zenon, <1>2
  <2>2. cfg'.records = Without(cfg.records, i)
    BY <1>0, <2>1, EditFields
  <2>3. /\ Range(cfg'.records) \subseteq Range(cfg.records)
        /\ \A x \in Range(cfg.records) : x # cfg.records[i] => x \in Range(cfg'.records)
    BY Zenon, <1>0, <2>2, RemovedSet
  <2>4. QED
    BY Zenon, <2>1, <2>3 DEF Own
<1>3. QED
  BY Zenon, <1>1, <1>2, MirrorWrites

\* The operator's records reach unbound.
LEMMA OwnStep ==
  ASSUME CountInv, DataInv, AloneInv, OwnInv, [Next]_vars
  PROVE  OwnInv'
<1>0. (faults' = 0 => faults = 0 /\ ~Fault) /\ env' = env
  BY CountStep
<1> SUFFICES ASSUME env # "busy", faults' = 0, faults = 0, ~Fault
             PROVE  OwnStages'
  BY <1>0 DEF OwnInv
<1>a. OwnStages
  BY DEF OwnInv
<1>1. CASE Restart
  BY <1>1 DEF Restart, OwnStages, Sync, Quiet
<1>2. CASE dhcp # Quiet /\ ~Restart
  <2>0. /\ dns = Quiet /\ Own(cfg'.records) = Own(cfg.records) /\ (DhcpStep \/ UNCHANGED vars)
        /\ dhcp.boot \in BOOLEAN
    BY Zenon, <1>2, OwnKept, MirrorWrites DEF AloneInv, DataInv, DhcpData
  <2> DEFINE Served == Own(conf.records) = Own(cfg.records) /\ Own(unbound.records) = Own(cfg.records)
  <2>a. ~dhcp.boot => Served
    BY Zenon, <1>2, <1>a DEF OwnStages
  <2>1. CASE SyncWrites
    <3>1. /\ conf' = dhcp.out /\ dhcp' = [step |-> "dnsreload", boot |-> dhcp.boot]
          /\ unbound' = unbound /\ dns' = dns /\ dhcp.step = "write"
      BY Zenon, <2>1 DEF SyncWrites
    <3>2. Own(conf'.records) = Own(cfg'.records)
      BY Zenon, <1>a, <2>0, <3>1 DEF OwnStages
    <3>3. QED
      BY Zenon, <2>0, <2>a, <3>1, <3>2 DEF OwnStages, Quiet
  <2>2. CASE SyncReloads
    <3>1. /\ unbound' = conf /\ conf' = conf /\ dns' = dns /\ dhcp.step = "dnsreload"
          /\ dhcp'.step \in {"idle", "save"}
      BY Zenon, <2>2 DEF SyncReloads, AfterSync, Quiet
    <3>2. QED
      BY Zenon, <1>a, <2>0, <3>1 DEF OwnStages, Quiet
  <2>3. CASE SyncRenders
    <3>1. /\ dhcp' = [step |-> "write", out |-> View(cfg), boot |-> dhcp.boot]
          /\ dns' = dns /\ cfg' = cfg /\ conf' = conf /\ unbound' = unbound
      BY Zenon, <2>3 DEF SyncRenders
    <3>2. View(cfg).records = cfg.records
      BY Zenon DEF View
    <3>3. QED
      BY Zenon, <2>0, <2>a, <3>1, <3>2 DEF OwnStages, Quiet
  <2>4. CASE UNCHANGED vars
    BY Zenon, <1>a, <2>4 DEF OwnStages, vars
  <2>5. CASE DhcpStep /\ ~SyncWrites /\ ~SyncReloads /\ ~SyncRenders
    <3>1. UNCHANGED <<conf, unbound, dns>>
      BY Zenon, <2>5 DEF DhcpStep, Mirror, FindMirror, Unmirror, RenderHosts, ReloadHosts, StripFind, Strip,
         Readd, SaveDomain
    <3>2. dhcp'.step \notin {"write", "dnsreload"} /\ (~dhcp.boot \/ (dhcp' # Quiet /\ dhcp'.boot))
      <4>1. CASE StripFind
        BY Zenon, <4>1, <2>0 DEF StripFind, Quiet
      <4>2. CASE Strip
        <5>1. dhcp.idx \in DOMAIN cfg.records
          BY <4>2 DEF Strip, AloneInv, DataInv, Sound, Config
        <5>2. dhcp' = Sync(dhcp.boot)
          BY Zenon, <4>2, <5>1 DEF Strip, SaveFails
        <5>3. QED
          BY Zenon, <2>0, <5>2 DEF Sync, Quiet
      <4>3. CASE Readd
        <5>1. dhcp \in Readding /\ dhcp' = [dhcp EXCEPT !.todo = Tail(@)]
          BY <4>3 DEF Readd, DataInv, DhcpData
        <5>2. dhcp'.step = "readd" /\ dhcp'.boot = dhcp.boot
          BY <5>1 DEF Readding
        <5>3. QED
          BY <2>0, <5>2 DEF Quiet
      <4>4. CASE Mirror \/ FindMirror \/ Unmirror \/ RenderHosts \/ ReloadHosts \/ SaveDomain
        <5>1. dhcp.step \in {"mirror", "find", "unmirror", "render", "reload", "save"}
          BY Zenon, <4>4 DEF Mirror, FindMirror, Unmirror, RenderHosts, ReloadHosts, SaveDomain
        <5>2. ~dhcp.boot
          BY Zenon, <1>2, <5>1 DEF DataInv, DhcpData
        <5>3. dhcp'.step \in {"render", "unmirror", "reload", "idle"}
          BY SMTT(30), <4>4 DEF Mirror, FindMirror, Unmirror, RenderHosts, ReloadHosts, SaveDomain, Render, Quiet
        <5>4. QED
          BY <5>2, <5>3
      <4>5. QED
        BY Zenon, <2>5, <4>1, <4>2, <4>3, <4>4 DEF DhcpStep
    <3>3. QED
      BY Zenon, <2>0, <2>a, <3>1, <3>2 DEF OwnStages, Quiet
  <2>6. QED
    BY Zenon, <2>0, <2>1, <2>2, <2>3, <2>4, <2>5
<1>3. CASE dhcp = Quiet /\ ~Restart
  <2>1. CASE AddLease \/ RemoveLease \/ SetDomain
    <3>1. dns = Quiet /\ UNCHANGED <<conf, unbound, dns>>
      BY Zenon, <2>1 DEF AddLease, RemoveLease, SetDomain, NewRequest, Idle
    <3>2. (\E ls : cfg' = [cfg EXCEPT !.leases = ls]) \/ (\E d : cfg' = [cfg EXCEPT !.domain = d])
      <4>1. CASE AddLease
        BY <4>1, Zenon DEF AddLease, Saves, SaveFails
      <4>2. CASE RemoveLease
        BY <4>2, Zenon DEF RemoveLease, Saves, SaveFails
      <4>3. CASE SetDomain
        BY <4>3, Zenon DEF SetDomain
      <4>4. QED
        BY <2>1, <4>1, <4>2, <4>3
    <3>3. cfg'.records = cfg.records
      <4>0. cfg \in Config
        BY DEF DataInv, Sound
      <4>1. ASSUME NEW ls, cfg' = [cfg EXCEPT !.leases = ls] PROVE cfg'.records = cfg.records
        BY <4>0, <4>1, EditFields
      <4>2. ASSUME NEW d, cfg' = [cfg EXCEPT !.domain = d] PROVE cfg'.records = cfg.records
        BY <4>0, <4>2, EditFields
      <4>3. QED
        BY <3>2, <4>1, <4>2
    <3>4. dhcp'.step \in {"idle", "mirror", "find", "save", "stripfind"}
      <4>1. CASE AddLease
        BY <4>1 DEF AddLease, Quiet
      <4>2. CASE RemoveLease
        BY <4>2 DEF RemoveLease, Quiet
      <4>3. CASE SetDomain
        BY <4>3 DEF SetDomain, Sync
      <4>4. QED
        BY <2>1, <4>1, <4>2, <4>3
    <3>5. QED
      BY Zenon, <1>3, <1>a, <3>1, <3>3, <3>4 DEF OwnStages, Quiet
  <2>2. CASE AddRecord \/ DeleteRecord \/ SetMode
    <3>1. dhcp' = dhcp
      BY <2>2 DEF AddRecord, DeleteRecord, SetMode
    <3>2. dns'.step \in {"render", "proxyconf"}
      <4>1. CASE AddRecord
        BY <4>1 DEF AddRecord, SaveFails
      <4>2. CASE DeleteRecord
        BY <4>2 DEF DeleteRecord, SaveFails
      <4>3. CASE SetMode
        BY <4>3 DEF SetMode, SaveFails
      <4>4. QED
        BY <2>2, <4>1, <4>2, <4>3
    <3>3. QED
      BY <1>3, <3>1, <3>2 DEF OwnStages, Quiet
  <2>3. CASE UpdateBlocklist
    BY Zenon, <1>3, <1>a, <2>3 DEF UpdateBlocklist, NewRequest, Idle, OwnStages, Quiet
  <2>4. CASE RenderDns
    BY Zenon, <1>3, <2>4 DEF RenderDns, OwnStages, Quiet, View
  <2>5. CASE WriteDns
    BY SMTT(30), <1>3, <1>a, <2>5 DEF WriteDns, OwnStages, Quiet
  <2>6. CASE ReloadDns
    BY Zenon, <1>3, <1>a, <2>6 DEF ReloadDns, OwnStages, Quiet
  <2>7. CASE ProxyConf \/ ProxyStop \/ ProxyStart \/ ProxyEnable
    <3>1. dns'.step \in {"proxystart", "proxystop", "enable", "render"} /\ dhcp' = dhcp
      BY <2>7 DEF ProxyConf, ProxyStop, ProxyStart, ProxyEnable
    <3>2. QED
      BY <1>3, <3>1 DEF OwnStages, Quiet
  <2>8. CASE UNCHANGED vars
    BY <1>a, <2>8 DEF OwnStages, vars
  <2>9. ~DhcpStep
    BY <1>3 DEF DhcpStep, Quiet, Mirror, FindMirror, Unmirror, RenderHosts, ReloadHosts, StripFind,
       Strip, Readd, SyncRenders, SyncWrites, SyncReloads, SaveDomain
  <2>10. QED
    BY Zenon, <1>3, <2>1, <2>2, <2>3, <2>4, <2>5, <2>6, <2>7, <2>8, <2>9 DEF Next, DnsStep
<1>4. QED
  BY <1>1, <1>2, <1>3

-----------------------------------------------------------------------------
\* The first state satisfies the invariant.
LEMMA InvInit == Init => Inv
<1> SUFFICES ASSUME Init PROVE Inv
  OBVIOUS
<1>1. /\ cfg = [domain |-> Default, leases |-> <<>>, records |-> <<>>, mode |-> "direct"]
      /\ yaml = cfg /\ conf = View(cfg) /\ unbound = conf /\ dhcp = Quiet /\ dns = Quiet
      /\ proxy = [up |-> FALSE, enabled |-> FALSE] /\ faults = 0 /\ crashes = 0
  BY Zenon DEF Init
<1>2. CountInv
  BY Zenon, <1>1 DEF CountInv
<1>3. Sound(cfg)
  <2>1. cfg \in Config
    BY SMTT(30), <1>1, NamesAssumption DEF Config, Mode
  <2>2. Len(cfg.records) = 0
    BY Zenon, <1>1
  <2>3. QED
    BY <2>1, <2>2, NamesAssumption DEF Sound, Distinct
<1>4. DataInv
  BY Zenon, <1>1, <1>3, ViewSound DEF DataInv, DhcpData, DnsData, Quiet
<1>5. AloneInv /\ SavedInv
  BY Zenon, <1>1 DEF AloneInv, SavedInv, Quiet
<1>6. ModeInv
  BY Zenon, <1>1 DEF ModeInv, ModeStages, Quiet, View, Doh
<1>7. OwnInv
  <2>1. conf.records = cfg.records /\ unbound.records = cfg.records
    BY Zenon, <1>1 DEF View
  <2>2. dhcp.step = "idle" /\ dns.step = "idle"
    BY Zenon, <1>1 DEF Quiet
  <2>3. OwnStages
    BY Zenon, <2>1, <2>2 DEF OwnStages
  <2>4. QED
    BY Zenon, <2>3 DEF OwnInv
<1>8. QED
  BY <1>2, <1>4, <1>5, <1>6, <1>7 DEF Inv

\* Every step preserves the invariant.
LEMMA InvStep == Inv /\ [Next]_vars => Inv'
<1> SUFFICES ASSUME Inv, [Next]_vars PROVE Inv'
  OBVIOUS
<1>1. CountInv' /\ (faults' = 0 => faults = 0 /\ ~Fault) /\ env' = env
  BY CountStep DEF Inv
<1>2. DataInv' /\ AloneInv' /\ SavedInv'
  BY <1>1, DataStep, AloneStep, SavedStep DEF Inv
<1>3. ModeInv' /\ OwnInv'
  BY ModeStep, OwnStep DEF Inv
<1>4. QED
  BY Zenon, <1>1, <1>2, <1>3 DEF Inv

\* The invariant holds in every state.
THEOREM Invariance == Spec => []Inv
BY InvInit, InvStep, PTL DEF Spec

\* AddStaticRecord refuses a name in use: unbound is never given two addresses for one
\* name, however the pages, the mirror, the sync, failing saves and restarts interleave.
THEOREM NamesAreUnique == Spec => []OneAddressPerName
<1>1. Inv => OneAddressPerName
  <2> SUFFICES ASSUME Inv,
                      NEW rs \in {cfg.records, yaml.records, conf.records, unbound.records}
               PROVE  \A i, j \in DOMAIN rs : rs[i].name = rs[j].name => i = j
    BY Zenon DEF OneAddressPerName
  <2>1. rs \in Seq(Record) /\ Distinct(rs)
    BY Zenon DEF Inv, DataInv, Sound, SoundView, Config, Rendered
  <2>2. QED
    BY SMTT(30), <2>1 DEF Distinct
<1>2. QED
  BY <1>1, Invariance, PTL

\* FindStaticRecordIndexBySource and RemoveStaticRecord: of an operator who makes one
\* request at a time, no step of the DHCP page, the settings page or the start-up changes
\* the records they added themselves, also when names collide or a save fails.
THEOREM OwnRecordsAreKept == Spec => UserRecordsKept
<1>1. Inv /\ [Next]_vars =>
        [env # "busy" /\ dhcp # Quiet /\ crashes' = crashes
           => Own(cfg'.records) = Own(cfg.records)]_vars
  <2> SUFFICES ASSUME Inv, [Next]_vars, env # "busy", dhcp # Quiet, crashes' = crashes
               PROVE  Own(cfg'.records) = Own(cfg.records)
    BY Zenon
  <2>1. ~Restart
    <3>1. Restart => crashes' = crashes + 1
      BY DEF Restart
    <3>2. crashes \in Nat
      BY DEF Inv, CountInv
    <3>3. QED
      BY <3>1, <3>2
  <2>2. QED
    BY Zenon, <2>1, OwnKept DEF Inv
<1>2. QED
  BY <1>1, Invariance, PTL DEF Spec, UserRecordsKept

\* HandleSaveDoT: "dnscrypt-proxy MUST be up before unbound reloads".
THEOREM ForwarderIsUp == Spec => []ForwarderUp
<1>1. Inv => ForwarderUp
  <2> SUFFICES ASSUME ModeStages, DnsData(dns), unbound.mode = "doh"
               PROVE  proxy.up \/ (cfg.mode # "doh" /\ dns # Quiet)
    BY DEF Inv, ModeInv, DataInv, ForwarderUp
  <2>1. CASE dns.step = "idle"
    BY Zenon, <2>1 DEF ModeStages, Doh
  <2>2. CASE dns.step # "idle"
    BY SMTT(30), <2>2 DEF ModeStages, Doh, Quiet
  <2>3. QED
    BY <2>1, <2>2
<1>2. QED
  BY <1>1, Invariance, PTL

-----------------------------------------------------------------------------
\* The rest is about an orderly operator.  Their records, by host, are an injection into
\* the hosts, so that a host without a record has room for one.
LEMMA Room ==
  ASSUME IsFiniteSet(Hosts), Cardinality(Hosts) <= MaxRecords, Sound(cfg), Tidy(cfg),
         NEW h \in Hosts, ~Recorded(cfg, h)
  PROVE  Len(cfg.records) < MaxRecords
<1> DEFINE n == Len(cfg.records)
           host == [i \in 1 .. n |-> cfg.records[i].name[1]]
<1>1. cfg.records \in Seq(Record) /\ n \in Nat
  BY Zenon, SoundFields
<1>2. \A i \in 1 .. n : cfg.records[i].name[1] \in Hosts \ {h}
  <2> TAKE i \in 1 .. n
  <2>1. cfg.records[i] \in Record
    BY <1>1
  <2>2. cfg.records[i].name \in Hosts \X Domains
    BY Zenon, <2>1 DEF Record, Name
  <2>3. QED
    BY Zenon, <2>2 DEF Recorded
<1>3. host \in Injection(1 .. n, Hosts \ {h})
  BY Zenon, <1>2 DEF Tidy, Injection, IsInjective
<1>4. IsFiniteSet(Hosts \ {h}) /\ Cardinality(Hosts \ {h}) = Cardinality(Hosts) - 1
  BY FS_RemoveElement
<1>5. Cardinality(1 .. n) <= Cardinality(Hosts \ {h})
  BY SMTT(30), <1>3, <1>4, FS_Injection
<1>6. Cardinality(1 .. n) = n
  BY <1>1, FS_Interval
<1>7. Cardinality(Hosts) \in Nat /\ MaxRecords \in Nat
  BY Zenon, FS_CardinalityType, NamesAssumption
<1>8. QED
  BY <1>1, <1>4, <1>5, <1>6, <1>7

\* Nothing is in hand between two requests of the DHCP page.
LEMMA TidyIdle ==
  ASSUME dhcp' = Quiet, Mirrored(cfg'.records) = MirrorsOf(cfg', Len(cfg'.leases))
  PROVE  TidyStages'
<1>1. dhcp'.step = "idle"
  BY DEF Quiet
<1>2. QED
  BY Zenon, <1>1 DEF TidyStages

\* A record for a host without one keeps a configuration orderly.
LEMMA TidyAdded ==
  ASSUME Sound(cfg), Tidy(cfg), NEW r \in Record, ~Recorded(cfg, r.name[1]),
         r.src = User => \A i \in 1 .. Len(cfg.leases) : cfg.leases[i].host # r.name[1]
  PROVE  Tidy(WithRecord(r))
<1> DEFINE c == WithRecord(r)
           n == Len(cfg.records)
<1>0. cfg \in Config /\ cfg.records \in Seq(Record) /\ n \in Nat
  BY Zenon, SoundFields
<1>1. c.leases = cfg.leases /\ c.records = Append(cfg.records, r)
  BY <1>0, EditFields
<1>2. /\ Len(c.records) = n + 1 /\ c.records[n + 1] = r
      /\ \A i \in 1 .. n : c.records[i] = cfg.records[i]
  BY SMTT(30), <1>0, <1>1, AppendProperties
<1> HIDE DEF c, n
<1>3. \A i \in 1 .. n + 1 : i \in 1 .. n \/ i = n + 1
  BY <1>0
<1>4. \A i \in 1 .. n : cfg.records[i].name[1] # r.name[1]
  BY Zenon DEF Recorded, n
<1>5. \A i, j \in 1 .. n + 1 : c.records[i].name[1] = c.records[j].name[1] => i = j
  <2>1. \A i, j \in 1 .. n : cfg.records[i].name[1] = cfg.records[j].name[1] => i = j
    BY Zenon DEF Tidy, n
  <2>2. SUFFICES ASSUME NEW i \in 1 .. n + 1, NEW j \in 1 .. n + 1,
                        c.records[i].name[1] = c.records[j].name[1]
                 PROVE  i = j
    BY Zenon
  <2>3. CASE i \in 1 .. n /\ j \in 1 .. n
    <3>1. c.records[i] = cfg.records[i] /\ c.records[j] = cfg.records[j]
      BY Zenon, <1>2, <2>3
    <3>2. QED
      BY Zenon, <2>1, <2>2, <2>3, <3>1
  <2>4. CASE i = n + 1 \/ j = n + 1
    BY Zenon, <1>2, <1>3, <1>4, <2>2, <2>4
  <2>5. QED
    BY Zenon, <1>3, <2>3, <2>4
<1>6. \A i \in 1 .. Len(c.leases), j \in 1 .. n + 1 :
        c.records[j].src = User => c.records[j].name[1] # c.leases[i].host
  BY SMTT(30), <1>1, <1>2, <1>3 DEF Tidy, n
<1>7. QED
  BY ZenonT(40), <1>1, <1>2, <1>5, <1>6 DEF Tidy, c

\* A record fewer keeps it orderly.
LEMMA TidyRemoved ==
  ASSUME Sound(cfg), Tidy(cfg), NEW i \in 1 .. Len(cfg.records)
  PROVE  Tidy(WithoutRecord(i))
<1> DEFINE c == WithoutRecord(i)
           n == Len(cfg.records)
           old(j) == IF j < i THEN j ELSE j + 1
<1>0. cfg \in Config /\ cfg.records \in Seq(Record) /\ n \in Nat
  BY Zenon, SoundFields
<1>1. c.leases = cfg.leases /\ c.records = Without(cfg.records, i)
  BY <1>0, EditFields
<1>2. Len(c.records) = n - 1 /\ \A j \in 1 .. n - 1 : c.records[j] = cfg.records[old(j)]
  BY Zenon, <1>0, <1>1, WithoutElements
<1>3. \A j \in 1 .. n - 1 : old(j) \in 1 .. n
  BY <1>0
<1>4. \A j, k \in 1 .. n - 1 : old(j) = old(k) => j = k
  BY <1>0
<1> HIDE DEF c, n, old
<1>5. \A j, k \in 1 .. n - 1 : c.records[j].name[1] = c.records[k].name[1] => j = k
  <2>1. \A j, k \in 1 .. n : cfg.records[j].name[1] = cfg.records[k].name[1] => j = k
    BY Zenon DEF Tidy, n
  <2> TAKE j, k \in 1 .. n - 1
  <2>2. c.records[j] = cfg.records[old(j)] /\ c.records[k] = cfg.records[old(k)]
    BY Zenon, <1>2
  <2>3. old(j) \in 1 .. n /\ old(k) \in 1 .. n
    BY <1>3
  <2>4. QED
    BY Zenon, <1>4, <2>1, <2>2, <2>3
<1>6. \A k \in 1 .. Len(c.leases), j \in 1 .. n - 1 :
        c.records[j].src = User => c.records[j].name[1] # c.leases[k].host
  <2> TAKE k \in 1 .. Len(c.leases), j \in 1 .. n - 1
  <2>1. c.records[j] = cfg.records[old(j)] /\ old(j) \in 1 .. n
    BY Zenon, <1>2, <1>3
  <2>2. k \in 1 .. Len(cfg.leases) /\ c.leases[k] = cfg.leases[k]
    BY Zenon, <1>1
  <2>3. QED
    BY Zenon, <2>1, <2>2 DEF Tidy, n
<1>7. QED
  BY Zenon, <1>1, <1>2, <1>5, <1>6 DEF Tidy, c

\* So does a lease for a host that has neither lease nor record.
LEMMA TidyLeased ==
  ASSUME Sound(cfg), Tidy(cfg), NEW l \in Lease, ~Recorded(cfg, l.host),
         \A i \in 1 .. Len(cfg.leases) : cfg.leases[i].host # l.host
  PROVE  LET c == [cfg EXCEPT !.leases = Append(@, l)] IN
         /\ Tidy(c)
         /\ Len(c.leases) = Len(cfg.leases) + 1 /\ c.leases[Len(cfg.leases) + 1] = l
         /\ \A i \in 1 .. Len(cfg.leases) : c.leases[i] = cfg.leases[i]
<1> DEFINE c == [cfg EXCEPT !.leases = Append(@, l)]
           n == Len(cfg.leases)
<1>0. cfg \in Config /\ cfg.leases \in Seq(Lease) /\ n \in Nat
  BY Zenon, SoundFields
<1>1. c.records = cfg.records /\ c.leases = Append(cfg.leases, l)
  BY <1>0, EditFields
<1>2. /\ Len(c.leases) = n + 1 /\ c.leases[n + 1] = l
      /\ \A i \in 1 .. n : c.leases[i] = cfg.leases[i]
  BY <1>0, <1>1, AppendProperties
<1> HIDE DEF c, n
<1>3. \A i \in 1 .. n + 1 : i \in 1 .. n \/ i = n + 1
  BY SMTT(30), <1>0
<1>4. \A i, j \in 1 .. n + 1 : c.leases[i].host = c.leases[j].host => i = j
  BY ZenonT(40), <1>2, <1>3 DEF Tidy, n
<1>5. \A i \in 1 .. n + 1, j \in 1 .. Len(c.records) :
        c.records[j].src = User => c.records[j].name[1] # c.leases[i].host
  BY SMTT(30), <1>1, <1>2, <1>3 DEF Tidy, n, Recorded
<1>6. Tidy(c)
  BY Zenon, <1>1, <1>2, <1>4, <1>5 DEF Tidy
<1>7. QED
  BY <1>2, <1>6 DEF c, n

\* And a lease fewer.
LEMMA TidyReleased ==
  ASSUME Sound(cfg), Tidy(cfg), NEW i \in 1 .. Len(cfg.leases)
  PROVE  Tidy([cfg EXCEPT !.leases = Without(@, i)])
<1> DEFINE c == [cfg EXCEPT !.leases = Without(@, i)]
           n == Len(cfg.leases)
           old(j) == IF j < i THEN j ELSE j + 1
<1>0. cfg \in Config /\ cfg.leases \in Seq(Lease) /\ n \in Nat
  BY Zenon, SoundFields
<1>1. c.records = cfg.records /\ c.leases = Without(cfg.leases, i)
  <2>1. c = [cfg EXCEPT !.leases = Without(cfg.leases, i)]
    BY Zenon
  <2>2. QED
    BY <1>0, <2>1, EditFields
<1>2. Len(c.leases) = n - 1 /\ \A j \in 1 .. n - 1 : c.leases[j] = cfg.leases[old(j)]
  BY <1>0, <1>1, WithoutElements
<1>3. \A j \in 1 .. n - 1 : old(j) \in 1 .. n
  BY <1>0
<1>4. \A j, k \in 1 .. n - 1 : old(j) = old(k) => j = k
  BY <1>0
<1> HIDE DEF c, n, old
<1>5. \A j, k \in 1 .. n - 1 : c.leases[j].host = c.leases[k].host => j = k
  <2>1. \A j, k \in 1 .. n : cfg.leases[j].host = cfg.leases[k].host => j = k
    BY Zenon DEF Tidy, n
  <2> TAKE j, k \in 1 .. n - 1
  <2>2. c.leases[j] = cfg.leases[old(j)] /\ c.leases[k] = cfg.leases[old(k)]
    BY Zenon, <1>2
  <2>3. old(j) \in 1 .. n /\ old(k) \in 1 .. n
    BY <1>3
  <2>4. QED
    BY Zenon, <1>4, <2>1, <2>2, <2>3
<1>6. \A k \in 1 .. n - 1, j \in 1 .. Len(c.records) :
        c.records[j].src = User => c.records[j].name[1] # c.leases[k].host
  <2> TAKE k \in 1 .. n - 1, j \in 1 .. Len(c.records)
  <2>1. c.leases[k] = cfg.leases[old(k)] /\ old(k) \in 1 .. n
    BY Zenon, <1>2, <1>3
  <2>2. j \in 1 .. Len(cfg.records) /\ c.records[j] = cfg.records[j]
    BY Zenon, <1>1
  <2>3. QED
    BY Zenon, <2>1, <2>2 DEF Tidy, n
<1>7. QED
  BY Zenon, <1>1, <1>2, <1>5, <1>6 DEF Tidy, c

\* The mirrored records when one is added or removed.
LEMMA MirroredAdded ==
  ASSUME NEW s \in Seq(Record), NEW r \in Record
  PROVE  Mirrored(Append(s, r)) = IF r.src # User THEN Mirrored(s) \cup {r} ELSE Mirrored(s)
<1>1. Range(Append(s, r)) = Range(s) \cup {r}
  BY AppendedSet
<1>2. QED
  BY <1>1 DEF Mirrored

\* RemoveStaticRecord takes the record out of them.
LEMMA MirroredRemoved ==
  ASSUME NEW s \in Seq(Record), Distinct(s), NEW i \in 1 .. Len(s)
  PROVE  Mirrored(Without(s, i)) = Mirrored(s) \ {s[i]}
<1>1. /\ Range(Without(s, i)) \subseteq Range(s)
      /\ \A x \in Range(s) : x # s[i] => x \in Range(Without(s, i))
      /\ \A x \in Range(Without(s, i)) : \E j \in 1 .. Len(s) : j # i /\ x = s[j]
  BY Zenon, RemovedSet
<1>2. s[i] \notin Range(Without(s, i))
  BY Zenon, <1>1 DEF Distinct
<1>3. QED
  BY Zenon, <1>1, <1>2 DEF Mirrored

\* The records of the first leases depend on these and on the domain.
LEMMA MirrorsSame ==
  ASSUME NEW c, NEW d, NEW k \in Nat, c.domain = d.domain,
         \A i \in 1 .. k : c.leases[i] = d.leases[i]
  PROVE  MirrorsOf(c, k) = MirrorsOf(d, k)
BY Zenon DEF MirrorsOf

\* One lease more is one record more.
LEMMA MirrorsNext ==
  ASSUME NEW c, NEW k \in Nat
  PROVE  MirrorsOf(c, k + 1) = MirrorsOf(c, k) \cup {MirrorOf(c.leases[k + 1], c.domain)}
<1>1. 1 .. k + 1 = (1 .. k) \cup {k + 1}
  OBVIOUS
<1>2. QED
  BY Zenon, <1>1 DEF MirrorsOf

\* For a host without a record, AddStaticRecord finds nothing to refuse.
LEMMA Addable ==
  ASSUME IsFiniteSet(Hosts), Cardinality(Hosts) <= MaxRecords, Sound(cfg), Tidy(cfg),
         NEW r \in Record, ~Recorded(cfg, r.name[1])
  PROVE  CanAdd(r)
<1>1. r.name[1] \in Hosts
  <2>1. r.name \in Hosts \X Domains
    BY DEF Record, Name
  <2>2. QED
    BY Zenon, <2>1
<1>2. Len(cfg.records) < MaxRecords
  BY Zenon, <1>1, Room
<1>3. DOMAIN cfg.records = 1 .. Len(cfg.records)
  BY Zenon, SoundFields
<1>4. QED
  BY Zenon, <1>2, <1>3 DEF CanAdd, Recorded

\* The operator's steps, when the mirror is exact.  A new lease is the one missing in it, ...
LEMMA TidyAddLease ==
  ASSUME DataInv, env = "tidy", Tidy(cfg), TidyStages, AddLease
  PROVE  Tidy(cfg') /\ TidyStages'
<1> DEFINE n == Len(cfg.leases)
<1>0. cfg \in Config /\ cfg.leases \in Seq(Lease) /\ n \in Nat /\ cfg.records \in Seq(Record) /\ Sound(cfg)
  BY Zenon, SoundFields DEF DataInv
<1>1. PICK l \in Lease : /\ HostFree(l.host) /\ cfg' = [cfg EXCEPT !.leases = Append(@, l)]
                         /\ dhcp' = [step |-> "mirror", lease |-> l, boot |-> FALSE]
  BY DEF AddLease, Saves, SaveFails, Fault
<1>2. (\A i \in 1 .. n : cfg.leases[i].host # l.host) /\ ~Recorded(cfg, l.host)
  BY <1>0, <1>1 DEF HostFree, Recorded
<1>3. /\ Tidy(cfg') /\ Len(cfg'.leases) = n + 1 /\ cfg'.leases[n + 1] = l
      /\ \A i \in 1 .. n : cfg'.leases[i] = cfg.leases[i]
  BY <1>0, <1>1, <1>2, TidyLeased
<1>4. cfg'.records = cfg.records /\ cfg'.domain = cfg.domain
  BY <1>0, <1>1, EditFields
<1>5. Mirrored(cfg.records) = MirrorsOf(cfg, n)
  BY DEF TidyStages, AddLease, Quiet
<1>6. MirrorsOf(cfg', n) = MirrorsOf(cfg, n)
  BY Zenon, <1>0, <1>3, <1>4, MirrorsSame
<1>7. cfg'.leases # <<>> /\ Len(cfg'.leases) - 1 = n
  BY <1>0, <1>3
<1>8. dhcp'.step = "mirror" /\ dhcp'.lease = l
  BY <1>1
<1>9. ~Recorded(cfg', l.host)
  BY Zenon, <1>2, <1>4 DEF Recorded
<1> HIDE DEF n
<1>10. QED
  BY Zenon, <1>3, <1>4, <1>5, <1>6, <1>7, <1>8, <1>9 DEF TidyStages

\* ... a lease that goes leaves its record behind, ...
LEMMA TidyRemoveLease ==
  ASSUME DataInv, env = "tidy", Tidy(cfg), TidyStages, RemoveLease
  PROVE  Tidy(cfg') /\ TidyStages'
<1> DEFINE n == Len(cfg.leases)
           M(c) == MirrorsOf(c, Len(c.leases))
<1>0. cfg \in Config /\ cfg.leases \in Seq(Lease) /\ n \in Nat /\ DOMAIN cfg.leases = 1 .. n /\ Sound(cfg)
  BY Zenon, SoundFields DEF DataInv
<1>1. PICK i \in 1 .. n : /\ cfg' = [cfg EXCEPT !.leases = Without(cfg.leases, i)]
                          /\ dhcp' = [step |-> "find", host |-> cfg.leases[i].host, boot |-> FALSE]
  <2>1. ~Fault
    BY DEF Fault
  <2>2. QED
    BY <1>0, <2>1, Zenon DEF RemoveLease, Saves, SaveFails
<1>2. Tidy(cfg')
  BY <1>0, <1>1, TidyReleased
<1>3. /\ cfg'.leases = Without(cfg.leases, i)
      /\ cfg'.records = cfg.records /\ cfg'.domain = cfg.domain
  BY <1>0, <1>1, EditFields
<1>4. cfg'.leases \in Seq(Lease) /\ DOMAIN cfg'.leases = 1 .. Len(cfg'.leases)
  BY SMTT(30), <1>0, <1>3, WithoutElements
<1>5. /\ Range(cfg'.leases) \subseteq Range(cfg.leases)
      /\ \A x \in Range(cfg.leases) : x # cfg.leases[i] => x \in Range(cfg'.leases)
      /\ \A x \in Range(cfg'.leases) : \E j \in 1 .. n : j # i /\ x = cfg.leases[j]
  BY SMTT(30), <1>0, <1>3, RemovedSet
<1>6. \A j \in 1 .. Len(cfg'.leases) : cfg'.leases[j].host # cfg.leases[i].host
  <2>1. \A x \in Range(cfg'.leases) : x.host # cfg.leases[i].host
    BY ZenonT(40), <1>5 DEF Tidy
  <2>2. QED
    BY Zenon, <1>4, <2>1 DEF Range
<1>7. /\ M(cfg) = {MirrorOf(l, cfg.domain) : l \in Range(cfg.leases)}
      /\ M(cfg') = {MirrorOf(l, cfg.domain) : l \in Range(cfg'.leases)}
  BY Zenon, <1>0, <1>3, <1>4 DEF MirrorsOf, Range
<1>8. Range(cfg.leases) = Range(cfg'.leases) \cup {cfg.leases[i]}
  BY ZenonT(40), <1>0, <1>5 DEF Range
<1>9. M(cfg) = M(cfg') \cup {MirrorOf(cfg.leases[i], cfg.domain)}
  BY Zenon, <1>7, <1>8
<1>10. Mirrored(cfg.records) = M(cfg)
  BY DEF TidyStages, RemoveLease, Quiet
<1>11. cfg.leases[i].dev \in Devices
  <2>1. cfg.leases[i] \in Lease
    BY Zenon, <1>0, ElementOfSeq
  <2>2. QED
    BY Zenon, <2>1 DEF Lease
<1>12. dhcp'.step = "find" /\ dhcp'.host = cfg.leases[i].host
  BY <1>1
<1>13. \E d \in Devices : Mirrored(cfg'.records) =
         M(cfg') \cup {[name |-> <<dhcp'.host, cfg'.domain>>, src |-> d]}
  BY Zenon, <1>3, <1>9, <1>10, <1>11, <1>12 DEF MirrorOf
<1>14. \A j \in 1 .. Len(cfg'.leases) : cfg'.leases[j].host # dhcp'.host
  BY Zenon, <1>6, <1>12
<1>15. QED
  BY Zenon, <1>2, <1>12, <1>13, <1>14 DEF TidyStages

\* ... and the DNS page adds and removes the operator's own records.
LEMMA TidyAddRecord ==
  ASSUME DataInv, env = "tidy", Tidy(cfg), TidyStages, AddRecord
  PROVE  Tidy(cfg') /\ TidyStages'
<1>0. cfg \in Config /\ cfg.leases \in Seq(Lease) /\ cfg.records \in Seq(Record) /\ Sound(cfg)
  BY Zenon, SoundFields DEF DataInv
<1>1. PICK n \in Name : HostFree(n[1]) /\ cfg' = WithRecord([name |-> n, src |-> User])
  BY Zenon DEF AddRecord, Saves, SaveFails
<1>2. dhcp = Quiet /\ dhcp' = dhcp
  BY Zenon DEF AddRecord, NewRequest, Idle
<1> DEFINE r == [name |-> n, src |-> User]
<1>3. r \in Record /\ r.src = User /\ r.name = n
  BY Zenon DEF Record
<1> HIDE DEF r
<1>4. (\A i \in 1 .. Len(cfg.leases) : cfg.leases[i].host # n[1]) /\ ~Recorded(cfg, n[1])
  BY SMTT(30), <1>0, <1>1 DEF HostFree, Recorded
<1>5. cfg' = WithRecord(r)
  BY Zenon, <1>1 DEF r
<1>6. Tidy(cfg')
  BY Zenon, <1>0, <1>3, <1>4, <1>5, TidyAdded
<1>7. cfg'.records = Append(cfg.records, r) /\ cfg'.leases = cfg.leases /\ cfg'.domain = cfg.domain
  BY <1>0, <1>5, EditFields
<1>8. Mirrored(cfg'.records) = Mirrored(cfg.records)
  BY Zenon, <1>0, <1>3, <1>7, MirroredAdded
<1>9. QED
  <2>1. Mirrored(cfg.records) = MirrorsOf(cfg, Len(cfg.leases))
    <3>1. dhcp.step = "idle"
      BY Zenon, <1>2 DEF Quiet
    <3>2. QED
      BY Zenon, <3>1 DEF TidyStages
  <2>2. MirrorsOf(cfg', Len(cfg'.leases)) = MirrorsOf(cfg, Len(cfg.leases))
    BY Zenon, <1>7 DEF MirrorsOf
  <2>3. QED
    BY Zenon, <1>2, <1>6, <1>8, <2>1, <2>2, TidyIdle

\* The operator deletes none but their own records.
LEMMA TidyDeleteRecord ==
  ASSUME DataInv, env = "tidy", Tidy(cfg), TidyStages, DeleteRecord
  PROVE  Tidy(cfg') /\ TidyStages'
<1>0. cfg \in Config /\ cfg.records \in Seq(Record) /\ Sound(cfg) /\ Distinct(cfg.records)
      /\ DOMAIN cfg.records = 1 .. Len(cfg.records)
  BY Zenon, SoundFields DEF DataInv
<1>1. PICK i \in 1 .. Len(cfg.records) : cfg.records[i].src = User /\ cfg' = WithoutRecord(i)
  BY Zenon, <1>0 DEF DeleteRecord, Saves, SaveFails
<1>2. dhcp = Quiet /\ dhcp' = dhcp
  BY Zenon DEF DeleteRecord, NewRequest, Idle
<1>3. Tidy(cfg')
  BY Zenon, <1>0, <1>1, TidyRemoved
<1>4. cfg'.records = Without(cfg.records, i) /\ cfg'.leases = cfg.leases /\ cfg'.domain = cfg.domain
  BY <1>0, <1>1, EditFields
<1>5. Mirrored(cfg'.records) = Mirrored(cfg.records) \ {cfg.records[i]}
  BY Zenon, <1>0, <1>4, MirroredRemoved
<1>6. Mirrored(cfg'.records) = Mirrored(cfg.records)
  BY Zenon, <1>1, <1>5 DEF Mirrored
<1>7. QED
  <2>1. Mirrored(cfg.records) = MirrorsOf(cfg, Len(cfg.leases))
    <3>1. dhcp.step = "idle"
      BY <1>2 DEF Quiet
    <3>2. QED
      BY Zenon, <3>1 DEF TidyStages
  <2>2. MirrorsOf(cfg', Len(cfg'.leases)) = MirrorsOf(cfg, Len(cfg.leases))
    BY Zenon, <1>4 DEF MirrorsOf
  <2>3. QED
    BY Zenon, <1>2, <1>3, <1>6, <2>1, <2>2, TidyIdle

\* The handlers of the DHCP page.  The record of the new lease is added, ...
LEMMA TidyMirror ==
  ASSUME IsFiniteSet(Hosts), Cardinality(Hosts) <= MaxRecords,
         DataInv, env = "tidy", Tidy(cfg), TidyStages, Mirror
  PROVE  Tidy(cfg') /\ TidyStages'
<1> DEFINE r == MirrorOf(dhcp.lease, cfg.domain)
           k == Len(cfg.leases) - 1
<1>0. cfg \in Config /\ cfg.leases \in Seq(Lease) /\ cfg.records \in Seq(Record) /\ Sound(cfg)
      /\ cfg.domain \in Domains
  BY Zenon, SoundFields DEF DataInv
<1>1. dhcp.step = "mirror" /\ dhcp.lease \in Lease
  BY Zenon DEF Mirror, DataInv, DhcpData
<1>2. r \in Record /\ r.src # User /\ r.name[1] = dhcp.lease.host
  BY Zenon, <1>0, <1>1, MirrorIsRecord DEF MirrorOf
<1>3. /\ cfg.leases # <<>> /\ cfg.leases[Len(cfg.leases)] = dhcp.lease
      /\ Mirrored(cfg.records) = MirrorsOf(cfg, k)
      /\ ~Recorded(cfg, dhcp.lease.host)
  BY Zenon, <1>1 DEF TidyStages
<1>4. k \in Nat /\ Len(cfg.leases) = k + 1
  <2>1. Len(cfg.leases) \in Nat /\ Len(cfg.leases) # 0
    BY Zenon, <1>0, <1>3, EmptySeq, LenProperties
  <2>2. QED
    BY <2>1
<1>5. CanAdd(r)
  BY Zenon, <1>0, <1>2, <1>3, Addable
<1>6. cfg' = WithRecord(r) /\ dhcp'.step = "render"
  BY Zenon, <1>5, SavedOrNot DEF Mirror, Render
<1> HIDE DEF r, k
<1>7. Tidy(cfg')
  BY Zenon, <1>0, <1>2, <1>3, <1>6, TidyAdded
<1>8. cfg'.records = Append(cfg.records, r) /\ cfg'.leases = cfg.leases /\ cfg'.domain = cfg.domain
  BY <1>0, <1>6, EditFields
<1>9. Mirrored(cfg'.records) = Mirrored(cfg.records) \cup {r}
  BY Zenon, <1>0, <1>2, <1>8, MirroredAdded
<1>10. MirrorsOf(cfg, k + 1) = MirrorsOf(cfg, k) \cup {r}
  BY Zenon, <1>3, <1>4, MirrorsNext DEF r
<1>11. Mirrored(cfg'.records) = MirrorsOf(cfg', Len(cfg'.leases))
  BY ZenonT(40), <1>3, <1>4, <1>8, <1>9, <1>10 DEF MirrorsOf
<1>12. QED
  BY Zenon, <1>6, <1>7, <1>11 DEF TidyStages

\* ... that of the removed lease is found, ...
LEMMA TidyFindMirror ==
  ASSUME DataInv, env = "tidy", Tidy(cfg), TidyStages, FindMirror
  PROVE  Tidy(cfg') /\ TidyStages'
<1> DEFINE M == MirrorsOf(cfg, Len(cfg.leases))
           mine == {i \in DOMAIN cfg.records :
                      cfg.records[i].src # User /\ cfg.records[i].name = <<dhcp.host, cfg.domain>>}
<1>0. cfg.records \in Seq(Record) /\ DOMAIN cfg.records = 1 .. Len(cfg.records) /\ Len(cfg.records) \in Nat
  BY Zenon, SoundFields DEF DataInv
<1>1. dhcp.step = "find" /\ cfg' = cfg
  BY Zenon DEF FindMirror
<1>2. PICK d \in Devices : Mirrored(cfg.records) = M \cup {[name |-> <<dhcp.host, cfg.domain>>, src |-> d]}
  BY Zenon, <1>1 DEF TidyStages
<1> DEFINE r == [name |-> <<dhcp.host, cfg.domain>>, src |-> d]
<1>3. r \in Mirrored(cfg.records)
  BY Zenon, <1>2
<1>4. PICK j \in 1 .. Len(cfg.records) : cfg.records[j] = r
  BY Zenon, <1>0, <1>3 DEF Mirrored, Range
<1>5. r.name = <<dhcp.host, cfg.domain>> /\ r.src # User
  BY Zenon, <1>3 DEF Mirrored
<1>6. j \in mine
  BY Zenon, <1>0, <1>4, <1>5
<1>7. \A i \in mine : i = j
  <2> TAKE i \in mine
  <2>1. i \in 1 .. Len(cfg.records) /\ cfg.records[i].name = cfg.records[j].name
    BY Zenon, <1>0, <1>4, <1>5
  <2>2. QED
    BY Zenon, <2>1 DEF Tidy
<1>8. dhcp'.step = "unmirror" /\ dhcp'.idx = j
  <2>1. (CHOOSE i \in mine : \A k \in mine : i <= k) \in mine
    BY Zenon, <1>0, <1>6, LeastIndex
  <2>2. dhcp'.step = "unmirror" /\ dhcp'.idx = CHOOSE i \in mine : \A k \in mine : i <= k
    BY Zenon, <1>6 DEF FindMirror
  <2>3. QED
    BY Zenon, <1>7, <2>1, <2>2
<1>9. r \notin M
  <2>1. \A i \in 1 .. Len(cfg.leases) : cfg.leases[i].host # dhcp.host
    BY Zenon, <1>1 DEF TidyStages
  <2>2. \A i \in 1 .. Len(cfg.leases) : MirrorOf(cfg.leases[i], cfg.domain).name # r.name
    BY Zenon, <1>5, <2>1 DEF MirrorOf
  <2>3. QED
    BY Zenon, <2>2 DEF MirrorsOf
<1> HIDE DEF r
<1>10. QED
  BY Zenon, <1>1, <1>2, <1>4, <1>8, <1>9 DEF TidyStages, r

\* ... and removed.
LEMMA TidyUnmirror ==
  ASSUME DataInv, env = "tidy", Tidy(cfg), TidyStages, Unmirror
  PROVE  Tidy(cfg') /\ TidyStages'
<1> DEFINE i == dhcp.idx
           M == MirrorsOf(cfg, Len(cfg.leases))
<1>0. cfg \in Config /\ cfg.records \in Seq(Record) /\ DOMAIN cfg.records = 1 .. Len(cfg.records)
      /\ Sound(cfg) /\ Distinct(cfg.records)
  BY Zenon, SoundFields DEF DataInv
<1>1. /\ i \in 1 .. Len(cfg.records) /\ cfg.records[i] \notin M
      /\ Mirrored(cfg.records) = M \cup {cfg.records[i]}
  BY Zenon DEF Unmirror, TidyStages
<1>2. cfg' = WithoutRecord(i) /\ dhcp'.step = "render"
  BY Zenon, <1>0, <1>1, SavedOrNot DEF Unmirror, Render
<1>3. Tidy(cfg')
  BY Zenon, <1>0, <1>1, <1>2, TidyRemoved
<1>4. cfg'.records = Without(cfg.records, i) /\ cfg'.leases = cfg.leases /\ cfg'.domain = cfg.domain
  BY <1>0, <1>2, EditFields
<1>5. Mirrored(cfg'.records) = Mirrored(cfg.records) \ {cfg.records[i]}
  BY Zenon, <1>0, <1>1, <1>4, MirroredRemoved
<1>6. Mirrored(cfg'.records) = M
  BY Zenon, <1>1, <1>5
<1>7. MirrorsOf(cfg', Len(cfg'.leases)) = M
  BY Zenon, <1>4 DEF MirrorsOf
<1>8. QED
  BY Zenon, <1>2, <1>3, <1>6, <1>7 DEF TidyStages

\* SyncStaticDNSRecords: when no mirrored record is left, no host of a lease has a
\* record, ...
LEMMA TidyStripFind ==
  ASSUME DataInv, env = "tidy", Tidy(cfg), TidyStages, StripFind
  PROVE  Tidy(cfg') /\ TidyStages'
<1> DEFINE mine == {i \in DOMAIN cfg.records : cfg.records[i].src # User}
           n == Len(cfg.leases)
<1>0. /\ cfg.records \in Seq(Record) /\ DOMAIN cfg.records = 1 .. Len(cfg.records)
      /\ cfg.leases \in Seq(Lease) /\ n \in Nat
  BY Zenon, SoundFields DEF DataInv
<1>1. cfg' = cfg
  BY Zenon DEF StripFind
<1>2. CASE mine # {}
  <2>1. dhcp'.step = "strip"
    BY Zenon, <1>2 DEF StripFind
  <2>2. QED
    BY Zenon, <1>1, <2>1 DEF TidyStages
<1>3. CASE mine = {}
  <2>1. dhcp'.step = "readd" /\ dhcp'.todo = cfg.leases
    BY Zenon, <1>3 DEF StripFind
  <2>2. \A i \in 1 .. Len(cfg.records) : cfg.records[i].src = User
    BY Zenon, <1>0, <1>3
  <2>3. Mirrored(cfg.records) = {}
    BY Zenon, <1>0, <2>2 DEF Mirrored, Range
  <2>4. MirrorsOf(cfg, 0) = {}
    BY DEF MirrorsOf
  <2>5. \A i \in 1 .. n : ~Recorded(cfg, cfg.leases[i].host)
    BY Zenon, <2>2 DEF Recorded, Tidy
  <2>6. n - Len(dhcp'.todo) = 0 /\ 0 \in 0 .. n /\ 0 + 1 .. n = 1 .. n
    BY SMTT(30), <1>0, <2>1
  <2>7. \A i \in 1 .. Len(dhcp'.todo) : dhcp'.todo[i] = cfg.leases[0 + i]
    BY <1>0, <2>1
  <2>8. QED
    BY Zenon, <1>1, <2>1, <2>3, <2>4, <2>5, <2>6, <2>7 DEF TidyStages
<1>4. QED
  BY Zenon, <1>2, <1>3

\* ... each removal keeps the configuration orderly, ...
LEMMA TidyStrip ==
  ASSUME DataInv, AloneInv, env = "tidy", Tidy(cfg), TidyStages, Strip
  PROVE  Tidy(cfg') /\ TidyStages'
<1>0. Sound(cfg) /\ DOMAIN cfg.records = 1 .. Len(cfg.records)
  BY Zenon, SoundFields DEF DataInv
<1>1. dhcp.step = "strip" /\ dhcp.idx \in 1 .. Len(cfg.records)
  BY Zenon DEF Strip, AloneInv
<1>2. cfg' = WithoutRecord(dhcp.idx) /\ dhcp'.step = "stripfind"
  BY SMTT(30), <1>0, <1>1 DEF Strip, Saves, SaveFails, Fault, Sync
<1>3. Tidy(cfg')
  BY Zenon, <1>0, <1>1, <1>2, TidyRemoved
<1>4. QED
  BY Zenon, <1>2, <1>3 DEF TidyStages

\* ... and each lease then gets its record, as there is room for it.
LEMMA TidyReadd ==
  ASSUME IsFiniteSet(Hosts), Cardinality(Hosts) <= MaxRecords,
         DataInv, env = "tidy", Tidy(cfg), TidyStages, Readd
  PROVE  Tidy(cfg') /\ TidyStages'
<1> DEFINE n == Len(cfg.leases)
           k == n - Len(dhcp.todo)
           l == cfg.leases[k + 1]
           r == MirrorOf(l, cfg.domain)
<1>0. cfg \in Config /\ cfg.leases \in Seq(Lease) /\ cfg.records \in Seq(Record) /\ Sound(cfg)
      /\ cfg.domain \in Domains /\ n \in Nat
  BY Zenon, SoundFields DEF DataInv
<1>1. dhcp.step = "readd" /\ dhcp \in Readding /\ dhcp.todo \in Seq(Lease) /\ dhcp.todo # <<>>
  BY DEF Readd, DataInv, DhcpData, Readding
<1>2. /\ k \in 0 .. n
      /\ \A i \in 1 .. Len(dhcp.todo) : dhcp.todo[i] = cfg.leases[k + i]
      /\ Mirrored(cfg.records) = MirrorsOf(cfg, k)
      /\ \A i \in k + 1 .. n : ~Recorded(cfg, cfg.leases[i].host)
  BY Zenon, <1>1 DEF TidyStages
<1>3. Len(dhcp.todo) \in Nat \ {0} /\ Head(dhcp.todo) = dhcp.todo[1]
  <2>1. Len(dhcp.todo) \in Nat /\ Len(dhcp.todo) # 0
    BY Zenon, <1>1, EmptySeq, LenProperties
  <2>2. QED
    BY <1>1, <2>1
<1> DEFINE t == Len(dhcp.todo)
<1>a. n \in Nat /\ t \in Nat \ {0} /\ k = n - t /\ k \in 0 .. n
  BY ZenonT(40), <1>0, <1>2, <1>3
<1> HIDE DEF k, n, t
<1>b. k \in Nat /\ k + 1 \in 1 .. n /\ k + 1 \in k + 1 .. n /\ 1 \in 1 .. t
  BY <1>a
<1>4. k \in Nat /\ k + 1 \in 1 .. n /\ Head(dhcp.todo) = l
  <2>1. dhcp.todo[1] = cfg.leases[k + 1]
    BY Zenon, <1>2, <1>b DEF t
  <2>2. QED
    BY Zenon, <1>3, <1>b, <2>1
<1>5. l \in Lease
  BY Zenon, <1>0, <1>4, ElementOfSeq DEF n
<1>6. r \in Record /\ r.src # User /\ r.name[1] = l.host
  BY Zenon, <1>0, <1>5, MirrorIsRecord DEF MirrorOf
<1>7. ~Recorded(cfg, l.host) /\ l.host \in Hosts
  <2>1. ~Recorded(cfg, cfg.leases[k + 1].host)
    BY Zenon, <1>2, <1>b
  <2>2. QED
    BY Zenon, <1>5, <2>1 DEF Lease
<1>8. CanAdd(r)
  BY Zenon, <1>0, <1>5, <1>6, <1>7, Addable
<1>9. cfg' = WithRecord(r)
  <2>1. \/ CanAdd(r) /\ (Saves(WithRecord(r)) \/ SaveFails(WithRecord(r)))
        \/ ~CanAdd(r) /\ Ok /\ UNCHANGED <<cfg, yaml>>
    BY <1>4 DEF Readd
  <2>2. QED
    BY Zenon, <1>8, <2>1 DEF Saves, SaveFails
<1>10. /\ dhcp'.step = "readd" /\ dhcp'.todo = Tail(dhcp.todo)
       /\ Len(dhcp'.todo) = Len(dhcp.todo) - 1
       /\ \A i \in 1 .. Len(dhcp.todo) - 1 : dhcp'.todo[i] = dhcp.todo[i + 1]
  <2>1. dhcp' = [dhcp EXCEPT !.todo = Tail(dhcp.todo)]
    BY DEF Readd
  <2>2. dhcp'.step = "readd" /\ dhcp'.todo = Tail(dhcp.todo)
    BY <1>1, <2>1 DEF Readding
  <2>3. /\ Len(Tail(dhcp.todo)) = Len(dhcp.todo) - 1
        /\ \A i \in 1 .. Len(dhcp.todo) - 1 : Tail(dhcp.todo)[i] = dhcp.todo[i + 1]
    BY Zenon, <1>1, <1>3, HeadTailProperties
  <2>4. QED
    BY Zenon, <2>2, <2>3
<1>11. cfg'.records = Append(cfg.records, r) /\ cfg'.leases = cfg.leases /\ cfg'.domain = cfg.domain
  BY Zenon, <1>0, <1>9, EditFields
<1>12. Mirrored(cfg'.records) = Mirrored(cfg.records) \cup {r}
  BY Zenon, <1>0, <1>6, <1>11, MirroredAdded
<1>13. MirrorsOf(cfg, k + 1) = MirrorsOf(cfg, k) \cup {r}
  BY Zenon, <1>4, MirrorsNext
<1>14. Tidy(cfg')
  BY Zenon, <1>0, <1>6, <1>7, <1>9, TidyAdded
<1> HIDE DEF r
<1>15. \A i \in k + 2 .. n : ~Recorded(cfg', cfg.leases[i].host)
  <2> SUFFICES ASSUME NEW i \in k + 2 .. n, Recorded(cfg', cfg.leases[i].host) PROVE FALSE
    BY Zenon
  <2>1. i \in k + 1 .. n /\ i \in 1 .. n /\ i # k + 1
    BY <1>a, <1>b
  <2>2. cfg.leases[i].host # l.host
    BY Zenon, <1>4, <2>1 DEF Tidy, n
  <2>3. PICK j \in 1 .. Len(cfg'.records) : cfg'.records[j].name[1] = cfg.leases[i].host
    BY Zenon DEF Recorded
  <2>4. /\ Len(cfg'.records) = Len(cfg.records) + 1
        /\ \A m \in 1 .. Len(cfg.records) : cfg'.records[m] = cfg.records[m]
        /\ cfg'.records[Len(cfg.records) + 1] = r
    BY SMTT(30), <1>0, <1>6, <1>11, AppendProperties
  <2>5. CASE j = Len(cfg.records) + 1
    BY Zenon, <1>6, <2>2, <2>3, <2>4, <2>5
  <2>6. CASE j \in 1 .. Len(cfg.records)
    <3>1. cfg.records[j].name[1] = cfg.leases[i].host
      BY Zenon, <2>3, <2>4, <2>6
    <3>2. QED
      BY Zenon, <1>2, <2>1, <2>6, <3>1 DEF Recorded
  <2>7. QED
    BY SMTT(30), <1>0, <2>3, <2>4, <2>5, <2>6
<1>16. MirrorsOf(cfg', k + 1) = MirrorsOf(cfg, k + 1)
  BY Zenon, <1>11 DEF MirrorsOf
<1>17. n - Len(dhcp'.todo) = k + 1
  <2>1. Len(dhcp'.todo) = t - 1
    BY Zenon, <1>10 DEF t
  <2>2. QED
    BY <1>a, <2>1
<1>18. \A i \in 1 .. Len(dhcp'.todo) : dhcp'.todo[i] = cfg.leases[(k + 1) + i]
  <2> TAKE i \in 1 .. Len(dhcp'.todo)
  <2>1. i + 1 \in 1 .. Len(dhcp.todo) /\ i \in 1 .. Len(dhcp.todo) - 1 /\ k + (i + 1) = (k + 1) + i
    <3>1. i \in 1 .. t - 1
      BY Zenon, <1>10 DEF t
    <3>2. i + 1 \in 1 .. t /\ k + (i + 1) = (k + 1) + i
      BY <1>a, <1>b, <3>1
    <3>3. QED
      BY Zenon, <3>1, <3>2 DEF t
  <2>2. QED
    BY Zenon, <1>2, <1>10, <2>1
<1>19. k + 1 \in 0 .. n /\ (k + 1) + 1 .. n = k + 2 .. n
  BY <1>a, <1>b
<1>20. QED
  BY ZenonT(40), <1>2, <1>10, <1>11, <1>12, <1>13, <1>14, <1>15, <1>16, <1>17, <1>18, <1>19 DEF TidyStages, n

\* The steps that write files, load daemons or save leave the exact mirror as it is.
LEMMA TidyApplied ==
  ASSUME DataInv, env = "tidy", Tidy(cfg), TidyStages,
         \/ RenderHosts \/ ReloadHosts \/ SyncRenders \/ SyncWrites \/ SyncReloads
         \/ SaveDomain
  PROVE  Tidy(cfg') /\ TidyStages'
<1>1. cfg' = cfg
  BY Zenon DEF RenderHosts, ReloadHosts, SyncRenders, SyncWrites, SyncReloads, SaveDomain, Saves, SaveFails
<1>2. dhcp'.step \in {"idle", "reload", "write", "dnsreload", "save"}
  BY DEF RenderHosts, ReloadHosts, SyncRenders, SyncWrites, SyncReloads, SaveDomain, AfterSync, Quiet
<1>3. Mirrored(cfg.records) = MirrorsOf(cfg, Len(cfg.leases))
  <2>1. CASE SyncRenders
    <3>1. dhcp.step = "readd" /\ dhcp.todo = <<>>
      BY Zenon, <2>1 DEF SyncRenders
    <3>2. Mirrored(cfg.records) = MirrorsOf(cfg, Len(cfg.leases) - Len(dhcp.todo))
      BY Zenon, <3>1 DEF TidyStages
    <3>3. cfg.leases \in Seq(Lease)
      BY Zenon, SoundFields DEF DataInv
    <3>4. Len(cfg.leases) - Len(dhcp.todo) = Len(cfg.leases)
      BY <3>1, <3>3
    <3>5. QED
      BY Zenon, <3>2, <3>4
  <2>2. CASE ~SyncRenders
    <3>1. dhcp.step \in {"render", "reload", "write", "dnsreload", "save"}
      BY <2>2 DEF RenderHosts, ReloadHosts, SyncWrites, SyncReloads, SaveDomain
    <3>2. QED
      BY Zenon, <3>1 DEF TidyStages
  <2>3. QED
    BY Zenon, <2>1, <2>2
<1>4. QED
  BY Zenon, <1>1, <1>2, <1>3 DEF TidyStages

\* HandleUpdateHostname: another domain begins a sync, the same one is saved.
LEMMA TidySetDomain ==
  ASSUME DataInv, env = "tidy", Tidy(cfg), TidyStages, SetDomain
  PROVE  Tidy(cfg') /\ TidyStages'
<1>0. cfg \in Config
  BY Zenon DEF DataInv, Sound
<1>1. PICK d \in Domains :
        /\ cfg' = [cfg EXCEPT !.domain = d]
        /\ dhcp' = IF d # cfg.domain THEN Sync(FALSE) ELSE [step |-> "save", boot |-> FALSE]
  BY Zenon DEF SetDomain
<1>2. cfg'.leases = cfg.leases /\ cfg'.records = cfg.records /\ cfg'.domain = d
  BY <1>0, <1>1 DEF Config
<1>3. Tidy(cfg')
  BY Zenon, <1>2 DEF Tidy
<1>4. CASE d # cfg.domain
  BY Zenon, <1>1, <1>3, <1>4 DEF TidyStages, Sync
<1>5. CASE d = cfg.domain
  <2>1. Mirrored(cfg.records) = MirrorsOf(cfg, Len(cfg.leases))
    BY DEF TidyStages, SetDomain, Quiet
  <2>2. MirrorsOf(cfg', Len(cfg'.leases)) = MirrorsOf(cfg, Len(cfg.leases))
    BY Zenon, <1>2, <1>5 DEF MirrorsOf
  <2>3. dhcp'.step = "save"
    BY <1>1, <1>5
  <2>4. QED
    BY Zenon, <1>2, <1>3, <2>1, <2>2, <2>3 DEF TidyStages
<1>6. QED
  BY Zenon, <1>4, <1>5

\* The steps of the DNS page that edit no record leave leases, records and domain alone.
LEMMA TidyElsewhere ==
  ASSUME DataInv, env = "tidy", Tidy(cfg), TidyStages,
         SetMode \/ UpdateBlocklist \/ DnsStep \/ UNCHANGED vars
  PROVE  Tidy(cfg') /\ TidyStages'
<1>0. cfg \in Config
  BY Zenon DEF DataInv, Sound
<1>1. dhcp' = dhcp
  BY Zenon DEF SetMode, UpdateBlocklist, DnsStep, ProxyConf, ProxyStop, ProxyStart, ProxyEnable, RenderDns,
     WriteDns, ReloadDns, vars
<1>2. cfg'.leases = cfg.leases /\ cfg'.records = cfg.records /\ cfg'.domain = cfg.domain
  <2>1. CASE SetMode
    <3>1. PICK mo \in Mode : cfg' = [cfg EXCEPT !.mode = mo]
      BY <2>1 DEF SetMode, Saves, SaveFails
    <3>2. QED
      BY <1>0, <3>1 DEF Config
  <2>2. CASE ~SetMode
    <3>1. cfg' = cfg
      BY Zenon, <2>2 DEF UpdateBlocklist, DnsStep, ProxyConf, ProxyStop, ProxyStart, ProxyEnable, RenderDns,
         WriteDns, ReloadDns, vars
    <3>2. QED
      BY <3>1
  <2>3. QED
    BY Zenon, <2>1, <2>2
<1>3. Tidy(cfg')
  BY Zenon, <1>2 DEF Tidy
<1>4. \A k : MirrorsOf(cfg', k) = MirrorsOf(cfg, k)
  BY Zenon, <1>2 DEF MirrorsOf
<1>5. \A h : Recorded(cfg', h) <=> Recorded(cfg, h)
  BY Zenon, <1>2 DEF Recorded
<1>6. QED
  BY ZenonT(40), <1>1, <1>2, <1>3, <1>4, <1>5 DEF TidyStages

\* Every step of an orderly operator preserves the invariant.
LEMMA TidyStep ==
  ASSUME IsFiniteSet(Hosts), Cardinality(Hosts) <= MaxRecords, Inv, TidyInv, [Next]_vars
  PROVE  TidyInv'
<1>1. env' = env /\ DataInv /\ AloneInv
  BY CountStep DEF Inv
<1> SUFFICES ASSUME env = "tidy" PROVE Tidy(cfg') /\ Tidy(yaml') /\ TidyStages'
  BY Zenon, <1>1 DEF TidyInv
<1>2. Tidy(cfg) /\ Tidy(yaml) /\ TidyStages
  BY DEF TidyInv
<1>3. Tidy(cfg') /\ TidyStages'
  <2>1. CASE AddLease \/ RemoveLease \/ SetDomain
    BY Zenon, <1>1, <1>2, <2>1, TidyAddLease, TidyRemoveLease, TidySetDomain
  <2>2. CASE AddRecord \/ DeleteRecord
    BY Zenon, <1>1, <1>2, <2>2, TidyAddRecord, TidyDeleteRecord
  <2>3. CASE Mirror \/ FindMirror \/ Unmirror
    BY Zenon, <1>1, <1>2, <2>3, TidyMirror, TidyFindMirror, TidyUnmirror
  <2>4. CASE StripFind \/ Strip \/ Readd
    BY Zenon, <1>1, <1>2, <2>4, TidyStripFind, TidyStrip, TidyReadd
  <2>5. CASE \/ RenderHosts \/ ReloadHosts \/ SyncRenders \/ SyncWrites \/ SyncReloads
             \/ SaveDomain
    BY Zenon, <1>1, <1>2, <2>5, TidyApplied
  <2>6. CASE SetMode \/ UpdateBlocklist \/ DnsStep \/ UNCHANGED vars
    BY Zenon, <1>1, <1>2, <2>6, TidyElsewhere
  <2>7. CASE Restart
    <3>1. cfg' = yaml /\ dhcp'.step = "stripfind"
      BY <2>7 DEF Restart, Sync
    <3>2. QED
      BY Zenon, <1>2, <3>1 DEF TidyStages
  <2>8. QED
    BY Zenon, <2>1, <2>2, <2>3, <2>4, <2>5, <2>6, <2>7 DEF Next, DhcpStep
<1>4. yaml' \in {yaml, cfg'}
  BY Zenon, <1>1, ConfigWrites
<1>5. QED
  BY <1>2, <1>3, <1>4

\* When no request is under way the copies agree: SyncStaticDNSRecords and the handlers
\* of the DHCP page leave the records of the leases and no others, as long as
\* MaxStaticDNSRecords leaves room for a record of every host, router.yaml holds what
\* memory holds, and unbound serves the operator's records.
THEOREM CopiesDoAgree ==
  ASSUME IsFiniteSet(Hosts), Cardinality(Hosts) <= MaxRecords
  PROVE  Spec => []CopiesAgree
<1>1. Init => Inv /\ TidyInv
  <2> SUFFICES ASSUME Init PROVE TidyInv
    BY InvInit
  <2>1. /\ cfg.leases = <<>> /\ cfg.records = <<>> /\ yaml = cfg /\ dhcp.step = "idle"
    BY Zenon DEF Init, Quiet
  <2>2. Len(cfg.leases) = 0 /\ Len(cfg.records) = 0
    BY Zenon, <2>1
  <2>3. Tidy(cfg)
    BY <2>2 DEF Tidy
  <2>4. Mirrored(cfg.records) = {} /\ MirrorsOf(cfg, Len(cfg.leases)) = {}
    BY <2>1, <2>2 DEF Mirrored, Range, MirrorsOf
  <2>5. QED
    BY Zenon, <2>1, <2>3, <2>4 DEF TidyInv, TidyStages
<1>2. Inv /\ TidyInv /\ [Next]_vars => Inv' /\ TidyInv'
  BY InvStep, TidyStep
<1>3. Inv /\ TidyInv => CopiesAgree
  <2> SUFFICES ASSUME Inv, TidyInv, Idle
               PROVE  /\ env = "tidy" => Mirrored(cfg.records) =
                           {MirrorOf(l, cfg.domain) : l \in Range(cfg.leases)}
                      /\ faults = 0 => yaml = cfg
                      /\ faults = 0 /\ env # "busy" => Own(unbound.records) = Own(cfg.records)
    BY Zenon DEF CopiesAgree
  <2>1. dhcp = Quiet /\ dns = Quiet /\ dhcp.step = "idle"
    BY Zenon DEF Idle, Quiet
  <2>2. ASSUME env = "tidy"
        PROVE  Mirrored(cfg.records) = {MirrorOf(l, cfg.domain) : l \in Range(cfg.leases)}
    <3>1. Mirrored(cfg.records) = MirrorsOf(cfg, Len(cfg.leases))
      BY Zenon, <2>1, <2>2 DEF TidyInv, TidyStages
    <3>2. DOMAIN cfg.leases = 1 .. Len(cfg.leases)
      BY Zenon, SoundFields DEF Inv, DataInv
    <3>3. QED
      BY Zenon, <3>1, <3>2 DEF MirrorsOf, Range
  <2>3. faults = 0 => yaml = cfg
    BY <2>1 DEF Inv, SavedInv
  <2>4. faults = 0 /\ env # "busy" => Own(unbound.records) = Own(cfg.records)
    BY Zenon, <2>1 DEF Inv, OwnInv, OwnStages
  <2>5. QED
    BY Zenon, <2>2, <2>3, <2>4
<1>4. QED
  BY <1>1, <1>2, <1>3, PTL DEF Spec
=============================================================================
