------------------------------ MODULE MCPages ------------------------------
(***************************************************************************)
(* AgentRpc and the components behind the pages of the web process that     *)
(* keep their state to themselves, for TLC, in one run.  A behaviour is one *)
(* of one of them: `which` is awake.  AgentRpc stays in its initial state   *)
(* while it is not; the others are given the variables s1, s2, ... to keep  *)
(* their state in, and those that the one awake does not use are "off".     *)
(***************************************************************************)
EXTENDS AgentRpc

VARIABLES
  which,
  s1, s2, s3, s4, s5, s6, s7, s8, s9, s10, s11, s12, s13, s14, s15, s16, s17, s18, s19, s20,
  s21, s22

Requests == {"p1", "p2"}

-----------------------------------------------------------------------------
(* What the operator submits, and how much happens in a behaviour.           *)

LinkForms ==
  {[on |-> TRUE, mode |-> "dhcpv6-pd", pd |-> TRUE, len |-> TRUE, whole |-> TRUE, dev |-> "he"],
   [on |-> TRUE, mode |-> "6in4", pd |-> FALSE, len |-> TRUE, whole |-> TRUE, dev |-> "he"],
   [on |-> TRUE, mode |-> "6in4", pd |-> FALSE, len |-> TRUE, whole |-> TRUE, dev |-> "sit"],
   [on |-> TRUE, mode |-> "6in4", pd |-> TRUE, len |-> FALSE, whole |-> FALSE, dev |-> "he"],
   [on |-> FALSE, mode |-> "dhcpv6-pd", pd |-> TRUE, len |-> FALSE, whole |-> FALSE, dev |-> "he"]}
LinkEnvs ==
  {[calls |-> 3, reqs |-> {"p1"}, faults |-> 1, link |-> "down"],
   [calls |-> 2, reqs |-> Requests, faults |-> 0, link |-> "up"]}

VlanOrders ==
  {<<"lan">>, <<"lan", "a", "b">>, <<"lan", "b", "a">>, <<"lan", "a">>, <<"a", "lan">>, <<"lan", "b">>}
VlanEnvs ==
  {[reqs |-> {"p1"}, calls |-> 4, faults |-> 1], [reqs |-> Requests, calls |-> 3, faults |-> 0]}

VpnEnvs ==
  {[reqs |-> {"p1"}, calls |-> 5, faults |-> 1, restarts |-> 1, ops |-> {"pki", "clients"}],
   [reqs |-> Requests, calls |-> 3, faults |-> 1, restarts |-> 0, ops |-> {"pki", "clients"}],
   [reqs |-> Requests, calls |-> 4, faults |-> 1, restarts |-> 1, ops |-> {"pki", "server"}],
   [reqs |-> Requests, calls |-> 4, faults |-> 1, restarts |-> 1, ops |-> {"out"}]}

QosForms ==
  {[profile |-> x, valid |-> TRUE, enabled |-> e, rate |-> 2] : x \in {"", "gaming"}, e \in BOOLEAN}
    \cup {[profile |-> "gaming", valid |-> FALSE, enabled |-> TRUE, rate |-> 1]}
Quiet ==
  [ticks |-> 0, packets |-> 0, subs |-> 0, calls |-> 0, faults |-> 0, leases |-> 0, applies |-> 0,
   forms |-> {}, profiles |-> {"cake"}, leased |-> {1}]
QosEnvs ==
  {[Quiet EXCEPT !.ticks = 4, !.packets = 3, !.faults = 1, !.leases = 1, !.applies = 1, !.leased = {1, 2}],
   [Quiet EXCEPT !.ticks = 4, !.subs = 3],
   [Quiet EXCEPT !.ticks = 1, !.calls = 3, !.faults = 1, !.forms = QosForms, !.profiles = {"cake", "fq_codel"}]}

Editing(lists, reqs, calls, faults, boots) ==
  [lists |-> lists, reqs |-> reqs, calls |-> calls, faults |-> faults, restarts |-> boots]
SettingEnvs ==
  {Editing({"sources", "shares"}, Requests, 3, 0, 0),
   Editing({"policies", "rules"}, Requests, 3, 0, 0),
   Editing({"facilities"}, Requests, 3, 0, 0),
   Editing({"subnets", "forwards"}, Requests, 2, 1, 1),
   Editing({"ports", "shares"}, {"p1"}, 3, 1, 1)}

Archiving(reqs, calls, seconds, faults, defaults) ==
  [reqs |-> reqs, calls |-> calls, seconds |-> seconds, faults |-> faults, defaults |-> defaults]
ArchiveEnvs ==
  {Archiving({"p1"}, 4, 0, 1, TRUE), Archiving(Requests, 3, 1, 0, TRUE), Archiving(Requests, 2, 1, 1, FALSE)}

\* Every playlist of up to four lines, and two that overlapping syncs share.
Cleaned(name) == IF name = "a/b" THEN "a_b" ELSE name
Lowered(name) == IF name = "G" THEN "g" ELSE name
Inf(group, title) == [kind |-> "extinf", group |-> group, title |-> title]
Url(url) == [kind |-> "url", url |-> url]
Lines == {Inf("g", "t"), Inf("", "absent"), Inf("absent", "t"), Url("u"), Url("v"), [kind |-> "comment"]}
Source(lines, include, exclude) ==
  [allowed |-> TRUE, lines |-> lines, include |-> include, exclude |-> exclude]
Mixed ==
  <<Inf("g", "a/b"), Url("u"), Inf("h", "a_b"), Url("v"), Inf("g", "a_b"), Url("v"), Inf("g", "t")>>
Playable ==
  {[sources |-> <<Source(lines, {}, {})>>, syncs |-> {"p1"}] :
     lines \in UNION {[1 .. n -> Lines] : n \in 0 .. 4}}
  \cup {[sources |-> <<Source(Mixed, include, exclude)>>, syncs |-> Requests] :
     include \in {{}, {"G"}}, exclude \in {{}, {"g"}, {"h"}}}
  \cup {[sources |-> <<Source(<<Inf("G", "t"), Url("u")>>, {"g"}, {}),
                       [Source(<<>>, {}, {}) EXCEPT !.allowed = FALSE]>>, syncs |-> Requests]}

-----------------------------------------------------------------------------
(* The components.                                                           *)

U == INSTANCE Uplink WITH
  Requests <- Requests, Devices <- {"he", "sit"}, Forms <- LinkForms, MaxAddress <- 2, Envs <- LinkEnvs,
  cfg <- s1, wan <- s2, v6 <- s3, tun <- s4, six <- s5, mu <- s6, todo <- s7, at <- s8,
  env <- s9, calls <- s10, faults <- s11, over <- s12, failed <- s13, renamed <- s14, by <- s15

V == INSTANCE Vlans WITH
  Requests <- Requests, Ids <- {"a", "b", "c"}, Vids <- {10, 20}, Orders <- VlanOrders,
  SlaLens <- {0, 1, 2}, Envs <- VlanEnvs,
  vlans <- s1, map <- s2, slaLen <- s3, kernel <- s4, file <- s5, mu <- s6, todo <- s7,
  at <- s8, env <- s9, calls <- s10, faults <- s11, over <- s12, failed <- s13, moved <- s14

O == INSTANCE OpenVpn WITH
  Requests <- Requests, Names <- {"a", "b"}, Outbound <- {"o"}, Envs <- VpnEnvs,
  pki <- s1, serial <- s2, clients <- s3, disk <- s4, ccd <- s5, routes <- s6, unit <- s7,
  running <- s8, out <- s9, mu <- s10, todo <- s11, at <- s12, env <- s13, calls <- s14,
  faults <- s15, restarts <- s16, over <- s17, failed <- s18, again <- s19, reinit <- s20

Q == INSTANCE Qos WITH
  Requests <- Requests, Macs <- {1, 2}, Subscribers <- {"b1", "b2"}, MaxQoSClients <- 1,
  qosRingSize <- 2, BufferSize <- 2, ResyncEvery <- 2, Envs <- QosEnvs,
  cfg <- s1, tc <- s2, mu <- s3, todo <- s4, leases <- s5, table <- s6, exists <- s7,
  snap <- s8, prev <- s9, ring <- s10, usage <- s11, real <- s12, most <- s13, sampler <- s14,
  clients <- s15, chan <- s16, sending <- s17, sent <- s18, env <- s19, used <- s20,
  over <- s21, failed <- s22

S == INSTANCE Settings WITH
  Requests <- Requests, Names <- {"a", "b"}, Forms <- {"f", "g"}, MaxEntries <- 2, Envs <- SettingEnvs,
  mem <- s1, disk <- s2, file <- s3, live <- s4, mu <- s5, configMu <- s6, todo <- s7, at <- s8,
  env <- s9, calls <- s10, faults <- s11, restarts <- s12, disturbed <- s13, lost <- s14,
  count <- s15

A == INSTANCE Archive WITH
  Requests <- Requests, Configs <- {"c", "d"}, Keys <- {"k", "l"}, MaxDepth <- 2, Envs <- ArchiveEnvs,
  mem <- s1, files <- s2, tmp <- s3, now <- s4, got <- s5, todo <- s6, at <- s7, env <- s8,
  calls <- s9, faults <- s10, began <- s11, want <- s12

R == INSTANCE Limiter WITH
  Clients <- {"x"}, rate <- 1, burst <- 3, Period <- 3, MaxTime <- 12,
  now <- s1, ticker <- s2, clients <- s3, since <- s4, passed <- s5

P == INSTANCE Playlists WITH
  Syncs <- Requests, sanitizePath <- Cleaned, ToLower <- Lowered, MaxFaults <- 1, Envs <- Playable,
  env <- s1, files <- s2, running <- s3, report <- s4, pc <- s5, live <- s6, at <- s7,
  faults <- s8, skipped <- s9

\* The variables above the first n, and what they are when nobody keeps state there.
above20 == <<s21, s22>>
Off20 == s21 = "off" /\ s22 = "off"
above15 == <<s16, s17, s18, s19, s20, above20>>
Off15 == s16 = "off" /\ s17 = "off" /\ s18 = "off" /\ s19 = "off" /\ s20 = "off" /\ Off20
above14 == <<s15, above15>>
Off14 == s15 = "off" /\ Off15
above12 == <<s13, s14, above14>>
Off12 == s13 = "off" /\ s14 = "off" /\ Off14
above9 == <<s10, s11, s12, above12>>
Off9 == s10 = "off" /\ s11 = "off" /\ s12 = "off" /\ Off12
above5 == <<s6, s7, s8, s9, above9>>
Off5 == s6 = "off" /\ s7 = "off" /\ s8 = "off" /\ s9 = "off" /\ Off9
above0 == <<s1, s2, s3, s4, s5, above5>>
Off0 == s1 = "off" /\ s2 = "off" /\ s3 = "off" /\ s4 = "off" /\ s5 = "off" /\ Off5

MCInit ==
  /\ Init
  /\ \/ which = "agent" /\ Off0
     \/ which = "uplink" /\ U!Init /\ Off15
     \/ which = "vlans" /\ V!Init /\ Off14
     \/ which = "openvpn" /\ O!Init /\ Off20
     \/ which = "qos" /\ Q!Init
     \/ which = "settings" /\ S!Init /\ Off15
     \/ which = "archive" /\ A!Init /\ Off12
     \/ which = "limiter" /\ R!Init /\ Off5
     \/ which = "playlists" /\ P!Init /\ Off9

MCNext ==
  \/ which = "agent" /\ Next /\ UNCHANGED <<which, above0>>
  \/ which = "uplink" /\ U!Next /\ UNCHANGED <<which, vars, above15>>
  \/ which = "vlans" /\ V!Next /\ UNCHANGED <<which, vars, above14>>
  \/ which = "openvpn" /\ O!Next /\ UNCHANGED <<which, vars, above20>>
  \/ which = "qos" /\ Q!Next /\ UNCHANGED <<which, vars>>
  \/ which = "settings" /\ S!Next /\ UNCHANGED <<which, vars, above15>>
  \/ which = "archive" /\ A!Next /\ UNCHANGED <<which, vars, above12>>
  \/ which = "limiter" /\ R!Next /\ UNCHANGED <<which, vars, above5>>
  \/ which = "playlists" /\ P!Next /\ UNCHANGED <<which, vars, above9>>

MCSpec == MCInit /\ [][MCNext]_<<which, vars, above0>>

-----------------------------------------------------------------------------
(* The properties of the components, while they are awake.                   *)

\* IPv6: once all requests are answered nobody is left with the service's mutex,
\* and if none failed its files and daemons are those of the settings in memory.
PlaneFollowsConfig == which = "uplink" => U!PlaneFollowsConfig

\* 6in4: the service says that a tunnel runs only when a device is complete, and
\* no other device is left behind by requests that come one at a time.
TunnelHonest == which = "uplink" => U!TunnelHonest

\* VLANs: no two interfaces are given the same sub-prefix.
PrefixesDistinct == which = "vlans" => V!PrefixesDistinct

\* VLANs: the devices of the kernel and dhcp6c.conf are those of the list.
DevicesMatch == which = "vlans" => V!DevicesMatch

\* OpenVPN: a client shown as revoked is on the CRL, and those shown as enabled are
\* the ones whose profile can be had.
ListMatchesPki == which = "openvpn" => O!ListMatchesPki

\* QoS: the kernel shapes with the configured profile exactly when QoS is enabled.
ShapingMatches == which = "qos" => Q!ShapingMatches

\* QoS: no sample reports more for a client than it moved since the one before.
RateBounded == which = "qos" => Q!RateBounded

\* QoS: the broker never sends on a closed channel, and a subscriber whose buffer
\* was never full is handed every message in order.
StreamSafe == which = "qos" => Q!StreamSafe

\* Settings: a list whose edits were saved reads in router.yaml as in memory, and an
\* undisturbed page has its daemon run with it.
SavedIsCurrent == which = "settings" => S!SavedIsCurrent

\* Settings: no edit under a mutex undoes another that it overlapped.
NoEditUndone == which = "settings" => S!NoEditUndone

\* Export: a browser can open what it was sent, and finds a router.yaml that was
\* in force while its request ran.
ExportHonest == which = "archive" => A!ExportHonest

\* Rate limit: no window of time lets more through than the burst and the rate.
RateHeld == which = "limiter" => R!RateHeld

\* Playlists: the .strm files are those the operator asked for.
FilesAreWanted == which = "playlists" => P!FilesAreWanted
=============================================================================
