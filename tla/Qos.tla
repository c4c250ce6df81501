-------------------------------- MODULE Qos ---------------------------------
(***************************************************************************)
(* The QoS service: shaping (internal/services/qos.go, web/handlers/qos.go), *)
(* the sampler of per-client counters (qos_clients.go), and the broker that  *)
(* streams its samples to browsers (internal/web/sse.go).                   *)
(*                                                                          *)
(* The sampler is one goroutine; page requests and subscribers run beside   *)
(* it.  s.mu is held across every command of an Apply.                      *)
(***************************************************************************)
EXTENDS Integers, Sequences, FiniteSets

CONSTANTS
  Requests,       \* page requests that may be in progress at once
  Macs,           \* MAC addresses
  Subscribers,    \* browsers that follow the stream
  MaxQoSClients,  \* the code's 64
  qosRingSize,    \* the code's 60
  BufferSize,     \* the code's 16
  ResyncEvery,    \* the code's 30
  Envs            \* bounds, one set of which a behaviour has: what happens, and how
                  \* many ticks, packets, subscriptions, page requests and faults

VARIABLES
  cfg,       \* cfg.QoS: enabled, profile, rate
  tc,        \* the kernel's shaping: egress, ifb0 and the ingress redirect
  mu,        \* who holds s.mu across commands
  todo,      \* steps each page request has yet to do
  leases,    \* the dnsmasq lease file: a set of MACs
  table,     \* the lankeeper_qos table: bytes counted per MAC it has counters for
  exists,    \* is there a table?
  snap,      \* s.clientLeases
  prev,      \* s.lastCounters
  ring,      \* samples kept per MAC in s.history
  usage,     \* the bytes behind the rate that the last sample reported, per MAC
  real,      \* history: bytes a MAC really moved since the last sample
  most,      \* history: what `real` was for that sample
  sampler,   \* the goroutine: its step, its tick, what it has read
  clients,   \* b.clients: the channels the broker sends to
  chan,      \* per subscriber: its channel and what it has got
  sending,   \* channels the Publish in progress has yet to try; it holds the RLock
  sent,      \* messages published
  env, used, \* the bounds, and what has been used of each
  over, failed   \* history: page requests overlapped; a step of one failed

shaping == <<cfg, tc, mu, todo, over, failed>>
sampling == <<leases, table, exists, snap, prev, ring, usage, real, most, sampler>>
broker == <<clients, chan, sending, sent>>
vars == <<shaping, sampling, broker, env, used>>

Nobody == "nobody"
NoShaping == [egress |-> "none", rate |-> 0, ifb |-> "none", redirect |-> FALSE]
Closed == [st |-> "closed", queue |-> <<>>, from |-> 0, got |-> 0, lost |-> FALSE]
Nothing == [step |-> "start", tick |-> 0, leases |-> {}, count |-> <<>>, seen |-> <<>>]

Use(what) == used[what] < env[what] /\ used' = [used EXCEPT ![what] = @ + 1]

Init ==
  /\ env \in Envs
  /\ used = [ticks |-> 0, packets |-> 0, subs |-> 0, calls |-> 0, faults |-> 0, leases |-> 0, applies |-> 0]
  /\ cfg \in [enabled : {FALSE}, profile : env.profiles, rate : {1}]
  /\ tc = NoShaping
  /\ mu = Nobody
  /\ todo = [p \in Requests |-> <<>>]
  /\ over = FALSE /\ failed = FALSE
  /\ leases \in {env.leased}
  /\ table = <<>> /\ exists = FALSE
  /\ snap = {} /\ prev = <<>> /\ ring = <<>> /\ usage = <<>>
  /\ real = [m \in Macs |-> 0] /\ most = real
  /\ sampler = Nothing
  /\ clients = {} /\ sending = {} /\ sent = 0
  /\ chan = [c \in Subscribers |-> Closed]

----------------------------------------------------------------------------
(* Shaping *)

Idle == \A p \in Requests : todo[p] = <<>>

\* Mutant: only the shaping of the uplink is cleared.
clearEgress == <<"delEgress">>

clear == <<"delEgress", "delIfb">>
Apply == <<"save", "lock">> \o clear \o <<"profile">>
applyCake == <<"cc", "cake", "ifbUp", "redirect", "ifbQdisc", "unlock">>
applyFqCodel == <<"cc", "fq_codel", "unlock">>
Clear == <<"lock">> \o clear \o <<"unlock", "disable", "save">>

\* A form that fails a check after the profile's leaves the profile edited.
HandleApply(p, form) ==
  /\ todo[p] = <<>>
  /\ Use("calls")
  /\ LET named == IF form.profile = "" THEN cfg.profile ELSE form.profile IN
     IF form.valid
     THEN /\ cfg' = [enabled |-> form.enabled, profile |-> named, rate |-> form.rate]
          /\ todo' = [todo EXCEPT ![p] = Apply]
          /\ UNCHANGED failed
     ELSE /\ cfg' = [cfg EXCEPT !.profile = named]
          /\ failed' = TRUE
          /\ UNCHANGED todo
  /\ over' = (over \/ ~Idle)
  /\ UNCHANGED <<tc, mu, sampling, broker, env>>

HandleClear(p) ==
  /\ todo[p] = <<>>
  /\ Use("calls")
  /\ todo' = [todo EXCEPT ![p] = Clear]
  /\ over' = (over \/ ~Idle)
  /\ UNCHANGED <<cfg, tc, mu, failed, sampling, broker, env>>

Next1(p, step) ==
  /\ todo[p] # <<>>
  /\ Head(todo[p]) = step

Done(p) == todo' = [todo EXCEPT ![p] = Tail(@)]

Return(p) ==
  /\ todo' = [todo EXCEPT ![p] = <<>>]
  /\ mu' = IF mu = p THEN Nobody ELSE mu

\* A command that changes what the kernel does.
Command(p, step, new) ==
  /\ Next1(p, step)
  /\ tc' = new
  /\ Done(p)
  /\ UNCHANGED <<cfg, mu, over, failed, sampling, broker, env, used>>

\* The ingress qdisc and its filter outlive clear: only the root qdisc goes.
Commands(p) ==
  \/ Command(p, "delEgress", [tc EXCEPT !.egress = "none", !.rate = 0])
  \/ Command(p, "delIfb", [tc EXCEPT !.ifb = "none"])
  \/ Command(p, "cc", tc)
  \/ Command(p, "cake", [tc EXCEPT !.egress = "cake", !.rate = cfg.rate])
  \/ Command(p, "fq_codel", [tc EXCEPT !.egress = "fq_codel"])
  \/ Command(p, "ifbUp", [tc EXCEPT !.ifb = "up"])
  \/ Command(p, "redirect", [tc EXCEPT !.redirect = TRUE])
  \/ Command(p, "ifbQdisc", [tc EXCEPT !.ifb = "shaped"])

\* The profile is looked up only after the old shaping is gone.
SelectProfile(p) ==
  /\ Next1(p, "profile")
  /\ IF ~cfg.enabled \/ cfg.profile = "none"
     THEN Return(p) /\ UNCHANGED failed
     ELSE IF cfg.profile \notin {"cake", "fq_codel"}
          THEN Return(p) /\ failed' = TRUE
          ELSE /\ todo' = [todo EXCEPT ![p] = IF cfg.profile = "cake" THEN applyCake ELSE applyFqCodel]
               /\ UNCHANGED <<mu, failed>>
  /\ UNCHANGED <<cfg, tc, over, sampling, broker, env, used>>

Lock(p) ==
  /\ Next1(p, "lock") /\ mu = Nobody
  /\ mu' = p
  /\ Done(p)
  /\ UNCHANGED <<cfg, tc, over, failed, sampling, broker, env, used>>

Unlock(p) ==
  /\ Next1(p, "unlock")
  /\ mu' = Nobody
  /\ Done(p)
  /\ UNCHANGED <<cfg, tc, over, failed, sampling, broker, env, used>>

SaveToFile(p) ==
  /\ Next1(p, "save")
  /\ Done(p)
  /\ UNCHANGED <<cfg, tc, mu, over, failed, sampling, broker, env, used>>

\* HandleClear notes that shaping is off after the kernel has been cleared.
Disable(p) ==
  /\ Next1(p, "disable")
  /\ cfg' = [cfg EXCEPT !.enabled = FALSE]
  /\ Done(p)
  /\ UNCHANGED <<tc, mu, over, failed, sampling, broker, env, used>>

\* A command fails: clear ignores that, the others return the error.
CommandFails(p) ==
  /\ Use("faults")
  /\ todo[p] # <<>>
  /\ \/ Head(todo[p]) \in {"delEgress", "delIfb"} /\ Done(p) /\ UNCHANGED mu
     \/ Head(todo[p]) \in {"save", "cc", "cake", "fq_codel", "ifbUp", "redirect", "ifbQdisc"} /\ Return(p)
  /\ failed' = TRUE
  /\ UNCHANGED <<cfg, tc, over, sampling, broker, env>>

----------------------------------------------------------------------------
(* The sampler *)

\* Mutant: the difference of unsigned counters, which wraps (at 2^16 here).
bpsDeltaWraps(curr, before) == (curr - before) % 2^16

\* bytes, not bits per second: a counter that went down was reset.
bpsDelta(curr, before) == IF curr < before THEN 0 ELSE curr - before

\* The lowest MaxQoSClients addresses, in their order.
dedupAndCap(macs) == {m \in macs : Cardinality({k \in macs : k < m}) < MaxQoSClients}

Bytes(counters, m) == IF m \in DOMAIN counters THEN counters[m] ELSE 0

Tick ==
  /\ sampler.step = "wait"
  /\ Use("ticks")
  /\ sampler' = [sampler EXCEPT !.tick = (@ + 1) % ResyncEvery,
                                !.step = IF (sampler.tick + 1) % ResyncEvery = 0 THEN "start" ELSE "list"]
  /\ UNCHANGED <<leases, table, exists, snap, prev, ring, usage, real, most, shaping, broker, env>>

\* leaseProvider; an error skips the rebuild.
ReadLeases ==
  /\ sampler.step = "start"
  /\ \/ sampler' = [sampler EXCEPT !.leases = leases, !.step = "rebuild"] /\ UNCHANGED used
     \/ sampler' = [sampler EXCEPT !.step = "rebuilt"] /\ Use("faults")
  /\ UNCHANGED <<leases, table, exists, snap, prev, ring, usage, real, most, shaping, broker, env>>

\* The table is replaced in one transaction, its counters at zero; an empty
\* snapshot deletes it.  When the write or the transaction fails, nothing changes.
RebuildClientCounters ==
  /\ sampler.step = "rebuild" /\ mu = Nobody
  /\ \/ /\ table' = [m \in dedupAndCap(sampler.leases) |-> 0]
        /\ exists' = (sampler.leases # {})
        /\ snap' = sampler.leases
        /\ UNCHANGED used
     \/ Use("faults") /\ UNCHANGED <<table, exists, snap>>
  /\ sampler' = [sampler EXCEPT !.leases = {}, !.step = "rebuilt"]
  /\ UNCHANGED <<leases, prev, ring, usage, real, most, shaping, broker, env>>

\* The initial rebuild is followed by the wait, a periodic one by the sample.
Rebuilt ==
  /\ sampler.step = "rebuilt"
  /\ sampler' = [sampler EXCEPT !.step = IF used.ticks = 0 THEN "wait" ELSE "list"]
  /\ UNCHANGED <<leases, table, exists, snap, prev, ring, usage, real, most, shaping, broker, env, used>>

\* `nft -j list table`: without a table there is an empty sample, not an error.
ListTable ==
  /\ sampler.step = "list"
  /\ \/ /\ exists
        /\ sampler' = [sampler EXCEPT !.step = "fold", !.count = table, !.seen = real]
        /\ UNCHANGED <<usage, most, used>>
     \/ /\ ~exists
        /\ sampler' = [sampler EXCEPT !.step = "publish"]
        /\ usage' = <<>>
        /\ UNCHANGED <<most, used>>
     \/ Use("faults") /\ sampler' = [sampler EXCEPT !.step = "wait"] /\ UNCHANGED <<usage, most>>
  /\ UNCHANGED <<leases, table, exists, snap, prev, ring, real, shaping, broker, env>>

\* The rest of SamplePerClient, under s.mu, and appendHistoryLocked.
SamplePerClient ==
  /\ sampler.step = "fold" /\ mu = Nobody
  /\ usage' = [m \in snap |-> IF m \in DOMAIN prev
                              THEN bpsDelta(Bytes(sampler.count, m), prev[m]) ELSE 0]
  /\ prev' = [m \in snap |-> Bytes(sampler.count, m)]
  /\ ring' = [m \in snap |-> IF Bytes(ring, m) >= qosRingSize THEN qosRingSize ELSE Bytes(ring, m) + 1]
  /\ most' = sampler.seen
  /\ real' = [m \in Macs |-> real[m] - sampler.seen[m]]
  /\ sampler' = [sampler EXCEPT !.step = "publish", !.count = <<>>, !.seen = <<>>]
  /\ UNCHANGED <<leases, table, exists, snap, shaping, broker, env, used>>

\* A packet of a client, counted if the table has a counter for it.
Packet(m) ==
  /\ Use("packets")
  /\ real' = [real EXCEPT ![m] = @ + 1]
  /\ table' = IF m \in DOMAIN table THEN [table EXCEPT ![m] = @ + 1] ELSE table
  /\ UNCHANGED <<leases, exists, snap, prev, ring, usage, most, sampler, shaping, broker, env>>

LeaseChange ==
  /\ Use("leases")
  /\ leases' \in SUBSET Macs
  /\ UNCHANGED <<table, exists, snap, prev, ring, usage, real, most, sampler, shaping, broker, env>>

\* The firewall's ruleset begins with `flush ruleset`, which removes every table.
FirewallApplied ==
  /\ Use("applies")
  /\ table' = <<>> /\ exists' = FALSE
  /\ UNCHANGED <<leases, snap, prev, ring, usage, real, most, sampler, shaping, broker, env>>

----------------------------------------------------------------------------
(* The broker *)

Publish ==
  /\ sampler.step = "publish"
  /\ sent' = sent + 1
  /\ sending' = clients
  /\ sampler' = [sampler EXCEPT !.step = "sending"]
  /\ UNCHANGED <<leases, table, exists, snap, prev, ring, usage, real, most, clients, chan,
                 shaping, env, used>>

\* `select { case ch <- msg: default: }`
Send(c) ==
  /\ sampler.step = "sending" /\ c \in sending
  /\ sending' = sending \ {c}
  /\ chan' = [chan EXCEPT ![c] = IF Len(@.queue) < BufferSize
                                 THEN [@ EXCEPT !.queue = Append(chan[c].queue, sent)]
                                 ELSE [@ EXCEPT !.lost = TRUE]]
  /\ UNCHANGED <<sampling, clients, sent, shaping, env, used>>

Published ==
  /\ sampler.step = "sending" /\ sending = {}
  /\ sampler' = [sampler EXCEPT !.step = "wait"]
  /\ UNCHANGED <<leases, table, exists, snap, prev, ring, usage, real, most, broker, shaping, env, used>>

\* A writer of b.mu waits for the Publish that holds it.
Writable == sampler.step # "sending"

Subscribe(c) ==
  /\ chan[c].st = "closed" /\ Writable
  /\ Use("subs")
  /\ clients' = clients \cup {c}
  /\ chan' = [chan EXCEPT ![c] = [Closed EXCEPT !.st = "open", !.from = sent, !.got = sent]]
  /\ UNCHANGED <<sampling, sending, sent, shaping, env>>

Receive(c) ==
  /\ chan[c].st = "open" /\ chan[c].queue # <<>>
  /\ chan' = [chan EXCEPT ![c].queue = Tail(@), ![c].got = Head(chan[c].queue)]
  /\ UNCHANGED <<sampling, clients, sending, sent, shaping, env, used>>

\* Mutant: the mutex of the broker is not waited for.
UnsubscribeUnlocked(c) ==
  /\ chan[c].st = "open"
  /\ clients' = clients \ {c}
  /\ chan' = [chan EXCEPT ![c].st = "closing"]
  /\ UNCHANGED <<sampling, sending, sent, shaping, env, used>>

\* The browser goes away: ServeHTTP returns and Unsubscribe runs, in two steps.
Unsubscribe(c) ==
  /\ chan[c].st = "open" /\ Writable
  /\ clients' = clients \ {c}
  /\ chan' = [chan EXCEPT ![c].st = "closing"]
  /\ UNCHANGED <<sampling, sending, sent, shaping, env, used>>

Close(c) ==
  /\ chan[c].st = "closing"
  /\ chan' = [chan EXCEPT ![c] = Closed]
  /\ UNCHANGED <<sampling, clients, sending, sent, shaping, env, used>>

----------------------------------------------------------------------------
Next ==
  \/ \E p \in Requests :
       \/ \E form \in env.forms : HandleApply(p, form)
       \/ HandleClear(p) \/ Commands(p) \/ SelectProfile(p) \/ Lock(p) \/ Unlock(p)
       \/ SaveToFile(p) \/ Disable(p) \/ CommandFails(p)
  \/ Tick \/ ReadLeases \/ RebuildClientCounters \/ Rebuilt \/ ListTable \/ SamplePerClient
  \/ \E m \in Macs : Packet(m)
  \/ LeaseChange \/ FirewallApplied
  \/ Publish \/ Published
  \/ \E c \in Subscribers : Send(c) \/ Subscribe(c) \/ Receive(c) \/ Unsubscribe(c) \/ Close(c)

Spec == Init /\ [][Next]_vars

----------------------------------------------------------------------------
(* Properties *)

TypeOK ==
  /\ cfg.enabled \in BOOLEAN
  /\ tc \in [egress : {"none", "cake", "fq_codel"}, rate : 0 .. 2, ifb : {"none", "up", "shaped"},
             redirect : BOOLEAN]
  /\ mu \in Requests \cup {Nobody}
  /\ snap \subseteq Macs /\ DOMAIN table \subseteq Macs /\ Cardinality(DOMAIN table) <= MaxQoSClients
  /\ \A m \in DOMAIN ring : ring[m] \in 1 .. qosRingSize
  /\ clients \subseteq Subscribers
  /\ \A c \in Subscribers : Len(chan[c].queue) <= BufferSize

\* When page requests did not overlap and none failed, the kernel shapes with the
\* configured profile and rate if and only if QoS is enabled.
ShapingMatches ==
  Idle /\ ~over /\ ~failed =>
    IF cfg.enabled
    THEN /\ tc.egress = cfg.profile
         /\ cfg.profile = "cake" => tc.rate = cfg.rate /\ tc.ifb = "shaped" /\ tc.redirect
         /\ cfg.profile # "cake" => tc.ifb = "none"
    ELSE tc.egress = "none" /\ tc.ifb = "none"

\* No sample reports more for a client than it moved since the sample before:
\* counters that restart at every resync, clients that come, go or fall outside the
\* cap, and samples that fail never look like traffic.
RateBounded == \A m \in DOMAIN usage : usage[m] <= most[m]

\* Publish never sends on a closed channel, which would panic; and a subscriber
\* whose buffer was never full has been handed every message since it subscribed,
\* in order.
StreamSafe ==
  /\ \A c \in sending : chan[c].st # "closed"
  /\ \A c \in clients \ sending :
       ~chan[c].lost => chan[c].queue = [i \in 1 .. sent - chan[c].got |-> chan[c].got + i]
=============================================================================
