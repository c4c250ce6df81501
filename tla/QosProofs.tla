------------------------------ MODULE QosProofs ------------------------------
(* What Qos promises for any clients, subscribers, page requests, limits and bounds: no
   sample invents traffic, the stream loses nothing that there was room for and sends on
   no closed channel, and the kernel shapes as configured. *)
EXTENDS Qos, SequenceTheorems, TLAPS

\* Byte counts of some of the MAC addresses.
Counts == UNION {[S -> Nat] : S \in SUBSET Macs}

Sampler == [step : {"start", "rebuild", "rebuilt", "wait", "list", "fold", "publish", "sending"},
            tick : Nat, leases : SUBSET Macs, count : Counts, seen : Counts]

\* The counters of the kernel, of the last sample and of the one in the making.
DataInv ==
  /\ leases \subseteq Macs /\ snap \subseteq Macs
  /\ table \in Counts /\ prev \in Counts /\ real \in [Macs -> Nat]
  /\ sampler \in Sampler

\* A counter of the table has counted nothing but what its client moved since the last
\* sample, beyond what that sample saw; so has the listing that a sample holds, for the
\* bytes moved when it was made.
RateInv ==
  /\ \A m \in DOMAIN table \cap DOMAIN prev : table[m] <= prev[m] + real[m]
  /\ sampler.step = "fold" =>
       /\ sampler.seen \in [Macs -> Nat]
       /\ \A m \in Macs : sampler.seen[m] <= real[m]
       /\ \A m \in DOMAIN sampler.count \cap DOMAIN prev :
            sampler.count[m] <= prev[m] + sampler.seen[m]
       /\ \A m \in DOMAIN table :
            table[m] <= Bytes(sampler.count, m) + (real[m] - sampler.seen[m])
  /\ RateBounded

\* A channel, and the last message that Publish has offered it: all but the one that is
\* being published, for those it has yet to try.
Channel == [st : {"closed", "open", "closing"}, queue : Seq(Nat), from : Nat, got : Nat, lost : BOOLEAN]
Offered(c) == IF c \in sending THEN sent - 1 ELSE sent

\* What a channel that was never full holds, when messages up to the n-th were offered.
Full(o, n) == ~o.lost => o.got <= n /\ o.queue = [i \in 1 .. n - o.got |-> o.got + i]

\* Publish tries open channels only, and a channel that was never full holds what was
\* offered and not received, in order.
StreamInv ==
  /\ sent \in Nat /\ chan \in [Subscribers -> Channel]
  /\ clients \subseteq Subscribers /\ sending \subseteq clients
  /\ sending # {} => sampler.step = "sending"
  /\ \A c \in clients : chan[c].st = "open" /\ Full(chan[c], Offered(c))

\* The configuration, the kernel's shaping and the steps of the page requests.
Profiles == UNION {e.profiles \cup {f.profile : f \in e.forms} : e \in Envs}
Rates == {0, 1} \cup UNION {{f.rate : f \in e.forms} : e \in Envs}
ShapeData ==
  /\ env \in Envs
  /\ cfg \in [enabled : BOOLEAN, profile : Profiles, rate : Rates]
  /\ tc \in [egress : {"none", "cake", "fq_codel"}, rate : Rates, ifb : {"none", "up", "shaped"},
             redirect : BOOLEAN]
  /\ DOMAIN todo = Requests
  /\ over \in BOOLEAN /\ failed \in BOOLEAN

\* The kernel t shapes nothing, or what the configuration c says.
Bare(t) == t.egress = "none" /\ t.ifb = "none"
Wants(c, profile) == c.enabled /\ c.profile = profile
Matches(c, t) ==
  IF c.enabled
  THEN /\ t.egress = c.profile
       /\ c.profile = "cake" => t.rate = c.rate /\ t.ifb = "shaped" /\ t.redirect
       /\ c.profile # "cake" => t.ifb = "none"
  ELSE Bare(t)
Caked(c, t) == Wants(c, "cake") /\ t.egress = "cake" /\ t.rate = c.rate

\* What holds of both when a request has these steps to do.
Stage(steps, c, t) ==
  \/ steps \in {<<"save", "lock", "delEgress", "delIfb", "profile">>,
                <<"lock", "delEgress", "delIfb", "profile">>,
                <<"delEgress", "delIfb", "profile">>,
                <<"lock", "delEgress", "delIfb", "unlock", "disable", "save">>,
                <<"delEgress", "delIfb", "unlock", "disable", "save">>}
  \/ /\ steps \in {<<"delIfb", "profile">>, <<"delIfb", "unlock", "disable", "save">>}
     /\ t.egress = "none"
  \/ /\ steps \in {<<"profile">>, <<"unlock", "disable", "save">>, <<"disable", "save">>}
     /\ Bare(t)
  \/ /\ steps \in {<<"cc", "cake", "ifbUp", "redirect", "ifbQdisc", "unlock">>,
                   <<"cake", "ifbUp", "redirect", "ifbQdisc", "unlock">>}
     /\ Wants(c, "cake") /\ Bare(t)
  \/ /\ steps \in {<<"ifbUp", "redirect", "ifbQdisc", "unlock">>,
                   <<"redirect", "ifbQdisc", "unlock">>}
     /\ Caked(c, t)
  \/ steps = <<"ifbQdisc", "unlock">> /\ Caked(c, t) /\ t.redirect
  \/ /\ steps \in {<<"cc", "fq_codel", "unlock">>, <<"fq_codel", "unlock">>}
     /\ Wants(c, "fq_codel") /\ Bare(t)
  \/ steps \in {<<"unlock">>, <<"save">>, <<>>} /\ Matches(c, t)

\* Of page requests that did not overlap one at most is under way, and the kernel is where
\* its steps have brought it.
ShapeInv ==
  ~over /\ ~failed =>
    /\ \A p, q \in Requests : todo[p] # <<>> /\ todo[q] # <<>> => p = q
    /\ \A p \in Requests : todo[p] # <<>> => Stage(todo[p], cfg, tc)
    /\ Idle => Matches(cfg, tc)

-----------------------------------------------------------------------------
\* What a count is.
LEMMA CountsAre ==
  /\ \A f \in Counts : DOMAIN f \subseteq Macs /\ \A m \in DOMAIN f : f[m] \in Nat
  /\ \A f \in Counts : \A m : Bytes(f, m) \in Nat
  /\ \A S \in SUBSET Macs : \A f \in [S -> Nat] : f \in Counts
  /\ <<>> \in Counts /\ DOMAIN <<>> = {}
<1>1. \A f \in Counts : DOMAIN f \subseteq Macs /\ \A m \in DOMAIN f : f[m] \in Nat
  BY DEF Counts
<1>2. \A S \in SUBSET Macs : \A f \in [S -> Nat] : f \in Counts
  BY DEF Counts
<1>3. <<>> \in [{} -> Nat] /\ {} \in SUBSET Macs
  OBVIOUS
<1>4. QED
  BY Zenon, <1>1, <1>2, <1>3 DEF Bytes

\* The steps of the page requests and of the broker leave the counters alone.
LEMMA SamplingSteps ==
  ASSUME [Next]_vars
  PROVE  \/ Tick \/ ReadLeases \/ RebuildClientCounters \/ Rebuilt \/ ListTable \/ SamplePerClient
         \/ (\E m \in Macs : Packet(m))
         \/ LeaseChange \/ FirewallApplied \/ Publish \/ Published
         \/ UNCHANGED sampling
<1>1. ASSUME NEW p \in Requests, Commands(p) PROVE UNCHANGED sampling
  BY <1>1 DEF Commands, Command
<1>2. ASSUME NEW p \in Requests,
             \/ \E form \in env.forms : HandleApply(p, form)
             \/ HandleClear(p) \/ SelectProfile(p) \/ Lock(p) \/ Unlock(p)
             \/ SaveToFile(p) \/ Disable(p) \/ CommandFails(p)
      PROVE  UNCHANGED sampling
  BY Zenon, <1>2 DEF HandleApply, HandleClear, SelectProfile, Lock, Unlock, SaveToFile, Disable, CommandFails
<1>3. ASSUME NEW c \in Subscribers, Send(c) \/ Subscribe(c) \/ Receive(c) \/ Unsubscribe(c) \/ Close(c)
      PROVE  UNCHANGED sampling
  BY <1>3 DEF Send, Subscribe, Receive, Unsubscribe, Close
<1>4. UNCHANGED vars => UNCHANGED sampling
  BY DEF vars
<1>5. QED
  BY <1>1, <1>2, <1>3, <1>4 DEF Next

\* The counters stay counters.
LEMMA DataStep ==
  ASSUME ResyncEvery \in Nat \ {0}, DataInv, RateInv, [Next]_vars
  PROVE  DataInv'
<1>0. /\ leases \subseteq Macs /\ snap \subseteq Macs /\ table \in Counts /\ prev \in Counts
      /\ real \in [Macs -> Nat] /\ sampler \in Sampler
  BY DEF DataInv
<1>1. CASE Tick
  <2>1. sampler.tick \in Nat /\ (sampler.tick + 1) % ResyncEvery \in Nat
    BY <1>0 DEF Sampler
  <2>2. PICK st \in {"start", "list"} :
          sampler' = [sampler EXCEPT !.tick = (sampler.tick + 1) % ResyncEvery, !.step = st]
    BY Zenon, <1>1 DEF Tick
  <2>3. sampler' \in Sampler
    BY Zenon, <1>0, <2>1, <2>2 DEF Sampler
  <2>4. QED
    BY <1>0, <1>1, <2>3 DEF Tick, DataInv
<1>2. CASE ReadLeases
  <2>1. sampler' \in Sampler
    BY Zenon, <1>0, <1>2 DEF ReadLeases, Sampler
  <2>2. QED
    BY <1>0, <1>2, <2>1 DEF ReadLeases, DataInv
<1>3. CASE RebuildClientCounters
  <2>1. sampler' \in Sampler
    BY Zenon, <1>0, <1>3 DEF RebuildClientCounters, Sampler
  <2>2. sampler.leases \subseteq Macs
    BY <1>0 DEF Sampler
  <2>3. [m \in dedupAndCap(sampler.leases) |-> 0] \in Counts
    <3>1. dedupAndCap(sampler.leases) \in SUBSET Macs
      BY <2>2 DEF dedupAndCap
    <3>2. [m \in dedupAndCap(sampler.leases) |-> 0] \in [dedupAndCap(sampler.leases) -> Nat]
      OBVIOUS
    <3>3. QED
      BY <3>1, <3>2, CountsAre
  <2>4. table' \in Counts /\ snap' \subseteq Macs
    BY <1>0, <1>3, <2>2, <2>3 DEF RebuildClientCounters
  <2>5. QED
    BY <1>0, <1>3, <2>1, <2>4 DEF RebuildClientCounters, DataInv
<1>4. CASE Rebuilt
  <2>1. sampler' \in Sampler
    BY <1>0, <1>4 DEF Rebuilt, Sampler
  <2>2. QED
    BY <1>0, <1>4, <2>1 DEF Rebuilt, DataInv
<1>5. CASE ListTable
  <2>0. real \in Counts
    BY <1>0, CountsAre
  <2>1. sampler' \in Sampler
    BY Zenon, <1>0, <1>5, <2>0 DEF ListTable, Sampler
  <2>2. QED
    BY <1>0, <1>5, <2>1 DEF ListTable, DataInv
<1>6. CASE SamplePerClient
  <2>1. sampler' \in Sampler
    BY Zenon, <1>0, <1>6, CountsAre DEF SamplePerClient, Sampler
  <2>2. prev' \in Counts
    <3>1. sampler.count \in Counts
      BY <1>0 DEF Sampler
    <3>2. [m \in snap |-> Bytes(sampler.count, m)] \in [snap -> Nat]
      BY <3>1, CountsAre
    <3>3. QED
      BY Zenon, <1>0, <1>6, <3>2, CountsAre DEF SamplePerClient
  <2>3. real' \in [Macs -> Nat]
    <3>1. sampler.seen \in [Macs -> Nat] /\ \A m \in Macs : sampler.seen[m] <= real[m]
      BY <1>6 DEF SamplePerClient, RateInv
    <3>2. \A m \in Macs : real[m] - sampler.seen[m] \in Nat
      BY <1>0, <3>1
    <3>3. QED
      BY <1>6, <3>2 DEF SamplePerClient
  <2>4. QED
    BY <1>0, <1>6, <2>1, <2>2, <2>3 DEF SamplePerClient, DataInv
<1>7. CASE \E m \in Macs : Packet(m)
  <2>1. PICK m \in Macs : Packet(m)
    BY <1>7
  <2>2. real' \in [Macs -> Nat]
    BY <1>0, <2>1 DEF Packet
  <2>3. table' \in Counts
    <3>1. PICK S \in SUBSET Macs : table \in [S -> Nat]
      BY <1>0 DEF Counts
    <3>2. table' \in [S -> Nat]
      BY <2>1, <3>1 DEF Packet
    <3>3. QED
      BY <3>2, CountsAre
  <2>4. QED
    BY <1>0, <2>1, <2>2, <2>3 DEF Packet, DataInv
<1>8. CASE LeaseChange
  BY <1>0, <1>8 DEF LeaseChange, DataInv
<1>9. CASE FirewallApplied
  BY <1>0, <1>9, CountsAre DEF FirewallApplied, DataInv
<1>10. CASE Publish \/ Published
  <2>1. sampler' \in Sampler
    BY <1>0, <1>10 DEF Publish, Published, Sampler
  <2>2. QED
    BY <1>0, <1>10, <2>1 DEF Publish, Published, DataInv
<1>11. CASE UNCHANGED sampling
  BY <1>0, <1>11 DEF sampling, DataInv
<1>12. QED
  BY <1>1, <1>2, <1>3, <1>4, <1>5, <1>6, <1>7, <1>8, <1>9, <1>10, <1>11, SamplingSteps

\* bpsDelta reports no more than was moved: not across a reset, nor for a client that the
\* listing lacks.
LEMMA DeltaBounded ==
  ASSUME NEW curr \in Nat, NEW before \in Nat, NEW moved \in Nat, curr <= before + moved
  PROVE  bpsDelta(curr, before) <= moved
BY DEF bpsDelta

\* No step of the sampler, no packet and no replaced table breaks the bound.
LEMMA RateStep ==
  ASSUME DataInv, RateInv, [Next]_vars
  PROVE  RateInv'
<1>0. /\ snap \subseteq Macs /\ table \in Counts /\ prev \in Counts
      /\ real \in [Macs -> Nat] /\ sampler \in Sampler
  BY DEF DataInv
<1>a. /\ DOMAIN table \subseteq Macs /\ \A m \in DOMAIN table : table[m] \in Nat
      /\ DOMAIN prev \subseteq Macs /\ \A m \in DOMAIN prev : prev[m] \in Nat
      /\ \A m \in Macs : real[m] \in Nat
  BY <1>0, CountsAre
<1>1. CASE Tick \/ ReadLeases \/ Rebuilt \/ Publish \/ Published
  <2>1. sampler'.step # "fold"
    BY Zenon, <1>0, <1>1 DEF Tick, ReadLeases, Rebuilt, Publish, Published, Sampler
  <2>2. UNCHANGED <<table, prev, real, usage, most>>
    BY <1>1 DEF Tick, ReadLeases, Rebuilt, Publish, Published
  <2>3. QED
    BY <2>1, <2>2 DEF RateInv, RateBounded
<1>2. CASE RebuildClientCounters
  <2>1. sampler'.step # "fold" /\ UNCHANGED <<prev, real, usage, most>>
    BY <1>0, <1>2 DEF RebuildClientCounters, Sampler
  <2>2. \A m \in DOMAIN table' \cap DOMAIN prev : table'[m] <= prev[m] + real[m]
    <3>1. CASE table' = [m \in dedupAndCap(sampler.leases) |-> 0]
      <4>1. \A m \in DOMAIN table' : table'[m] = 0
        BY <3>1
      <4>2. \A m \in DOMAIN prev : 0 <= prev[m] + real[m]
        BY <1>a
      <4>3. QED
        BY <4>1, <4>2
    <3>2. CASE table' = table
      BY <3>2 DEF RateInv
    <3>3. QED
      BY <1>2, <3>1, <3>2 DEF RebuildClientCounters
  <2>3. QED
    BY <2>1, <2>2 DEF RateInv, RateBounded
<1>3. CASE ListTable
  <2>1. UNCHANGED <<table, prev, real>>
    BY <1>3 DEF ListTable
  <2>2. RateBounded'
    <3>1. CASE usage' = <<>>
      BY <3>1, CountsAre DEF RateBounded
    <3>2. CASE UNCHANGED <<usage, most>>
      BY <3>2 DEF RateBounded, RateInv
    <3>3. QED
      BY <1>3, <3>1, <3>2 DEF ListTable
  <2>3. CASE sampler'.step = "fold"
    <3>1. sampler'.count = table /\ sampler'.seen = real
      BY Zenon, <1>0, <1>3, <2>3 DEF ListTable, Sampler
    <3>2. \A m \in Macs : real[m] <= real[m]
      BY <1>a
    <3>3. \A m \in DOMAIN table : table[m] <= Bytes(table, m) + (real[m] - real[m])
      BY <1>a DEF Bytes
    <3>4. QED
      BY <1>0, <2>1, <2>2, <3>1, <3>2, <3>3 DEF RateInv, Bytes
  <2>4. CASE sampler'.step # "fold"
    BY <2>1, <2>2, <2>4 DEF RateInv
  <2>5. QED
    BY <2>3, <2>4
<1>4. CASE SamplePerClient
  <2> DEFINE count == sampler.count
             seen == sampler.seen
  <2>1. /\ sampler.step = "fold" /\ UNCHANGED table
        /\ usage' = [m \in snap |-> IF m \in DOMAIN prev THEN bpsDelta(Bytes(count, m), prev[m]) ELSE 0]
        /\ prev' = [m \in snap |-> Bytes(count, m)]
        /\ most' = seen
        /\ real' = [m \in Macs |-> real[m] - seen[m]]
    BY <1>4 DEF SamplePerClient
  <2>2. sampler'.step # "fold"
    BY <1>0, <1>4 DEF SamplePerClient, Sampler
  <2>3. /\ seen \in [Macs -> Nat]
        /\ \A m \in DOMAIN count \cap DOMAIN prev : count[m] <= prev[m] + seen[m]
        /\ \A m \in DOMAIN table : table[m] <= Bytes(count, m) + (real[m] - seen[m])
    BY <2>1 DEF RateInv
  <2>4. count \in Counts /\ \A m : Bytes(count, m) \in Nat
    BY <1>0, CountsAre DEF Sampler
  <2> HIDE DEF count, seen
  <2>5. \A m \in DOMAIN table \cap DOMAIN prev' : table[m] <= prev'[m] + real'[m]
    BY <1>0, <1>a, <2>1, <2>3
  <2>6. ASSUME NEW m \in snap PROVE usage'[m] <= seen[m]
    <3>1. m \in Macs /\ seen[m] \in Nat
      BY <1>0, <2>3
    <3>2. CASE m \in DOMAIN prev
      <4>1. prev[m] \in Nat /\ Bytes(count, m) \in Nat
        BY <1>a, <2>4, <3>2
      <4>2. Bytes(count, m) <= prev[m] + seen[m]
        BY <2>3, <3>1, <3>2, <4>1 DEF Bytes
      <4>3. bpsDelta(Bytes(count, m), prev[m]) <= seen[m]
        BY <3>1, <4>1, <4>2, DeltaBounded
      <4>4. QED
        BY <2>1, <3>2, <4>3
    <3>3. CASE m \notin DOMAIN prev
      BY <2>1, <3>1, <3>3
    <3>4. QED
      BY <3>2, <3>3
  <2>7. RateBounded'
    BY <2>1, <2>6 DEF RateBounded
  <2>8. QED
    BY <2>1, <2>2, <2>5, <2>7 DEF RateInv
<1>5. CASE \E m \in Macs : Packet(m)
  <2>1. PICK m \in Macs : Packet(m)
    BY <1>5
  <2>2. /\ UNCHANGED <<prev, usage, most, sampler>>
        /\ real' = [real EXCEPT ![m] = real[m] + 1]
        /\ table' = IF m \in DOMAIN table THEN [table EXCEPT ![m] = table[m] + 1] ELSE table
    BY <2>1 DEF Packet
  <2>3. \A k \in Macs : real'[k] = IF k = m THEN real[k] + 1 ELSE real[k]
    BY <1>0, <2>2
  <2>4. /\ DOMAIN table' = DOMAIN table
        /\ \A k \in DOMAIN table : table'[k] = IF k = m THEN table[k] + 1 ELSE table[k]
    BY <2>2
  <2>5. \A k \in DOMAIN table' \cap DOMAIN prev' : table'[k] <= prev'[k] + real'[k]
    BY <1>a, <2>2, <2>3, <2>4 DEF RateInv
  <2>6. ASSUME sampler.step = "fold"
        PROVE  /\ \A k \in Macs : sampler.seen[k] <= real'[k]
               /\ \A k \in DOMAIN table' :
                    table'[k] <= Bytes(sampler.count, k) + (real'[k] - sampler.seen[k])
    <3>1. /\ sampler.seen \in [Macs -> Nat]
          /\ \A k \in Macs : sampler.seen[k] <= real[k]
          /\ \A k \in DOMAIN table : table[k] <= Bytes(sampler.count, k) + (real[k] - sampler.seen[k])
      BY <2>6 DEF RateInv
    <3>2. \A k : Bytes(sampler.count, k) \in Nat
      BY <1>0, CountsAre DEF Sampler
    <3>3. \A k \in Macs : sampler.seen[k] <= real'[k]
      BY <1>a, <2>3, <3>1
    <3>4. ASSUME NEW k \in DOMAIN table
          PROVE  table'[k] <= Bytes(sampler.count, k) + (real'[k] - sampler.seen[k])
      <4>1. k \in Macs /\ table[k] \in Nat /\ real[k] \in Nat /\ sampler.seen[k] \in Nat
        BY <1>a, <3>1
      <4>2. table[k] <= Bytes(sampler.count, k) + (real[k] - sampler.seen[k]) /\ Bytes(sampler.count, k) \in Nat
        BY <3>1, <3>2
      <4>3. QED
        BY <2>3, <2>4, <4>1, <4>2
    <3>5. QED
      BY <2>4, <3>3, <3>4
  <2>7. QED
    BY <2>2, <2>5, <2>6 DEF RateInv, RateBounded
<1>6. CASE LeaseChange
  BY <1>6 DEF LeaseChange, RateInv, RateBounded
<1>7. CASE FirewallApplied
  <2>1. DOMAIN table' = {} /\ UNCHANGED <<prev, usage, most, sampler, real>>
    BY <1>7, CountsAre DEF FirewallApplied
  <2>2. QED
    BY <2>1 DEF RateInv, RateBounded
<1>8. CASE UNCHANGED sampling
  BY <1>8 DEF sampling, RateInv, RateBounded
<1>9. QED
  BY <1>1, <1>2, <1>3, <1>4, <1>5, <1>6, <1>7, <1>8, SamplingSteps

-----------------------------------------------------------------------------
\* The messages after the one a reader has got: none, one more, one fewer.
LEMMA Window ==
  ASSUME NEW got \in Nat, NEW n \in Nat, got <= n
  PROVE  LET w == [i \in 1 .. n - got |-> got + i] IN
         /\ w \in Seq(Nat) /\ Len(w) = n - got
         /\ got = n => w = <<>>
         /\ Append(w, n + 1) = [i \in 1 .. (n + 1) - got |-> got + i]
         /\ w # <<>> =>
              /\ got + 1 <= n /\ Head(w) = got + 1
              /\ Tail(w) = [i \in 1 .. n - (got + 1) |-> (got + 1) + i]
<1> DEFINE w == [i \in 1 .. n - got |-> got + i]
<1>1. w \in Seq(Nat) /\ Len(w) = n - got /\ n - got \in Nat
  <2>1. n - got \in Nat /\ w \in [1 .. n - got -> Nat]
    OBVIOUS
  <2>2. QED
    BY <2>1
<1>2. got = n => w = <<>>
  BY <1>1, EmptySeq
<1>3. Append(w, n + 1) = [i \in 1 .. (n + 1) - got |-> got + i]
  <2> DEFINE a == Append(w, n + 1)
             b == [i \in 1 .. (n + 1) - got |-> got + i]
  <2>1. /\ a \in Seq(Nat) /\ Len(a) = (n - got) + 1 /\ a[(n - got) + 1] = n + 1
        /\ \A i \in 1 .. n - got : a[i] = w[i]
    BY <1>1, AppendProperties
  <2>2. b \in Seq(Nat) /\ Len(b) = (n + 1) - got
    <3>1. (n + 1) - got \in Nat /\ b \in [1 .. (n + 1) - got -> Nat]
      OBVIOUS
    <3>2. QED
      BY <3>1
  <2>3. Len(a) = Len(b) /\ \A i \in 1 .. Len(a) : i \in 1 .. n - got \/ i = (n - got) + 1
    BY <1>1, <2>1, <2>2
  <2>4. ASSUME NEW i \in 1 .. Len(a) PROVE a[i] = b[i]
    <3>1. b[i] = got + i
      BY <2>2, <2>3
    <3>2. CASE i \in 1 .. n - got
      BY <2>1, <3>1, <3>2
    <3>3. CASE i = (n - got) + 1
      BY <2>1, <3>1, <3>3
    <3>4. QED
      BY <2>3, <3>2, <3>3
  <2>5. QED
    BY <2>1, <2>2, <2>3, <2>4, SeqEqual
<1>4. ASSUME w # <<>>
      PROVE  /\ got + 1 <= n /\ Head(w) = got + 1
             /\ Tail(w) = [i \in 1 .. n - (got + 1) |-> (got + 1) + i]
  <2>1. got # n
    BY <1>2, <1>4
  <2>2. got + 1 <= n /\ 1 \in 1 .. n - got
    BY <2>1
  <2>3. Head(w) = w[1] /\ w[1] = got + 1
    BY <2>2
  <2> DEFINE b == [i \in 1 .. n - (got + 1) |-> (got + 1) + i]
  <2>4. /\ Tail(w) \in Seq(Nat) /\ Len(Tail(w)) = (n - got) - 1
        /\ \A i \in 1 .. (n - got) - 1 : Tail(w)[i] = w[i + 1]
    BY <1>1, <1>4, HeadTailProperties
  <2>5. b \in Seq(Nat) /\ Len(b) = n - (got + 1)
    <3>1. n - (got + 1) \in Nat /\ b \in [1 .. n - (got + 1) -> Nat]
      BY <2>2
    <3>2. QED
      BY <3>1
  <2>6. Len(Tail(w)) = Len(b)
    BY <2>4, <2>5
  <2>7. ASSUME NEW i \in 1 .. Len(b) PROVE Tail(w)[i] = b[i]
    <3>1. i \in 1 .. (n - got) - 1 /\ i + 1 \in 1 .. n - got /\ i \in 1 .. n - (got + 1)
      <4>1. i \in 1 .. n - (got + 1)
        BY Zenon, <2>5
      <4>2. QED
        BY <2>2, <4>1
    <3>2. w[i + 1] = got + (i + 1) /\ b[i] = (got + 1) + i
      BY <3>1
    <3>3. QED
      BY <2>4, <3>1, <3>2
  <2>8. Tail(w) = b
    BY Zenon, <2>4, <2>5, <2>6, <2>7, SeqEqual
  <2>9. QED
    BY <2>2, <2>3, <2>8
<1>5. QED
  BY <1>1, <1>2, <1>3, <1>4

\* Sending on a channel.
LEMMA Sent ==
  ASSUME NEW o \in Channel, NEW n \in Nat, Full(o, n - 1)
  PROVE  LET q == IF Len(o.queue) < BufferSize
                  THEN [o EXCEPT !.queue = Append(o.queue, n)] ELSE [o EXCEPT !.lost = TRUE] IN
         q \in Channel /\ q.st = o.st /\ Full(q, n)
<1>0. o.queue \in Seq(Nat) /\ o.got \in Nat /\ o.lost \in BOOLEAN
  BY DEF Channel
<1>1. Append(o.queue, n) \in Seq(Nat)
  BY <1>0
<1> DEFINE q == [o EXCEPT !.queue = Append(o.queue, n)]
<1>2. q \in Channel /\ q.st = o.st /\ q.got = o.got /\ q.lost = o.lost /\ q.queue = Append(o.queue, n)
  BY Zenon, <1>1 DEF Channel
<1>3. Full(q, n)
  <2> SUFFICES ASSUME ~o.lost PROVE o.got <= n /\ q.queue = [i \in 1 .. n - o.got |-> o.got + i]
    BY Zenon, <1>2 DEF Full
  <2>1. o.got <= n - 1 /\ o.queue = [i \in 1 .. (n - 1) - o.got |-> o.got + i]
    BY DEF Full
  <2>2. n - 1 \in Nat /\ (n - 1) + 1 = n /\ o.got <= n
    BY <1>0, <2>1
  <2>3. Append(o.queue, (n - 1) + 1) = [i \in 1 .. ((n - 1) + 1) - o.got |-> o.got + i]
    BY <1>0, <2>1, <2>2, Window
  <2>4. QED
    BY Zenon, <1>2, <2>2, <2>3
<1> DEFINE x == [o EXCEPT !.lost = TRUE]
<1>4. x \in Channel /\ x.st = o.st /\ x.lost = TRUE
  BY Zenon DEF Channel
<1>5. Full(x, n)
  BY <1>4 DEF Full
<1>6. QED
  BY <1>2, <1>3, <1>4, <1>5

\* Receiving from it.
LEMMA Received ==
  ASSUME NEW o \in Channel, o.queue # <<>>
  PROVE  LET q == [o EXCEPT !.queue = Tail(@), !.got = Head(o.queue)] IN
         /\ q \in Channel /\ q.st = o.st
         /\ \A n \in Int : Full(o, n) => Full(q, n)
<1>0. o.queue \in Seq(Nat) /\ o.got \in Nat /\ o.lost \in BOOLEAN
  BY DEF Channel
<1>1. Head(o.queue) \in Nat /\ Tail(o.queue) \in Seq(Nat)
  BY <1>0, HeadTailProperties
<1> DEFINE q == [o EXCEPT !.queue = Tail(o.queue), !.got = Head(o.queue)]
<1>2. /\ q \in Channel /\ q.st = o.st /\ q.lost = o.lost
      /\ q.queue = Tail(o.queue) /\ q.got = Head(o.queue)
  BY Zenon, <1>1 DEF Channel
<1>3. ASSUME NEW n \in Int, Full(o, n) PROVE Full(q, n)
  <2> SUFFICES ASSUME ~o.lost PROVE q.got <= n /\ q.queue = [i \in 1 .. n - q.got |-> q.got + i]
    BY <1>2 DEF Full
  <2>1. o.got <= n /\ n \in Nat /\ o.queue = [i \in 1 .. n - o.got |-> o.got + i]
    BY <1>0, <1>3 DEF Full
  <2>2. /\ o.got + 1 <= n /\ Head(o.queue) = o.got + 1
        /\ Tail(o.queue) = [i \in 1 .. n - (o.got + 1) |-> (o.got + 1) + i]
    <3> DEFINE w == [i \in 1 .. n - o.got |-> o.got + i]
    <3>1. w # <<>> =>
            /\ o.got + 1 <= n /\ Head(w) = o.got + 1
            /\ Tail(w) = [i \in 1 .. n - (o.got + 1) |-> (o.got + 1) + i]
      BY Zenon, <1>0, <2>1, Window
    <3>2. o.queue = w
      BY <2>1
    <3> HIDE DEF w
    <3>3. QED
      BY Zenon, <2>1, <3>1, <3>2
  <2>3. QED
    BY Zenon, <1>2, <2>2
<1>4. QED
  BY <1>2, <1>3

\* Every step of the broker keeps the stream whole.
LEMMA StreamStep ==
  ASSUME DataInv, StreamInv, [Next]_vars
  PROVE  StreamInv'
<1>0. /\ sent \in Nat /\ chan \in [Subscribers -> Channel] /\ sampler \in Sampler
      /\ clients \subseteq Subscribers /\ sending \subseteq clients
      /\ sending # {} => sampler.step = "sending"
      /\ \A c \in clients : chan[c].st = "open" /\ Full(chan[c], Offered(c))
  BY DEF DataInv, StreamInv
<1>a. ASSUME NEW c \in Subscribers, NEW q \in Channel, chan' = [chan EXCEPT ![c] = q]
      PROVE  /\ chan' \in [Subscribers -> Channel] /\ chan'[c] = q
             /\ \A d \in Subscribers : d # c => chan'[d] = chan[d]
  BY <1>0, <1>a
<1>b. ASSUME UNCHANGED <<clients, chan, sending, sent>>, sending = {} \/ sampler'.step = "sending"
      PROVE  StreamInv'
  BY <1>0, <1>b DEF Offered, StreamInv
<1>c. Closed \in Channel
  <2>1. <<>> \in Seq(Nat)
    OBVIOUS
  <2>2. QED
    BY <2>1 DEF Closed, Channel
<1>1. ASSUME NEW c \in Subscribers, Send(c)
      PROVE  StreamInv'
  <2> DEFINE q == IF Len(chan[c].queue) < BufferSize
                  THEN [chan[c] EXCEPT !.queue = Append(chan[c].queue, sent)] ELSE [chan[c] EXCEPT !.lost = TRUE]
  <2>1. /\ c \in sending /\ c \in clients /\ sending' = sending \ {c} /\ clients' = clients
        /\ sent' = sent /\ sampler' = sampler /\ chan' = [chan EXCEPT ![c] = q]
    <3>1. c \in sending /\ sending' = sending \ {c} /\ UNCHANGED <<clients, sent, sampling>>
      BY <1>1 DEF Send
    <3>2. chan' = [chan EXCEPT ![c] = q]
      BY <1>1, Zenon DEF Send
    <3>3. QED
      BY <1>0, <3>1, <3>2 DEF sampling
  <2>2. chan[c] \in Channel /\ Full(chan[c], sent - 1) /\ chan[c].st = "open"
    BY <1>0, <2>1 DEF Offered
  <2>3. q \in Channel /\ q.st = "open" /\ Full(q, sent)
    BY Zenon, <1>0, <2>2, Sent
  <2> HIDE DEF q
  <2>4. /\ chan' \in [Subscribers -> Channel] /\ chan'[c] = q
        /\ \A d \in Subscribers : d # c => chan'[d] = chan[d]
    BY Zenon, <1>a, <2>1, <2>3
  <2>5. Offered(c)' = sent /\ \A d \in clients : d # c => Offered(d)' = Offered(d)
    BY <2>1 DEF Offered
  <2>6. QED
    BY <1>0, <2>1, <2>3, <2>4, <2>5 DEF StreamInv
<1>2. ASSUME NEW c \in Subscribers, Subscribe(c)
      PROVE  StreamInv'
  <2> DEFINE q == [Closed EXCEPT !.st = "open", !.from = sent, !.got = sent]
  <2>1. /\ sending = {} /\ sending' = sending /\ clients' = clients \cup {c}
        /\ sent' = sent /\ sampler' = sampler /\ chan' = [chan EXCEPT ![c] = q]
    BY <1>0, <1>2 DEF Subscribe, Writable, sampling
  <2>2. Closed.queue = <<>>
    BY DEF Closed
  <2>3. q \in Channel /\ q.st = "open" /\ q.got = sent /\ q.queue = <<>>
    BY Zenon, <1>0, <1>c, <2>2 DEF Channel
  <2> HIDE DEF q
  <2>4. Full(q, sent)
    <3>1. sent <= sent
      BY <1>0
    <3>2. [i \in 1 .. sent - sent |-> sent + i] = <<>>
      BY <1>0, <3>1, Window
    <3>3. QED
      BY <2>3, <3>1, <3>2 DEF Full
  <2>5. /\ chan' \in [Subscribers -> Channel] /\ chan'[c] = q
        /\ \A d \in Subscribers : d # c => chan'[d] = chan[d]
    BY Zenon, <1>a, <2>1, <2>3
  <2>6. \A d \in clients' : Offered(d)' = sent /\ Offered(d) = sent
    BY <2>1 DEF Offered
  <2>7. QED
    BY <1>0, <2>1, <2>3, <2>4, <2>5, <2>6 DEF StreamInv
<1>3. ASSUME NEW c \in Subscribers, Receive(c)
      PROVE  StreamInv'
  <2> DEFINE q == [chan[c] EXCEPT !.queue = Tail(@), !.got = Head(chan[c].queue)]
  <2>1. /\ sending' = sending /\ clients' = clients /\ chan[c].queue # <<>>
        /\ sent' = sent /\ sampler' = sampler /\ chan' = [chan EXCEPT ![c] = q]
    BY Zenon, <1>0, <1>3 DEF Receive, sampling
  <2>2. q \in Channel /\ q.st = chan[c].st /\ \A n \in Int : Full(chan[c], n) => Full(q, n)
    BY Zenon, <1>0, <2>1, Received
  <2> HIDE DEF q
  <2>3. /\ chan' \in [Subscribers -> Channel] /\ chan'[c] = q
        /\ \A d \in Subscribers : d # c => chan'[d] = chan[d]
    BY Zenon, <1>a, <2>1, <2>2
  <2>4. \A d \in clients : Offered(d)' = Offered(d)
    BY <2>1 DEF Offered
  <2>5. c \in clients => Full(q, Offered(c))
    <3>1. Offered(c) \in Int
      BY <1>0 DEF Offered
    <3>2. QED
      BY <1>0, <2>2, <3>1
  <2>6. QED
    BY <1>0, <2>1, <2>2, <2>3, <2>4, <2>5 DEF StreamInv
<1>4. ASSUME NEW c \in Subscribers, Unsubscribe(c)
      PROVE  StreamInv'
  <2> DEFINE q == [chan[c] EXCEPT !.st = "closing"]
  <2>1. /\ sending = {} /\ sending' = sending /\ clients' = clients \ {c}
        /\ sent' = sent /\ sampler' = sampler /\ chan' = [chan EXCEPT ![c] = q]
    BY <1>0, <1>4 DEF Unsubscribe, Writable, sampling
  <2>2. q \in Channel
    BY Zenon, <1>0 DEF Channel
  <2> HIDE DEF q
  <2>3. chan' \in [Subscribers -> Channel] /\ \A d \in Subscribers : d # c => chan'[d] = chan[d]
    BY Zenon, <1>a, <2>1, <2>2
  <2>4. \A d \in clients : Offered(d)' = Offered(d)
    BY <2>1 DEF Offered
  <2>5. QED
    BY <1>0, <2>1, <2>3, <2>4 DEF StreamInv
<1>5. ASSUME NEW c \in Subscribers, Close(c)
      PROVE  StreamInv'
  <2>1. /\ sending' = sending /\ clients' = clients /\ c \notin clients
        /\ sent' = sent /\ sampler' = sampler /\ chan' = [chan EXCEPT ![c] = Closed]
    BY <1>0, <1>5 DEF Close, sampling
  <2>3. chan' \in [Subscribers -> Channel] /\ \A d \in Subscribers : d # c => chan'[d] = chan[d]
    BY Zenon, <1>a, <1>c, <2>1
  <2>4. \A d \in clients : Offered(d)' = Offered(d)
    BY <2>1 DEF Offered
  <2>5. QED
    BY <1>0, <2>1, <2>3, <2>4 DEF StreamInv
<1>6. CASE Publish
  <2>1. /\ sending = {} /\ sending' = clients /\ clients' = clients /\ chan' = chan
        /\ sent' = sent + 1 /\ sampler'.step = "sending"
    BY <1>0, <1>6 DEF Publish, Sampler
  <2>2. \A d \in clients : Offered(d)' = sent /\ Offered(d) = sent
    BY <1>0, <2>1 DEF Offered
  <2>3. QED
    BY <1>0, <2>1, <2>2 DEF StreamInv
<1>7. CASE \/ Tick \/ ReadLeases \/ RebuildClientCounters \/ Rebuilt \/ ListTable \/ SamplePerClient
           \/ Published
  <2>1. UNCHANGED broker /\ sending = {}
    BY <1>0, <1>7 DEF Tick, ReadLeases, RebuildClientCounters, Rebuilt, ListTable, SamplePerClient,
       Published
  <2>2. QED
    BY <1>b, <2>1 DEF broker
<1>8. CASE (\E m \in Macs : Packet(m)) \/ LeaseChange \/ FirewallApplied
  <2>1. UNCHANGED broker /\ sampler' = sampler
    BY <1>8 DEF Packet, LeaseChange, FirewallApplied
  <2>2. QED
    BY <1>0, <1>b, <2>1 DEF broker
<1>9. CASE \E p \in Requests :
             \/ \E form \in env.forms : HandleApply(p, form)
             \/ HandleClear(p) \/ Commands(p) \/ SelectProfile(p) \/ Lock(p) \/ Unlock(p)
             \/ SaveToFile(p) \/ Disable(p) \/ CommandFails(p)
  <2>1. UNCHANGED <<broker, sampling>>
    BY Zenon, <1>9 DEF HandleApply, HandleClear, Commands, Command, SelectProfile, Lock, Unlock, SaveToFile,
       Disable, CommandFails
  <2>2. QED
    BY <1>0, <1>b, <2>1 DEF broker, sampling
<1>10. CASE UNCHANGED vars
  BY <1>0, <1>b, <1>10 DEF vars, broker, sampling
<1>11. QED
  BY <1>1, <1>2, <1>3, <1>4, <1>5, <1>6, <1>7, <1>8, <1>9, <1>10 DEF Next

-----------------------------------------------------------------------------
\* The steps of Apply and Clear.
LEMMA Scripts ==
  /\ Apply = <<"save", "lock", "delEgress", "delIfb", "profile">>
  /\ Clear = <<"lock", "delEgress", "delIfb", "unlock", "disable", "save">>
<1>1. Apply = <<"save", "lock", "delEgress", "delIfb", "profile">>
  <2>1. Apply = (<<"save", "lock">> \o <<"delEgress", "delIfb">>) \o <<"profile">>
    BY DEF Apply, clear
  <2>2. <<"save", "lock", "delEgress", "delIfb">> = <<"save", "lock">> \o <<"delEgress", "delIfb">>
    OBVIOUS
  <2>3. <<"save", "lock", "delEgress", "delIfb", "profile">>
          = <<"save", "lock", "delEgress", "delIfb">> \o <<"profile">>
    OBVIOUS
  <2>4. QED
    BY <2>1, <2>2, <2>3, Zenon
<1>2. Clear = <<"lock", "delEgress", "delIfb", "unlock", "disable", "save">>
  <2>1. Clear = (<<"lock">> \o <<"delEgress", "delIfb">>) \o <<"unlock", "disable", "save">>
    BY DEF Clear, clear
  <2>2. <<"lock", "delEgress", "delIfb">> = <<"lock">> \o <<"delEgress", "delIfb">>
    OBVIOUS
  <2>3. <<"lock", "delEgress", "delIfb", "unlock", "disable", "save">>
          = <<"lock", "delEgress", "delIfb">> \o <<"unlock", "disable", "save">>
    OBVIOUS
  <2>4. QED
    BY <2>1, <2>2, <2>3, Zenon
<1>3. QED
  BY <1>1, <1>2

\* A request at a stage: its next step, what it has to do after it, and what holds.
LEMMA StageSteps ==
  ASSUME NEW s, NEW c, NEW t, Stage(s, c, t), s # <<>>
  PROVE  /\ Head(s) = "save" => \/ Tail(s) = <<"lock", "delEgress", "delIfb", "profile">>
                                \/ Tail(s) = <<>> /\ Matches(c, t)
         /\ Head(s) = "lock" => Tail(s) \in {<<"delEgress", "delIfb", "profile">>,
                                             <<"delEgress", "delIfb", "unlock", "disable", "save">>}
         /\ Head(s) = "delEgress" =>
              Tail(s) \in {<<"delIfb", "profile">>, <<"delIfb", "unlock", "disable", "save">>}
         /\ Head(s) = "delIfb" => /\ Tail(s) \in {<<"profile">>, <<"unlock", "disable", "save">>}
                                  /\ t.egress = "none"
         /\ Head(s) = "profile" => Bare(t)
         /\ Head(s) = "unlock" => \/ Tail(s) = <<"disable", "save">> /\ Bare(t)
                                  \/ Tail(s) = <<>> /\ Matches(c, t)
         /\ Head(s) = "disable" => Tail(s) = <<"save">> /\ Bare(t)
         /\ Head(s) = "cc" =>
              \/ /\ Tail(s) = <<"cake", "ifbUp", "redirect", "ifbQdisc", "unlock">>
                 /\ Wants(c, "cake") /\ Bare(t)
              \/ Tail(s) = <<"fq_codel", "unlock">> /\ Wants(c, "fq_codel") /\ Bare(t)
         /\ Head(s) = "cake" => /\ Tail(s) = <<"ifbUp", "redirect", "ifbQdisc", "unlock">>
                                /\ Wants(c, "cake") /\ Bare(t)
         /\ Head(s) = "ifbUp" => Tail(s) = <<"redirect", "ifbQdisc", "unlock">> /\ Caked(c, t)
         /\ Head(s) = "redirect" => Tail(s) = <<"ifbQdisc", "unlock">> /\ Caked(c, t)
         /\ Head(s) = "ifbQdisc" => Tail(s) = <<"unlock">> /\ Caked(c, t) /\ t.redirect
         /\ Head(s) = "fq_codel" => Tail(s) = <<"unlock">> /\ Wants(c, "fq_codel") /\ Bare(t)
<1>1. CASE s = <<"save", "lock", "delEgress", "delIfb", "profile">>
  BY <1>1
<1>2. CASE s = <<"lock", "delEgress", "delIfb", "profile">>
  BY <1>2
<1>3. CASE s = <<"delEgress", "delIfb", "profile">>
  BY <1>3
<1>4. CASE s = <<"lock", "delEgress", "delIfb", "unlock", "disable", "save">>
  BY <1>4
<1>5. CASE s = <<"delEgress", "delIfb", "unlock", "disable", "save">>
  BY <1>5
<1>6. CASE s = <<"delIfb", "profile">> /\ t.egress = "none"
  BY <1>6
<1>7. CASE s = <<"delIfb", "unlock", "disable", "save">> /\ t.egress = "none"
  BY <1>7
<1>8. CASE s = <<"profile">> /\ Bare(t)
  BY <1>8
<1>9. CASE s = <<"unlock", "disable", "save">> /\ Bare(t)
  BY <1>9
<1>10. CASE s = <<"disable", "save">> /\ Bare(t)
  BY <1>10
<1>11. CASE s = <<"cc", "cake", "ifbUp", "redirect", "ifbQdisc", "unlock">> /\ Wants(c, "cake") /\ Bare(t)
  BY <1>11
<1>12. CASE s = <<"cake", "ifbUp", "redirect", "ifbQdisc", "unlock">> /\ Wants(c, "cake") /\ Bare(t)
  BY <1>12
<1>13. CASE s = <<"ifbUp", "redirect", "ifbQdisc", "unlock">> /\ Caked(c, t)
  BY <1>13
<1>14. CASE s = <<"redirect", "ifbQdisc", "unlock">> /\ Caked(c, t)
  BY <1>14
<1>15. CASE s = <<"ifbQdisc", "unlock">> /\ Caked(c, t) /\ t.redirect
  BY <1>15
<1>16. CASE s = <<"cc", "fq_codel", "unlock">> /\ Wants(c, "fq_codel") /\ Bare(t)
  BY <1>16
<1>17. CASE s = <<"fq_codel", "unlock">> /\ Wants(c, "fq_codel") /\ Bare(t)
  BY <1>17
<1>18. CASE s = <<"unlock">> /\ Matches(c, t)
  BY <1>18
<1>19. CASE s = <<"save">> /\ Matches(c, t)
  BY <1>19
<1>20. QED
  BY Zenon, <1>1, <1>2, <1>3, <1>4, <1>5, <1>6, <1>7, <1>8, <1>9, <1>10, <1>11, <1>12, <1>13, <1>14,
     <1>15, <1>16, <1>17, <1>18, <1>19 DEF Stage

\* A request with nothing left to do has left the kernel as configured.
LEMMA StageEnd ==
  ASSUME NEW c, NEW t, Stage(<<>>, c, t)
  PROVE  Matches(c, t)
<1>1. \A a : <<a>> # <<>>
  OBVIOUS
<1>2. \A a, b : <<a, b>> # <<>>
  OBVIOUS
<1>3. \A a, b, d : <<a, b, d>> # <<>>
  OBVIOUS
<1>4. \A a, b, d, e : <<a, b, d, e>> # <<>>
  OBVIOUS
<1>5. \A a, b, d, e, f : <<a, b, d, e, f>> # <<>>
  OBVIOUS
<1>6. \A a, b, d, e, f, g : <<a, b, d, e, f, g>> # <<>>
  OBVIOUS
<1>7. QED
  BY <1>1, <1>2, <1>3, <1>4, <1>5, <1>6, Zenon DEF Stage

\* A step of the only request under way, which brings it to its next stage.
LEMMA StageNext ==
  ASSUME DOMAIN todo = Requests, NEW p \in Requests, NEW s,
         \A q \in Requests : q # p => todo[q] = <<>>,
         todo' = [todo EXCEPT ![p] = s], Stage(s, cfg', tc')
  PROVE  ShapeInv'
<1>1. todo'[p] = s /\ \A q \in Requests : q # p => todo'[q] = <<>>
  OBVIOUS
<1>2. Idle' => s = <<>>
  BY <1>1 DEF Idle
<1>3. Idle' => Matches(cfg', tc')
  BY <1>2, StageEnd
<1>4. QED
  BY <1>1, <1>3, Zenon DEF ShapeInv

\* The steps of the page requests, and all others, which leave the shaping alone.
LEMMA ShapingSteps ==
  ASSUME [Next]_vars
  PROVE  \/ \E p \in Requests :
              \/ \E form \in env.forms : HandleApply(p, form)
              \/ HandleClear(p) \/ Commands(p) \/ SelectProfile(p) \/ Lock(p) \/ Unlock(p)
              \/ SaveToFile(p) \/ Disable(p) \/ CommandFails(p)
         \/ UNCHANGED <<shaping, env>>
<1>1. ASSUME \/ Tick \/ ReadLeases \/ RebuildClientCounters \/ Rebuilt \/ ListTable \/ SamplePerClient
             \/ (\E m \in Macs : Packet(m)) \/ LeaseChange \/ FirewallApplied \/ Publish \/ Published
      PROVE  UNCHANGED <<shaping, env>>
  BY <1>1 DEF Tick, ReadLeases, RebuildClientCounters, Rebuilt, ListTable, SamplePerClient, Packet,
     LeaseChange, FirewallApplied, Publish, Published
<1>2. ASSUME NEW c \in Subscribers, Send(c) \/ Subscribe(c) \/ Receive(c) \/ Unsubscribe(c) \/ Close(c)
      PROVE  UNCHANGED <<shaping, env>>
  BY <1>2 DEF Send, Subscribe, Receive, Unsubscribe, Close
<1>3. UNCHANGED vars => UNCHANGED <<shaping, env>>
  BY DEF vars
<1>4. QED
  BY Zenon, <1>1, <1>2, <1>3 DEF Next

\* The configuration and the kernel's shaping keep their shape.
LEMMA ShapeDataStep ==
  ASSUME \A e \in Envs : \A f \in e.forms : f.enabled \in BOOLEAN, ShapeData, [Next]_vars
  PROVE  ShapeData'
<1> DEFINE C == [enabled : BOOLEAN, profile : Profiles, rate : Rates]
           T == [egress : {"none", "cake", "fq_codel"}, rate : Rates, ifb : {"none", "up", "shaped"},
                 redirect : BOOLEAN]
<1>0. env \in Envs /\ cfg \in C /\ tc \in T /\ DOMAIN todo = Requests /\ over \in BOOLEAN
      /\ failed \in BOOLEAN
  BY DEF ShapeData
<1>1. ASSUME NEW p \in Requests, NEW form \in env.forms, HandleApply(p, form)
      PROVE  ShapeData'
  <2>1. form.enabled \in BOOLEAN /\ form.rate \in Rates /\ form.profile \in Profiles
    BY <1>0 DEF Rates, Profiles
  <2> DEFINE named == IF form.profile = "" THEN cfg.profile ELSE form.profile
  <2>2. named \in Profiles
    BY Zenon, <1>0, <2>1
  <2> HIDE DEF named
  <2>3. \/ cfg' = [enabled |-> form.enabled, profile |-> named, rate |-> form.rate]
        \/ cfg' = [cfg EXCEPT !.profile = named]
    BY Zenon, <1>1 DEF HandleApply, named
  <2>4. cfg' \in C
    BY <1>0, <2>1, <2>2, <2>3
  <2>5. DOMAIN todo' = Requests /\ tc' = tc /\ env' = env
    BY Zenon, <1>0, <1>1 DEF HandleApply
  <2>6. over' \in BOOLEAN /\ failed' \in BOOLEAN
    BY Zenon, <1>0, <1>1 DEF HandleApply
  <2>7. QED
    BY <1>0, <2>4, <2>5, <2>6 DEF ShapeData
<1>2. ASSUME NEW p \in Requests, HandleClear(p)
      PROVE  ShapeData'
  <2>1. DOMAIN todo' = Requests /\ UNCHANGED <<cfg, tc, env, failed>>
    BY <1>0, <1>2 DEF HandleClear
  <2>2. over' \in BOOLEAN
    BY <1>0, <1>2 DEF HandleClear
  <2>3. QED
    BY <1>0, <2>1, <2>2 DEF ShapeData
<1>3. ASSUME NEW p \in Requests, Commands(p)
      PROVE  ShapeData'
  <2>1. tc' \in T
    <3>1. 0 \in Rates /\ cfg.rate \in Rates
      BY <1>0 DEF Rates
    <3>2. QED
      BY Zenon, <1>0, <1>3, <3>1 DEF Commands, Command
  <2>2. DOMAIN todo' = Requests /\ UNCHANGED <<cfg, env, over, failed>>
    BY <1>0, <1>3 DEF Commands, Command, Done
  <2>3. QED
    BY <1>0, <2>1, <2>2 DEF ShapeData
<1>4. ASSUME NEW p \in Requests,
             SelectProfile(p) \/ Lock(p) \/ Unlock(p) \/ SaveToFile(p) \/ CommandFails(p)
      PROVE  ShapeData'
  <2>1. DOMAIN todo' = Requests /\ UNCHANGED <<cfg, tc, env, over>>
    BY <1>0, <1>4 DEF SelectProfile, Lock, Unlock, SaveToFile, CommandFails, Return, Done
  <2>2. failed' \in BOOLEAN
    BY ZenonT(40), <1>0, <1>4 DEF SelectProfile, Lock, Unlock, SaveToFile, CommandFails
  <2>3. QED
    BY <1>0, <2>1, <2>2 DEF ShapeData
<1>5. ASSUME NEW p \in Requests, Disable(p)
      PROVE  ShapeData'
  <2>1. cfg' \in C
    BY Zenon, <1>0, <1>5 DEF Disable
  <2>2. DOMAIN todo' = Requests /\ UNCHANGED <<tc, env, over, failed>>
    BY <1>0, <1>5 DEF Disable, Done
  <2>3. QED
    BY SMTT(30), <1>0, <2>1, <2>2 DEF ShapeData
<1>6. CASE UNCHANGED <<shaping, env>>
  BY <1>6 DEF shaping, ShapeData
<1>7. QED
  BY Zenon, <1>1, <1>2, <1>3, <1>4, <1>5, <1>6, ShapingSteps

\* A command brings its request to the next stage.
LEMMA ShapeCommand ==
  ASSUME ShapeData, NEW p \in Requests, Commands(p), todo[p] # <<>>, Stage(todo[p], cfg, tc),
         \A q \in Requests : q # p => todo[q] = <<>>
  PROVE  ShapeInv'
<1> DEFINE s == Tail(todo[p])
<1>0. DOMAIN todo = Requests /\ todo' = [todo EXCEPT ![p] = s] /\ cfg' = cfg
  BY DEF ShapeData, Commands, Command, Done
<1>1. /\ tc \in [egress : {"none", "cake", "fq_codel"}, rate : Rates, ifb : {"none", "up", "shaped"},
                 redirect : BOOLEAN]
  BY DEF ShapeData
<1> SUFFICES Stage(s, cfg', tc')
  BY ZenonT(40), <1>0, StageNext
<1>2. CASE Command(p, "delEgress", [tc EXCEPT !.egress = "none", !.rate = 0])
  <2>1. s \in {<<"delIfb", "profile">>, <<"delIfb", "unlock", "disable", "save">>}
    BY <1>2, StageSteps DEF Command, Next1
  <2>2. tc'.egress = "none"
    BY <1>1, <1>2 DEF Command
  <2> HIDE DEF s
  <2>3. QED
    BY SMTT(30), <2>1, <2>2 DEF Stage
<1>3. CASE Command(p, "delIfb", [tc EXCEPT !.ifb = "none"])
  <2>1. s \in {<<"profile">>, <<"unlock", "disable", "save">>} /\ tc.egress = "none"
    BY <1>3, StageSteps DEF Command, Next1
  <2>2. Bare(tc')
    BY <1>1, <1>3, <2>1 DEF Command, Bare
  <2> HIDE DEF s
  <2>3. QED
    BY SMTT(30), <2>1, <2>2 DEF Stage
<1>4. CASE Command(p, "cc", tc)
  <2>1. \/ /\ s = <<"cake", "ifbUp", "redirect", "ifbQdisc", "unlock">>
           /\ Wants(cfg, "cake") /\ Bare(tc)
        \/ s = <<"fq_codel", "unlock">> /\ Wants(cfg, "fq_codel") /\ Bare(tc)
    BY Zenon, <1>4, StageSteps DEF Command, Next1
  <2>2. tc' = tc
    BY SMTT(30), <1>4 DEF Command
  <2> HIDE DEF s
  <2>3. QED
    BY <1>0, <2>1, <2>2 DEF Stage
<1>5. CASE Command(p, "cake", [tc EXCEPT !.egress = "cake", !.rate = cfg.rate])
  <2>1. s = <<"ifbUp", "redirect", "ifbQdisc", "unlock">> /\ Wants(cfg, "cake")
    BY <1>5, StageSteps DEF Command, Next1
  <2>2. Caked(cfg', tc')
    BY <1>0, <1>1, <1>5, <2>1 DEF Command, Caked
  <2> HIDE DEF s
  <2>3. QED
    BY SMTT(30), <2>1, <2>2 DEF Stage
<1>6. CASE Command(p, "fq_codel", [tc EXCEPT !.egress = "fq_codel"])
  <2>1. s = <<"unlock">> /\ Wants(cfg, "fq_codel") /\ Bare(tc)
    BY <1>6, StageSteps DEF Command, Next1
  <2>2. Matches(cfg', tc')
    BY <1>0, <1>1, <1>6, <2>1 DEF Command, Matches, Wants, Bare
  <2> HIDE DEF s
  <2>3. QED
    BY SMTT(30), <2>1, <2>2 DEF Stage
<1>7. CASE Command(p, "ifbUp", [tc EXCEPT !.ifb = "up"])
  <2>1. s = <<"redirect", "ifbQdisc", "unlock">> /\ Caked(cfg, tc)
    BY Zenon, <1>7, StageSteps DEF Command, Next1
  <2>2. Caked(cfg', tc')
    BY <1>0, <1>1, <1>7, <2>1 DEF Command, Caked
  <2> HIDE DEF s
  <2>3. QED
    BY SMTT(30), <2>1, <2>2 DEF Stage
<1>8. CASE Command(p, "redirect", [tc EXCEPT !.redirect = TRUE])
  <2>1. s = <<"ifbQdisc", "unlock">> /\ Caked(cfg, tc)
    BY <1>8, StageSteps DEF Command, Next1
  <2>2. Caked(cfg', tc') /\ tc'.redirect
    BY <1>0, <1>1, <1>8, <2>1 DEF Command, Caked
  <2> HIDE DEF s
  <2>3. QED
    BY SMTT(30), <2>1, <2>2 DEF Stage
<1>9. CASE Command(p, "ifbQdisc", [tc EXCEPT !.ifb = "shaped"])
  <2>1. s = <<"unlock">> /\ Caked(cfg, tc) /\ tc.redirect
    BY <1>9, StageSteps DEF Command, Next1
  <2>2. Matches(cfg', tc')
    BY <1>0, <1>1, <1>9, <2>1 DEF Command, Caked, Wants, Matches
  <2> HIDE DEF s
  <2>3. QED
    BY SMTT(30), <2>1, <2>2 DEF Stage
<1>10. QED
  BY <1>2, <1>3, <1>4, <1>5, <1>6, <1>7, <1>8, <1>9 DEF Commands

\* Every step of a page request keeps the kernel where its steps have brought it.
LEMMA ShapeStep ==
  ASSUME ShapeData, ShapeInv, [Next]_vars
  PROVE  ShapeInv'
<1> SUFFICES ASSUME ~over', ~failed' PROVE ShapeInv'
  BY SMTT(30) DEF ShapeInv
<1>0. DOMAIN todo = Requests /\ over \in BOOLEAN /\ failed \in BOOLEAN
  BY DEF ShapeData
<1>1. ASSUME NEW p \in Requests,
             (\E form \in env.forms : HandleApply(p, form)) \/ HandleClear(p)
      PROVE  ShapeInv'
  <2>1. Idle
    BY Zenon, <1>1 DEF HandleApply, HandleClear
  <2>2. todo' = [todo EXCEPT ![p] = Apply] \/ todo' = [todo EXCEPT ![p] = Clear]
    BY Zenon, <1>1 DEF HandleApply, HandleClear
  <2>3. Stage(Apply, cfg', tc') /\ Stage(Clear, cfg', tc')
    BY Scripts, Zenon DEF Stage
  <2>4. QED
    BY <1>0, <2>1, <2>2, <2>3, StageNext DEF Idle
<1>2. ASSUME NEW p \in Requests,
             \/ Commands(p) \/ SelectProfile(p) \/ Lock(p) \/ Unlock(p)
             \/ SaveToFile(p) \/ Disable(p) \/ CommandFails(p)
      PROVE  ShapeInv'
  <2>1. ~over /\ ~failed
    BY <1>2 DEF Commands, Command, SelectProfile, Lock, Unlock, SaveToFile, Disable, CommandFails
  <2>2. todo[p] # <<>>
    BY <1>2 DEF Commands, Command, SelectProfile, Lock, Unlock, SaveToFile, Disable, CommandFails, Next1
  <2>3. Stage(todo[p], cfg, tc) /\ \A q \in Requests : q # p => todo[q] = <<>>
    BY <2>1, <2>2 DEF ShapeInv
  <2> DEFINE s == Tail(todo[p])
  <2>4. CASE Commands(p)
    BY <2>2, <2>3, <2>4, ShapeCommand
  <2>5. CASE SelectProfile(p)
    <3>1. Bare(tc) /\ cfg' = cfg /\ tc' = tc
      BY <2>2, <2>3, <2>5, StageSteps DEF SelectProfile, Next1
    <3>2. CASE ~cfg.enabled \/ cfg.profile = "none"
      <4>1. Matches(cfg', tc')
        BY <3>1, <3>2 DEF Matches, Bare
      <4>2. Stage(<<>>, cfg', tc')
        BY <4>1, Zenon DEF Stage
      <4>3. todo' = [todo EXCEPT ![p] = <<>>]
        BY <2>5, <3>2 DEF SelectProfile, Return
      <4>4. QED
        BY Zenon, <1>0, <2>3, <4>2, <4>3, StageNext
    <3>3. CASE ~(~cfg.enabled \/ cfg.profile = "none")
      <4>1. /\ cfg.profile \in {"cake", "fq_codel"} /\ cfg.enabled
            /\ todo' = [todo EXCEPT ![p] = IF cfg.profile = "cake" THEN applyCake ELSE applyFqCodel]
        BY <2>5, <3>3 DEF SelectProfile
      <4>2. CASE cfg.profile = "cake"
        <5>1. Wants(cfg', "cake") /\ Bare(tc') /\ todo' = [todo EXCEPT ![p] = applyCake]
          BY <3>1, <4>1, <4>2 DEF Wants
        <5>2. Stage(applyCake, cfg', tc')
          BY <5>1, Zenon DEF Stage, applyCake
        <5>3. QED
          BY ZenonT(40), <1>0, <2>3, <5>1, <5>2, StageNext
      <4>3. CASE cfg.profile # "cake"
        <5>1. Wants(cfg', "fq_codel") /\ Bare(tc') /\ todo' = [todo EXCEPT ![p] = applyFqCodel]
          BY <3>1, <4>1, <4>3 DEF Wants
        <5>2. Stage(applyFqCodel, cfg', tc')
          BY <5>1, Zenon DEF Stage, applyFqCodel
        <5>3. QED
          BY ZenonT(40), <1>0, <2>3, <5>1, <5>2, StageNext
      <4>4. QED
        BY <4>2, <4>3
    <3>4. QED
      BY <3>2, <3>3
  <2>6. CASE Lock(p)
    <3>1. /\ s \in {<<"delEgress", "delIfb", "profile">>,
                    <<"delEgress", "delIfb", "unlock", "disable", "save">>}
          /\ todo' = [todo EXCEPT ![p] = s]
      BY <2>2, <2>3, <2>6, StageSteps DEF Lock, Next1, Done
    <3> HIDE DEF s
    <3>2. Stage(s, cfg', tc')
      BY <3>1 DEF Stage
    <3>3. QED
      BY Zenon, <1>0, <2>3, <3>1, <3>2, StageNext
  <2>7. CASE Unlock(p)
    <3>1. /\ (s = <<"disable", "save">> /\ Bare(tc)) \/ (s = <<>> /\ Matches(cfg, tc))
          /\ cfg' = cfg /\ tc' = tc /\ todo' = [todo EXCEPT ![p] = s]
      BY <2>2, <2>3, <2>7, StageSteps DEF Unlock, Next1, Done
    <3> HIDE DEF s
    <3>2. Stage(s, cfg', tc')
      BY <3>1 DEF Stage
    <3>3. QED
      BY Zenon, <1>0, <2>3, <3>1, <3>2, StageNext
  <2>8. CASE SaveToFile(p)
    <3>1. /\ s = <<"lock", "delEgress", "delIfb", "profile">> \/ (s = <<>> /\ Matches(cfg, tc))
          /\ cfg' = cfg /\ tc' = tc /\ todo' = [todo EXCEPT ![p] = s]
      BY <2>2, <2>3, <2>8, StageSteps DEF SaveToFile, Next1, Done
    <3> HIDE DEF s
    <3>2. Stage(s, cfg', tc')
      BY <3>1 DEF Stage
    <3>3. QED
      BY Zenon, <1>0, <2>3, <3>1, <3>2, StageNext
  <2>9. CASE Disable(p)
    <3>1. s = <<"save">> /\ Bare(tc) /\ tc' = tc /\ todo' = [todo EXCEPT ![p] = s]
      BY <2>2, <2>3, <2>9, StageSteps DEF Disable, Next1, Done
    <3>2. cfg'.enabled = FALSE
      BY <2>9 DEF Disable, ShapeData
    <3>3. Matches(cfg', tc')
      BY <3>1, <3>2 DEF Matches
    <3> HIDE DEF s
    <3>4. Stage(s, cfg', tc')
      BY <3>1, <3>3 DEF Stage
    <3>5. QED
      BY Zenon, <1>0, <2>3, <3>1, <3>4, StageNext
  <2>10. CASE CommandFails(p)
    BY <2>10 DEF CommandFails
  <2>11. QED
    BY <1>2, <2>4, <2>5, <2>6, <2>7, <2>8, <2>9, <2>10
<1>3. CASE UNCHANGED <<shaping, env>>
  BY SMTT(30), <1>3 DEF shaping, ShapeInv, Idle
<1>4. QED
  BY Zenon, <1>1, <1>2, <1>3, ShapingSteps

-----------------------------------------------------------------------------
\* The code's constants, and the environments: clients and switches of the right kind.
QosConstants ==
  /\ ResyncEvery \in Nat \ {0}
  /\ \A e \in Envs : e.leased \subseteq Macs /\ \A f \in e.forms : f.enabled \in BOOLEAN

\* The inductive invariant.
Inv == DataInv /\ RateInv /\ StreamInv /\ ShapeData /\ ShapeInv

\* It holds in every state.
THEOREM Invariance ==
  ASSUME QosConstants PROVE Spec => []Inv
<1>1. Init => Inv
  <2> SUFFICES ASSUME Init PROVE Inv
    OBVIOUS
  <2>1. DataInv
    <3>1. /\ leases \subseteq Macs /\ snap = {} /\ table = <<>> /\ prev = <<>> /\ sampler = Nothing
          /\ real = [m \in Macs |-> 0]
      BY DEF Init, QosConstants
    <3>2. Nothing \in Sampler
      BY CountsAre DEF Nothing, Sampler
    <3>3. QED
      BY <3>1, <3>2, CountsAre DEF DataInv
  <2>2. RateInv
    BY SMTT(30), CountsAre DEF Init, RateInv, RateBounded, Nothing
  <2>3. StreamInv
    <3>1. Closed \in Channel
      <4>1. <<>> \in Seq(Nat)
        OBVIOUS
      <4>2. QED
        BY <4>1 DEF Closed, Channel
    <3>2. chan \in [Subscribers -> Channel]
      BY <3>1 DEF Init
    <3>3. QED
      BY Zenon, <3>2 DEF Init, StreamInv
  <2>4. ShapeData
    <3>1. env \in Envs /\ tc = NoShaping /\ DOMAIN todo = Requests /\ over = FALSE /\ failed = FALSE
      BY DEF Init
    <3>2. cfg \in [enabled : BOOLEAN, profile : Profiles, rate : Rates]
      <4>1. cfg \in [enabled : {FALSE}, profile : env.profiles, rate : {1}]
        BY ZenonT(40) DEF Init
      <4>2. env.profiles \subseteq Profiles /\ 1 \in Rates
        BY <3>1 DEF Profiles, Rates
      <4>3. QED
        BY Zenon, <4>1, <4>2
    <3>3. QED
      BY ZenonT(40), <3>1, <3>2 DEF ShapeData, NoShaping, Rates
  <2>5. ShapeInv
    <3>1. Matches(cfg, tc)
      BY ZenonT(40) DEF Init, Matches, Bare, NoShaping
    <3>2. \A p \in Requests : todo[p] = <<>>
      BY SMTT(30) DEF Init
    <3>3. QED
      BY <3>1, <3>2 DEF ShapeInv
  <2>6. QED
    BY <2>1, <2>2, <2>3, <2>4, <2>5 DEF Inv
<1>2. Inv /\ [Next]_vars => Inv'
  BY DataStep, RateStep, StreamStep, ShapeDataStep, ShapeStep DEF Inv, QosConstants
<1>3. QED
  BY <1>1, <1>2, PTL DEF Spec

\* SamplePerClient: no sample reports more for a client than it moved since the sample
\* before, whatever rebuilds, failed listings, lease changes and flushed rulesets come
\* between, and for any cap and any interval of resyncs.
THEOREM RateIsBounded ==
  ASSUME QosConstants PROVE Spec => []RateBounded
<1>1. Inv => RateBounded
  BY DEF Inv, RateInv
<1>2. QED
  BY <1>1, Invariance, PTL

\* The broker: Publish sends on no closed channel, and a subscriber whose buffer was never
\* full has, in its hands and its buffer, every message since it subscribed, in order; for
\* any number of subscribers and any size of the buffer.
THEOREM StreamIsSafe ==
  ASSUME QosConstants PROVE Spec => []StreamSafe
<1>1. Inv => StreamSafe
  <2> SUFFICES ASSUME StreamInv PROVE StreamSafe
    BY DEF Inv
  <2>1. \A c \in sending : chan[c].st # "closed"
    BY DEF StreamInv
  <2>2. ASSUME NEW c \in clients \ sending, ~chan[c].lost
        PROVE  chan[c].queue = [i \in 1 .. sent - chan[c].got |-> chan[c].got + i]
    <3>1. Offered(c) = sent /\ Full(chan[c], Offered(c))
      BY DEF StreamInv, Offered
    <3>2. QED
      BY <2>2, <3>1 DEF Full
  <2>3. QED
    BY <2>1, <2>2 DEF StreamSafe
<1>2. QED
  BY <1>1, Invariance, PTL

\* HandleApply and HandleClear: once requests that did not overlap and did not fail are
\* done, the kernel shapes with the configured profile and rate if and only if QoS is
\* enabled, whatever profile, forms and order of requests.
THEOREM ShapingDoesMatch ==
  ASSUME QosConstants PROVE Spec => []ShapingMatches
<1>1. Inv => ShapingMatches
  BY DEF Inv, ShapeInv, ShapingMatches, Matches, Bare
<1>2. QED
  BY <1>1, Invariance, PTL
=============================================================================
