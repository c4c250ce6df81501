-------------------------- MODULE SiteToSiteProofs --------------------------
(* What SiteToSite promises for any names, range of tunnel addresses and number of
   requests, failing steps and restarts: the peer that FinalizeInvite and CancelInvite
   act on is the only one of its name that can be pending, an invited peer has an address
   of its own, an active peer is lost to nobody but the operator who removes it, and a
   finalised peer is in the running interface. *)
EXTENDS SiteToSite, FiniteSetTheorems, SequenceTheorems, WellFoundedInduction, TLAPS

-----------------------------------------------------------------------------
(* The inductive invariant. *)

\* q is made of some of the entries of ps, in their order.
Part(q, ps) ==
  \E f \in [1 .. Len(q) -> 1 .. Len(ps)] :
    /\ \A k, m \in 1 .. Len(q) : k < m => f[k] < f[m]
    /\ \A k \in 1 .. Len(q) : q[k] = ps[f[k]]

\* A list of peers, in memory or in router.yaml.  A pending one is the first of its name,
\* an active one has a key, and with one request at a time an invited one has an address
\* that none before it has.
Sound(e, ps) ==
  /\ ps \in Seq(Peer)
  /\ \A i \in 1 .. Len(ps) : /\ ps[i].by = "invite" => ps[i].ip \in 2 .. MaxAddress
                             /\ ~ps[i].pending => ps[i].key # NoKey
  /\ \A i, j \in 1 .. Len(ps) :
       i < j => /\ ps[i].name = ps[j].name => ~ps[j].pending
                /\ e = "serial" /\ ps[j].by = "invite" => ps[i].ip # ps[j].ip

DataInv ==
  /\ Sound(env, peers) /\ Sound(env, disk)
  /\ \A k \in tokens : /\ k.kind \in {"invite", "ack"} /\ k.name \in Names
                       /\ k.kind = "ack" => k.key = FreshKey
  /\ running \in BOOLEAN /\ up \in BOOLEAN
  /\ removed \in Nat /\ ops \in Nat /\ faults \in Nat /\ crashes \in Nat

\* The peer that a request is about to append.
NewPeer(p) ==
  /\ p \in Peer
  /\ p.by = "invite" => p.pending /\ p.ip \in 2 .. MaxAddress
  /\ p.by = "page" => ~p.pending /\ p.key # NoKey

Carries(r) ==
  /\ r.pc \in {"idle", "add", "save", "savefinal", "render", "strip", "write", "sync"}
  /\ r.pc \in {"add", "save"} => NewPeer(r.peer)

\* With one request at a time the address that nextTunnelIP found is still unused when
\* the peer is appended: meanwhile peers only go.
ReqInv ==
  /\ req = [t \in Tabs |-> req[t]]
  /\ \A t \in Tabs : Carries(req[t])
  /\ env = "serial" =>
       /\ req["t2"] = Idle
       /\ req["t1"].pc = "add" /\ req["t1"].peer.by = "invite" =>
            \A i \in 1 .. Len(peers) : peers[i].ip # req["t1"].peer.ip

\* The finalised peers are among the entries of a rendered or running configuration.
Entry(p) == [name |-> p.name, ip |-> p.ip, key |-> p.key]
Shown(ps, entries) ==
  \A i \in 1 .. Len(ps) : ps[i].by = "invite" /\ ~ps[i].pending => Entry(ps[i]) \in entries

\* How far a finalised peer has come on its way to the kernel.
LiveInv ==
  env = "serial" /\ faults = 0 /\ crashes = 0 =>
    /\ up /\ req["t1"].pc \in {"idle", "add", "save"} => Shown(peers, live)
    /\ req["t1"].pc = "strip" => Shown(peers, conf)
    /\ req["t1"].pc = "write" => Shown(peers, req["t1"].out)
    /\ req["t1"].pc = "sync" => Shown(peers, sync)

Inv == DataInv /\ ReqInv /\ LiveInv

-----------------------------------------------------------------------------
(* Lists of peers. *)

\* The types of a peer's fields.
LEMMA PeerFields ==
  ASSUME NEW p \in Peer
  PROVE  /\ p.name \in Names /\ p.id \in Nat /\ p.ip \in Nat /\ p.key \in {NoKey, ServerKey, FreshKey}
         /\ p.pending \in BOOLEAN /\ p.by \in {"invite", "page"}
BY DEF Peer

\* A sound list is a sequence of peers.
LEMMA SoundFields ==
  ASSUME NEW e, NEW ps, Sound(e, ps)
  PROVE  /\ ps \in Seq(Peer) /\ Len(ps) \in Nat /\ DOMAIN ps = 1 .. Len(ps)
         /\ \A i \in 1 .. Len(ps) : ps[i] \in Peer
<1>1. ps \in Seq(Peer)
  BY Zenon DEF Sound
<1>2. Len(ps) \in Nat /\ DOMAIN ps = 1 .. Len(ps)
  BY Zenon, <1>1, LenProperties
<1>3. \A i \in 1 .. Len(ps) : ps[i] \in Peer
  BY Zenon, <1>1, ElementOfSeq
<1>4. QED
  BY Zenon, <1>1, <1>2, <1>3

\* The empty list, as the process starts with it.
LEMMA EmptySound ==
  ASSUME NEW e
  PROVE  Sound(e, <<>>)
<1>1. <<>> \in Seq(Peer) /\ Len(<<>>) = 0
  BY Zenon, EmptySeq
<1>2. QED
  BY <1>1 DEF Sound

\* What is left of a sound list is sound, whatever was taken out.
LEMMA PartSound ==
  ASSUME NEW e, NEW ps, Sound(e, ps), NEW q \in Seq(Peer), Part(q, ps)
  PROVE  Sound(e, q)
<1>1. PICK f \in [1 .. Len(q) -> 1 .. Len(ps)] :
        /\ \A k, m \in 1 .. Len(q) : k < m => f[k] < f[m]
        /\ \A k \in 1 .. Len(q) : q[k] = ps[f[k]]
  BY Zenon DEF Part
<1>2. \A k \in 1 .. Len(q) : f[k] \in 1 .. Len(ps)
  BY Zenon, <1>1
<1>3. \A i \in 1 .. Len(q) : /\ q[i].by = "invite" => q[i].ip \in 2 .. MaxAddress
                             /\ ~q[i].pending => q[i].key # NoKey
  BY Zenon, <1>1, <1>2 DEF Sound
<1>4. \A i, j \in 1 .. Len(q) :
        i < j => /\ q[i].name = q[j].name => ~q[j].pending
                 /\ e = "serial" /\ q[j].by = "invite" => q[i].ip # q[j].ip
  <2> SUFFICES ASSUME NEW i \in 1 .. Len(q), NEW j \in 1 .. Len(q), i < j
               PROVE  /\ q[i].name = q[j].name => ~q[j].pending
                      /\ e = "serial" /\ q[j].by = "invite" => q[i].ip # q[j].ip
    BY Zenon
  <2>1. /\ f[i] \in 1 .. Len(ps) /\ f[j] \in 1 .. Len(ps) /\ f[i] < f[j]
        /\ q[i] = ps[f[i]] /\ q[j] = ps[f[j]]
    BY Zenon, <1>1, <1>2
  <2>2. /\ ps[f[i]].name = ps[f[j]].name => ~ps[f[j]].pending
        /\ e = "serial" /\ ps[f[j]].by = "invite" => ps[f[i]].ip # ps[f[j]].ip
    BY Zenon, <2>1 DEF Sound
  <2>3. QED
    BY Zenon, <2>1, <2>2
<1>5. QED
  BY Zenon, <1>3, <1>4 DEF Sound

\* Nothing comes in when entries are taken out.
LEMMA PartElements ==
  ASSUME NEW q, NEW ps, Part(q, ps)
  PROVE  \A k \in 1 .. Len(q) : \E i \in 1 .. Len(ps) : q[k] = ps[i]
<1>1. PICK f \in [1 .. Len(q) -> 1 .. Len(ps)] : \A k \in 1 .. Len(q) : q[k] = ps[f[k]]
  BY Zenon DEF Part
<1>2. \A k \in 1 .. Len(q) : f[k] \in 1 .. Len(ps)
  BY Zenon, <1>1
<1>3. QED
  BY Zenon, <1>1, <1>2

\* Taking out the i-th entry leaves the others.
LEMMA WithoutIsPart ==
  ASSUME NEW ps \in Seq(Peer), NEW i \in 1 .. Len(ps)
  PROVE  /\ Without(ps, i) \in Seq(Peer) /\ Part(Without(ps, i), ps)
         /\ \A j \in 1 .. Len(ps) : j # i => ps[j] \in Range(Without(ps, i))
<1> DEFINE a == SubSeq(ps, 1, i - 1)
           b == SubSeq(ps, i + 1, Len(ps))
           w == a \o b
           f == [j \in 1 .. Len(w) |-> IF j < i THEN j ELSE j + 1]
<1>0. Len(ps) \in Nat
  BY Zenon, LenProperties
<1>1. /\ a \in Seq(Peer) /\ Len(a) = i - 1
      /\ \A j \in 1 .. i - 1 : a[j] = ps[j]
  BY SubSeqProperties
<1>2. /\ b \in Seq(Peer) /\ Len(b) = Len(ps) - i
      /\ \A j \in 1 .. Len(ps) - i : b[j] = ps[i + j]
  BY SubSeqProperties
<1> HIDE DEF a, b
<1>3. /\ w \in Seq(Peer) /\ Len(w) = Len(ps) - 1
      /\ \A j \in 1 .. Len(ps) - 1 : w[j] = IF j <= i - 1 THEN a[j] ELSE b[j - (i - 1)]
  <2>1. /\ w \in Seq(Peer) /\ Len(w) = Len(a) + Len(b)
        /\ \A j \in 1 .. Len(a) + Len(b) : w[j] = IF j <= Len(a) THEN a[j] ELSE b[j - Len(a)]
    BY Zenon, <1>1, <1>2, ConcatProperties
  <2>2. Len(a) = i - 1 /\ Len(a) + Len(b) = Len(ps) - 1
    BY <1>0, <1>1, <1>2
  <2>3. QED
    BY <2>1, <2>2
<1> HIDE DEF w
<1>4. ASSUME NEW j \in 1 .. Len(ps) - 1
      PROVE  w[j] = ps[IF j < i THEN j ELSE j + 1]
  <2>1. CASE j < i
    BY <1>0, <1>1, <1>3, <2>1
  <2>2. CASE ~(j < i)
    BY <1>0, <1>2, <1>3, <2>2
  <2>3. QED
    BY Zenon, <2>1, <2>2
<1>5. f \in [1 .. Len(w) -> 1 .. Len(ps)]
  BY <1>0, <1>3
<1>6. \A k, m \in 1 .. Len(w) : k < m => f[k] < f[m]
  BY <1>0, <1>3
<1>7. \A k \in 1 .. Len(w) : w[k] = ps[f[k]]
  BY <1>0, <1>3, <1>4
<1>8. Part(w, ps)
  <2> HIDE DEF f
  <2>1. QED
    BY Zenon, <1>5, <1>6, <1>7 DEF Part
<1>9. ASSUME NEW j \in 1 .. Len(ps), j # i
      PROVE  ps[j] \in Range(w)
  <2>1. DOMAIN w = 1 .. Len(w)
    BY Zenon, <1>3, LenProperties
  <2>2. CASE j < i
    <3>1. j \in 1 .. Len(w) /\ w[j] = ps[j]
      BY <1>0, <1>3, <1>4, <2>2
    <3>2. QED
      BY Zenon, <2>1, <3>1 DEF Range
  <2>3. CASE j > i
    <3>1. j - 1 \in 1 .. Len(w) /\ w[j - 1] = ps[j]
      BY <1>0, <1>3, <1>4, <2>3
    <3>2. QED
      BY Zenon, <2>1, <3>1 DEF Range
  <2>4. QED
    BY <1>0, <1>9, <2>2, <2>3
<1>10. Without(ps, i) = w
  BY Zenon DEF Without, w, a, b
<1>11. QED
  BY Zenon, <1>3, <1>8, <1>9, <1>10

\* What the sweep keeps is a part of the list, and every place it keeps is in it.
LEMMA SweepIsPart ==
  ASSUME NEW ps \in Seq(Peer), NEW kept \in SUBSET (1 .. Len(ps)), NEW left \in Ascending(kept),
         NEW q, q = [k \in DOMAIN left |-> ps[left[k]]]
  PROVE  /\ q \in Seq(Peer) /\ Part(q, ps)
         /\ \A j \in kept : ps[j] \in Range(q)
<1> DEFINE n == Cardinality(kept)
<1>1. Len(ps) \in Nat /\ \A i \in 1 .. Len(ps) : ps[i] \in Peer
  BY Zenon, LenProperties, ElementOfSeq
<1>2. n \in Nat
  <2>1. IsFiniteSet(1 .. Len(ps))
    BY <1>1, FS_Interval
  <2>2. IsFiniteSet(kept)
    BY Zenon, <2>1, FS_Subset
  <2>3. QED
    BY Zenon, <2>2, FS_CardinalityType
<1> HIDE DEF n
<1>3. /\ left \in [1 .. n -> kept] /\ Range(left) = kept
      /\ \A i, j \in 1 .. n : i < j => left[i] < left[j]
  <2>1. /\ left \in [1 .. n -> kept] /\ Range(left) = kept
        /\ \A i, j \in DOMAIN left : i < j => left[i] < left[j]
    BY Zenon DEF Ascending, n
  <2>2. DOMAIN left = 1 .. n
    BY Zenon, <2>1
  <2>3. QED
    BY Zenon, <2>1, <2>2
<1>4. q = [k \in 1 .. n |-> ps[left[k]]]
  BY Zenon, <1>3
<1>5. \A k \in 1 .. n : left[k] \in kept /\ left[k] \in 1 .. Len(ps)
  BY Zenon, <1>3
<1>6. q \in [1 .. n -> Peer]
  BY Zenon, <1>1, <1>4, <1>5
<1>7. q \in Seq(Peer)
  BY Zenon, <1>2, <1>6, SeqDef
<1>8. Len(q) = n
  BY <1>2, <1>6, <1>7
<1>9. left \in [1 .. Len(q) -> 1 .. Len(ps)]
  BY Zenon, <1>3, <1>8
<1>10. \A k \in 1 .. Len(q) : q[k] = ps[left[k]]
  BY Zenon, <1>4, <1>8
<1>11. Part(q, ps)
  BY Zenon, <1>3, <1>8, <1>9, <1>10 DEF Part
<1>12. ASSUME NEW j \in kept
       PROVE  ps[j] \in Range(q)
  <2>1. PICK k \in 1 .. n : left[k] = j
    BY Zenon, <1>3 DEF Range
  <2>2. k \in DOMAIN q /\ q[k] = ps[j]
    BY Zenon, <1>4, <2>1
  <2>3. QED
    BY Zenon, <2>2 DEF Range
<1>13. QED
  BY Zenon, <1>7, <1>11, <1>12

\* Min of the library is the least element, also of an infinite set of naturals.
LEMMA LeastIs ==
  ASSUME NEW S \in SUBSET Nat, S # {}
  PROVE  Min(S) \in S /\ \A m \in S : Min(S) <= m
<1>1. PICK k \in S : \A m \in S : ~(<<m, k>> \in OpToRel(<, Nat))
  BY Zenon, NatLessThanWellFounded, WFMin
<1>2. \A m \in S : k <= m
  <2> TAKE m \in S
  <2>1. k \in Nat /\ m \in Nat
    OBVIOUS
  <2>2. ~(m < k)
    BY Zenon, <1>1, <2>1 DEF OpToRel
  <2>3. QED
    BY <2>1, <2>2
<1>3. QED
  BY Zenon, <1>2 DEF Min

\* The entry that the pages and the wizard act on is the first of the name.
LEMMA FirstIs ==
  ASSUME NEW ps \in Seq(Peer), NEW n \in NamesOf(ps)
  PROVE  /\ First(ps, n) \in 1 .. Len(ps) /\ ps[First(ps, n)].name = n
         /\ \A j \in 1 .. Len(ps) : ps[j].name = n => First(ps, n) <= j
<1> DEFINE S == {i \in DOMAIN ps : ps[i].name = n}
<1>1. Len(ps) \in Nat /\ DOMAIN ps = 1 .. Len(ps)
  BY Zenon, LenProperties
<1>2. S \subseteq Nat
  BY <1>1
<1>3. S # {}
  BY Zenon DEF NamesOf
<1>4. First(ps, n) = Min(S)
  BY Zenon DEF First
<1>5. \A j \in 1 .. Len(ps) : ps[j].name = n => j \in S
  BY Zenon, <1>1
<1>6. \A j \in S : j \in 1 .. Len(ps) /\ ps[j].name = n
  BY Zenon, <1>1
<1> HIDE DEF S
<1>7. Min(S) \in S /\ \A m \in S : Min(S) <= m
  BY Zenon, <1>2, <1>3, LeastIs
<1>8. QED
  BY Zenon, <1>4, <1>5, <1>6, <1>7

\* A pending entry is the first of its name.
LEMMA PendingIsFirst ==
  ASSUME NEW e, NEW ps, Sound(e, ps), NEW i \in 1 .. Len(ps), ps[i].pending
  PROVE  i = First(ps, ps[i].name)
<1>1. ps \in Seq(Peer) /\ Len(ps) \in Nat /\ DOMAIN ps = 1 .. Len(ps)
  BY Zenon, SoundFields
<1> DEFINE f == First(ps, ps[i].name)
<1>2. ps[i].name \in NamesOf(ps)
  BY Zenon, <1>1 DEF NamesOf
<1>3. f \in 1 .. Len(ps) /\ ps[f].name = ps[i].name /\ f <= i
  BY Zenon, <1>1, <1>2, FirstIs
<1> HIDE DEF f
<1>4. ~(f < i)
  BY Zenon, <1>3 DEF Sound
<1>5. f = i
  BY <1>1, <1>3, <1>4
<1>6. QED
  BY Zenon, <1>5 DEF f

\* A peer is appended: an invited one has a new name, and with one request at a time a
\* new address.
LEMMA AppendSound ==
  ASSUME NEW e, NEW ps, Sound(e, ps), NEW p, NewPeer(p),
         p.by = "invite" => p.name \notin NamesOf(ps),
         e = "serial" /\ p.by = "invite" => \A i \in 1 .. Len(ps) : ps[i].ip # p.ip
  PROVE  Sound(e, Append(ps, p))
<1> DEFINE q == Append(ps, p)
           n == Len(ps)
<1>1. ps \in Seq(Peer) /\ n \in Nat /\ DOMAIN ps = 1 .. n
  BY Zenon, SoundFields
<1>2. p \in Peer /\ p.by \in {"invite", "page"}
  BY Zenon, PeerFields DEF NewPeer
<1>3. /\ q \in Seq(Peer) /\ Len(q) = n + 1
      /\ \A i \in 1 .. n : q[i] = ps[i]
      /\ q[n + 1] = p
  BY <1>1, <1>2, AppendProperties
<1> HIDE DEF q
<1>4. \A i \in 1 .. n + 1 : i \in 1 .. n \/ i = n + 1
  BY <1>1
<1>5. \A i, j \in 1 .. n + 1 : i < j => i \in 1 .. n
  BY <1>1
<1>6. \A i \in 1 .. Len(q) : /\ q[i].by = "invite" => q[i].ip \in 2 .. MaxAddress
                             /\ ~q[i].pending => q[i].key # NoKey
  <2>1. p.by = "invite" => p.ip \in 2 .. MaxAddress
    BY Zenon DEF NewPeer
  <2>2. ~p.pending => p.key # NoKey
    BY Zenon, <1>2 DEF NewPeer
  <2>3. QED
    BY Zenon, <1>3, <1>4, <2>1, <2>2 DEF Sound
<1>7. ASSUME NEW i \in 1 .. Len(q), NEW j \in 1 .. Len(q), i < j
      PROVE  /\ q[i].name = q[j].name => ~q[j].pending
             /\ e = "serial" /\ q[j].by = "invite" => q[i].ip # q[j].ip
  <2>1. i \in 1 .. n /\ q[i] = ps[i]
    BY Zenon, <1>3, <1>5, <1>7
  <2>2. CASE j \in 1 .. n
    BY Zenon, <1>3, <1>7, <2>1, <2>2 DEF Sound
  <2>3. CASE j = n + 1
    <3>1. q[j] = p
      BY Zenon, <1>3, <2>3
    <3>2. p.by = "invite" => ps[i].name # p.name
      BY Zenon, <1>1, <2>1 DEF NamesOf
    <3>3. p.by = "page" => ~p.pending
      BY Zenon DEF NewPeer
    <3>4. QED
      BY Zenon, <1>2, <2>1, <3>1, <3>2, <3>3
  <2>4. QED
    BY Zenon, <1>3, <1>4, <2>2, <2>3
<1>8. QED
  BY Zenon, <1>3, <1>6, <1>7 DEF Sound, q

\* One entry gets a key and is active from now on; all others stay.
LEMMA ActivatedSound ==
  ASSUME NEW e, NEW ps, Sound(e, ps), NEW i \in 1 .. Len(ps), NEW p \in Peer, ~p.pending, p.key # NoKey,
         p.name = ps[i].name, p.ip = ps[i].ip, p.by = ps[i].by
  PROVE  LET q == [ps EXCEPT ![i] = p] IN
         /\ Sound(e, q) /\ Len(q) = Len(ps)
         /\ \A j \in 1 .. Len(ps) : j # i => q[j] = ps[j]
<1> DEFINE q == [ps EXCEPT ![i] = p]
<1>1. /\ ps \in Seq(Peer) /\ Len(ps) \in Nat /\ DOMAIN ps = 1 .. Len(ps)
      /\ \A j \in 1 .. Len(ps) : ps[j] \in Peer
  BY Zenon, SoundFields
<1>3. q \in Seq(Peer) /\ Len(q) = Len(ps)
  BY <1>1, ExceptSeq
<1>4. q[i] = p /\ \A j \in 1 .. Len(ps) : j # i => q[j] = ps[j]
  BY Zenon, <1>1
<1> HIDE DEF q
<1>5. \A j \in 1 .. Len(ps) : q[j].name = ps[j].name /\ q[j].ip = ps[j].ip /\ q[j].by = ps[j].by
  BY Zenon, <1>4
<1>6. \A j \in 1 .. Len(ps) : q[j].pending => ps[j].pending
  BY Zenon, <1>4
<1>7. \A j \in 1 .. Len(q) : /\ q[j].by = "invite" => q[j].ip \in 2 .. MaxAddress
                             /\ ~q[j].pending => q[j].key # NoKey
  BY Zenon, <1>3, <1>4 DEF Sound
<1>8. \A j, k \in 1 .. Len(q) :
        j < k => /\ q[j].name = q[k].name => ~q[k].pending
                 /\ e = "serial" /\ q[k].by = "invite" => q[j].ip # q[k].ip
  <2> SUFFICES ASSUME NEW j \in 1 .. Len(ps), NEW k \in 1 .. Len(ps), j < k
               PROVE  /\ q[j].name = q[k].name => ~q[k].pending
                      /\ e = "serial" /\ q[k].by = "invite" => q[j].ip # q[k].ip
    BY Zenon, <1>3
  <2>1. /\ ps[j].name = ps[k].name => ~ps[k].pending
        /\ e = "serial" /\ ps[k].by = "invite" => ps[j].ip # ps[k].ip
    BY Zenon DEF Sound
  <2>2. QED
    BY Zenon, <1>5, <1>6, <2>1
<1>9. QED
  BY Zenon, <1>3, <1>4, <1>7, <1>8 DEF Sound, q

\* A rendered configuration has every finalised peer: none of them is without a key.
LEMMA ConfShown ==
  ASSUME NEW e, NEW ps, Sound(e, ps)
  PROVE  Shown(ps, Conf(ps))
<1>1. DOMAIN ps = 1 .. Len(ps)
  BY Zenon, SoundFields
<1>2. QED
  BY Zenon, <1>1 DEF Shown, Conf, Entry, Sound

\* A new peer needs nothing in the kernel as yet.
LEMMA AppendShown ==
  ASSUME NEW e, NEW ps, Sound(e, ps), NEW p, NewPeer(p), NEW entries, Shown(ps, entries)
  PROVE  Shown(Append(ps, p), entries)
<1>1. ps \in Seq(Peer) /\ Len(ps) \in Nat /\ p \in Peer
  BY Zenon, SoundFields DEF NewPeer
<1>2. /\ Len(Append(ps, p)) = Len(ps) + 1
      /\ \A i \in 1 .. Len(ps) : Append(ps, p)[i] = ps[i]
      /\ Append(ps, p)[Len(ps) + 1] = p
  BY <1>1, AppendProperties
<1>3. \A i \in 1 .. Len(ps) + 1 : i \in 1 .. Len(ps) \/ i = Len(ps) + 1
  BY <1>1
<1>4. ~(p.by = "invite" /\ ~p.pending)
  BY Zenon DEF NewPeer
<1>5. QED
  BY Zenon, <1>2, <1>3, <1>4 DEF Shown

-----------------------------------------------------------------------------
(* The steps. *)

\* What a step of a request leaves of the others.
LEMMA GoesFields ==
  ASSUME ReqInv, NEW t \in Tabs, NEW r, Goes(t, r)
  PROVE  /\ req' = [u \in Tabs |-> req'[u]] /\ req'[t] = r
         /\ \A u \in Tabs : u # t => req'[u] = req[u]
<1>1. req = [u \in Tabs |-> req[u]]
  BY Zenon DEF ReqInv
<1>2. req' = [req EXCEPT ![t] = r]
  BY Zenon DEF Goes
<1>3. DOMAIN req = Tabs
  BY Zenon, <1>1
<1>4. req' = [u \in Tabs |-> IF u = t THEN r ELSE req[u]]
  BY Zenon, <1>2, <1>3
<1>5. QED
  BY Zenon, <1>4

\* The steps that change the list of peers.
LEMMA PeerSteps ==
  ASSUME [Next]_vars
  PROVE  \/ peers' = peers
         \/ \E t \in Tabs : Append1(t) \/ Finalize(t) \/ Cancel(t) \/ RemovePeer(t)
         \/ GCExpiredInvites \/ Restart
BY Zenon DEF Next, Request, vars, router, Create, AddPeer, SavePeer, SaveFinal, RenderSync, Strip, WriteSync,
  SyncConf, Join, Expire, ServerUp, ServerDown

\* The counters count, and the environment stays.
LEMMA BoundsStep ==
  ASSUME DataInv, [Next]_vars
  PROVE  /\ env' = env /\ removed' \in Nat /\ ops' \in Nat /\ faults' \in Nat /\ crashes' \in Nat
         /\ faults' = 0 => faults = 0
         /\ crashes' = 0 => crashes = 0
<1>1. /\ env' = env
      /\ removed' = removed \/ removed' = removed + 1
      /\ ops' = ops \/ ops' = ops + 1
      /\ faults' = faults \/ faults' = faults + 1
      /\ crashes' = crashes \/ crashes' = crashes + 1
  BY Zenon DEF Next, Request, vars, bounds, Create, AddPeer, Append1, SavePeer, Join, Finalize, SaveFinal,
    RenderSync, Strip, WriteSync, SyncConf, Saved, Cancel, RemovePeer, Expire, GCExpiredInvites, ServerUp,
    ServerDown, Restart, Op, Ok, Fault
<1>2. removed \in Nat /\ ops \in Nat /\ faults \in Nat /\ crashes \in Nat
  BY Zenon DEF DataInv
<1>3. QED
  BY <1>1, <1>2

\* CancelInvite, RemovePeer and the sweep take entries out, the first and the last only
\* pending ones.
LEMMA TakenOut ==
  ASSUME DataInv, (\E t \in Tabs : Cancel(t) \/ RemovePeer(t)) \/ GCExpiredInvites
  PROVE  /\ peers' \in Seq(Peer) /\ Part(peers', peers)
         /\ \A i \in 1 .. Len(peers) :
              ~peers[i].pending /\ removed' = removed => peers[i] \in Range(peers')
<1>1. peers \in Seq(Peer) /\ Len(peers) \in Nat /\ DOMAIN peers = 1 .. Len(peers)
  BY Zenon, SoundFields DEF DataInv
<1>2. CASE \E t \in Tabs : Cancel(t)
  <2>1. PICK n \in NamesOf(peers) : /\ peers[First(peers, n)].pending
                                    /\ peers' = Without(peers, First(peers, n))
    BY Zenon, <1>2 DEF Cancel
  <2>2. First(peers, n) \in 1 .. Len(peers)
    BY Zenon, <1>1, FirstIs
  <2>3. QED
    BY Zenon, <1>1, <2>1, <2>2, WithoutIsPart
<1>3. CASE \E t \in Tabs : RemovePeer(t)
  <2>1. PICK n \in NamesOf(peers) : peers' = Without(peers, First(peers, n))
    BY Zenon, <1>3 DEF RemovePeer
  <2>2. First(peers, n) \in 1 .. Len(peers)
    BY Zenon, <1>1, FirstIs
  <2>3. removed' # removed
    BY <1>3 DEF RemovePeer, DataInv
  <2>4. QED
    BY Zenon, <1>1, <2>1, <2>2, <2>3, WithoutIsPart
<1>4. CASE GCExpiredInvites
  <2> DEFINE kept == {i \in DOMAIN peers : ~Lapsed(peers[i])}
  <2>1. PICK left \in Ascending(kept) : peers' = [k \in DOMAIN left |-> peers[left[k]]]
    BY Zenon, <1>4 DEF GCExpiredInvites, Unlapsed
  <2>2. kept \in SUBSET (1 .. Len(peers))
    BY Zenon, <1>1
  <2>3. \A i \in 1 .. Len(peers) : ~peers[i].pending => i \in kept
    BY Zenon, <1>1 DEF Lapsed
  <2> HIDE DEF kept
  <2>4. /\ peers' \in Seq(Peer) /\ Part(peers', peers)
        /\ \A j \in kept : peers[j] \in Range(peers')
    BY Zenon, <1>1, <2>1, <2>2, SweepIsPart
  <2>5. QED
    BY Zenon, <2>3, <2>4
<1>5. QED
  BY Zenon, <1>2, <1>3, <1>4

\* FinalizeInvite changes a pending entry.
LEMMA FinalizeEffect ==
  ASSUME DataInv, NEW t \in Tabs, Finalize(t)
  PROVE  /\ Sound(env, peers') /\ Len(peers') = Len(peers)
         /\ \A i \in 1 .. Len(peers) : ~peers[i].pending => peers'[i] = peers[i]
<1>1. /\ Sound(env, peers) /\ peers \in Seq(Peer)
      /\ \A i \in 1 .. Len(peers) : peers[i] \in Peer
      /\ \A k \in tokens : k.kind = "ack" => k.key = FreshKey
  BY Zenon, SoundFields DEF DataInv
<1>2. PICK k \in tokens : /\ k.kind = "ack" /\ k.name \in NamesOf(peers)
                          /\ LET i == First(peers, k.name) IN
                             /\ peers[i].pending
                             /\ peers' = [peers EXCEPT ![i] = Finalized(peers[i], k)]
  BY Zenon DEF Finalize
<1> DEFINE i == First(peers, k.name)
<1>3. i \in 1 .. Len(peers)
  BY Zenon, <1>1, <1>2, FirstIs
<1>4. peers[i].pending /\ peers' = [peers EXCEPT ![i] = Finalized(peers[i], k)]
  BY Zenon, <1>2
<1> HIDE DEF i
<1>5. /\ Sound(env, peers') /\ Len(peers') = Len(peers)
      /\ \A j \in 1 .. Len(peers) : j # i => peers'[j] = peers[j]
  <2> DEFINE p == Finalized(peers[i], k)
  <2>1. k.key = FreshKey /\ peers[i] \in Peer
    BY Zenon, <1>1, <1>2, <1>3
  <2>2. /\ p \in Peer /\ ~p.pending /\ p.key # NoKey
        /\ p.name = peers[i].name /\ p.ip = peers[i].ip /\ p.by = peers[i].by
    BY Zenon, <2>1 DEF Finalized, Peer, FreshKey, NoKey, ServerKey
  <2>3. peers' = [peers EXCEPT ![i] = p]
    BY Zenon, <1>4
  <2> HIDE DEF p
  <2>4. LET q == [peers EXCEPT ![i] = p] IN
        /\ Sound(env, q) /\ Len(q) = Len(peers)
        /\ \A j \in 1 .. Len(peers) : j # i => q[j] = peers[j]
    BY <1>1, <1>3, <2>2, ActivatedSound
  <2>5. QED
    BY <2>3, <2>4
<1>6. QED
  BY Zenon, <1>4, <1>5

\* With one request at a time only the first tab has one.
LEMMA SerialTab ==
  ASSUME ReqInv, env = "serial", NEW t \in Tabs, req[t].pc # "idle" \/ Free(t)
  PROVE  t = "t1"
<1>1. req["t2"].pc = "idle"
  <2>1. req["t2"] = Idle
    BY Zenon DEF ReqInv
  <2>2. QED
    BY <2>1 DEF Idle
<1>2. QED
  BY Zenon, <1>1 DEF Tabs, Free

\* A peer is appended or refused.
LEMMA AppendEffect ==
  ASSUME DataInv, ReqInv, NEW t \in Tabs, Append1(t)
  PROVE  /\ Sound(env, peers')
         /\ \/ peers' = peers /\ Goes(t, Idle)
            \/ /\ peers' = Append(peers, req[t].peer)
               /\ Goes(t, [pc |-> "save", peer |-> req[t].peer])
         /\ NewPeer(req[t].peer)
<1> DEFINE p == req[t].peer
<1>1. req[t].pc = "add" /\ NewPeer(p)
  BY Zenon DEF Append1, At, ReqInv, Carries
<1>2. \/ peers' = peers /\ Goes(t, Idle)
      \/ /\ ~(p.by = "invite" /\ p.name \in NamesOf(peers))
         /\ peers' = Append(peers, p)
         /\ Goes(t, [pc |-> "save", peer |-> p])
  BY Zenon DEF Append1, router
<1>3. env = "serial" /\ p.by = "invite" => \A i \in 1 .. Len(peers) : peers[i].ip # p.ip
  <2> SUFFICES ASSUME env = "serial", p.by = "invite" PROVE \A i \in 1 .. Len(peers) : peers[i].ip # p.ip
    BY Zenon
  <2>1. t = "t1"
    BY <1>1, SerialTab
  <2>2. QED
    BY Zenon, <1>1, <2>1 DEF ReqInv
<1>4. Sound(env, peers)
  BY Zenon DEF DataInv
<1> HIDE DEF p
<1>5. Sound(env, peers')
  BY Zenon, <1>1, <1>2, <1>3, <1>4, AppendSound
<1>6. QED
  BY Zenon, <1>1, <1>2, <1>5 DEF p

\* The list in memory stays sound.
LEMMA PeersSound ==
  ASSUME DataInv, ReqInv, [Next]_vars
  PROVE  Sound(env, peers')
<1>0. Sound(env, peers) /\ Sound(env, disk)
  BY Zenon DEF DataInv
<1>1. CASE peers' = peers
  BY Zenon, <1>0, <1>1
<1>2. CASE \E t \in Tabs : Append1(t)
  BY Zenon, <1>2, AppendEffect
<1>3. CASE \E t \in Tabs : Finalize(t)
  BY Zenon, <1>3, FinalizeEffect
<1>4. CASE (\E t \in Tabs : Cancel(t) \/ RemovePeer(t)) \/ GCExpiredInvites
  BY Zenon, <1>0, <1>4, TakenOut, PartSound
<1>5. CASE Restart
  BY Zenon, <1>0, <1>5 DEF Restart
<1>6. QED
  BY Zenon, <1>1, <1>2, <1>3, <1>4, <1>5, PeerSteps

\* The counters, the tokens and both lists.
LEMMA DataStep ==
  ASSUME DataInv, ReqInv, [Next]_vars
  PROVE  DataInv'
<1>1. /\ env' = env /\ removed' \in Nat /\ ops' \in Nat /\ faults' \in Nat /\ crashes' \in Nat
  BY Zenon, BoundsStep
<1>2. Sound(env, peers')
  BY Zenon, PeersSound
<1>3. disk' = disk \/ disk' = peers \/ disk' = peers'
  BY Zenon DEF Next, Request, vars, router, Create, AddPeer, Append1, SavePeer, Join, Finalize, SaveFinal,
    RenderSync, Strip, WriteSync, SyncConf, Saved, Cancel, RemovePeer, Expire, GCExpiredInvites, ServerUp,
    ServerDown, Restart
<1>4. Sound(env, disk')
  BY Zenon, <1>2, <1>3 DEF DataInv
<1>5. running' \in BOOLEAN /\ up' \in BOOLEAN
  <2>1. /\ running' = running \/ running' = TRUE \/ running' = FALSE
        /\ up' = up \/ up' = TRUE \/ up' = FALSE
    BY Zenon DEF Next, Request, vars, wg, Create, AddPeer, Append1, SavePeer, Join, Finalize, SaveFinal,
      RenderSync, Strip, WriteSync, SyncConf, Cancel, RemovePeer, Expire, GCExpiredInvites, ServerUp,
      ServerDown, Restart
  <2>2. QED
    BY Zenon, <2>1 DEF DataInv
<1> DEFINE Good(k) == /\ k.kind \in {"invite", "ack"} /\ k.name \in Names
                      /\ k.kind = "ack" => k.key = FreshKey
<1>6. \A k \in tokens : Good(k)
  BY Zenon DEF DataInv
<1>7. \A k \in tokens' : Good(k)
  <2>1. CASE tokens' = tokens
    BY Zenon, <1>6, <2>1
  <2>2. CASE \E t \in Tabs : SavePeer(t)
    <3>1. PICK t \in Tabs : SavePeer(t)
      BY Zenon, <2>2
    <3> DEFINE p == req[t].peer
               k == [kind |-> "invite", name |-> p.name, id |-> p.id, key |-> NoKey]
    <3>2. NewPeer(p)
      BY Zenon, <3>1 DEF SavePeer, At, ReqInv, Carries
    <3>3. p.name \in Names
      BY Zenon, <3>2, PeerFields DEF NewPeer
    <3>4. tokens' = tokens \/ tokens' = tokens \cup {k}
      BY Zenon, <3>1 DEF SavePeer
    <3>5. Good(k)
      BY <3>3
    <3> HIDE DEF k, Good
    <3>6. QED
      BY Zenon, <1>6, <3>4, <3>5
  <2>3. CASE Join
    <3>1. PICK k \in tokens :
            \/ tokens' = tokens \cup {[kind |-> "ack", name |-> k.name, id |-> k.id, key |-> FreshKey]}
            \/ tokens' = tokens
      BY Zenon, <2>3 DEF Join
    <3>2. k.name \in Names
      BY Zenon, <1>6
    <3> DEFINE a == [kind |-> "ack", name |-> k.name, id |-> k.id, key |-> FreshKey]
    <3>3. Good(a)
      BY <3>2
    <3>4. tokens' = tokens \cup {a} \/ tokens' = tokens
      BY Zenon, <3>1
    <3> HIDE DEF a, Good
    <3>5. QED
      BY Zenon, <1>6, <3>3, <3>4
  <2>4. tokens' = tokens \/ (\E t \in Tabs : SavePeer(t)) \/ Join
    BY Zenon DEF Next, Request, vars, router, Create, AddPeer, Append1, Finalize, SaveFinal, RenderSync, Strip,
      WriteSync, SyncConf, Cancel, RemovePeer, Expire, GCExpiredInvites, ServerUp, ServerDown, Restart
  <2>5. QED
    BY Zenon, <2>1, <2>2, <2>3, <2>4
<1>8. QED
  BY Zenon, <1>1, <1>2, <1>4, <1>5, <1>7 DEF DataInv

\* nextTunnelIP, when it finds an address, finds an unused one.
LEMMA LowestUnused ==
  ASSUME NextTunnelIP(peers) # {}
  PROVE  Min(NextTunnelIP(peers)) \in NextTunnelIP(peers)
<1>1. NextTunnelIP(peers) \subseteq Nat
  BY SiteAssumption DEF NextTunnelIP
<1>2. QED
  BY Zenon, <1>1, LeastIs

\* A step moves at most one request, and only to a state in which it carries what it should.
\* When it moves none, peers only go.
LEMMA ReqSteps ==
  ASSUME DataInv, ReqInv, [Next]_vars
  PROVE  \/ req' = req /\ (peers' = peers \/ Part(peers', peers))
         \/ req' = [t \in Tabs |-> Idle]
         \/ \E t \in Tabs : \E r :
              /\ Goes(t, r) /\ Carries(r)
              /\ env = "serial" => t = "t1"
              /\ env = "serial" /\ r.pc = "add" /\ r.peer.by = "invite" =>
                   \A i \in 1 .. Len(peers') : peers'[i].ip # r.peer.ip
<1>0. peers \in Seq(Peer) /\ Len(peers) \in Nat /\ DOMAIN peers = 1 .. Len(peers) /\ ops' \in Nat
  BY Zenon, SoundFields, BoundsStep DEF DataInv
<1>1. CASE \E t \in Tabs : Create(t)
  <2>1. PICK t \in Tabs, n \in Names :
          /\ Free(t) /\ NextTunnelIP(peers) # {} /\ peers' = peers
          /\ Goes(t, [pc |-> "add", peer |-> [name |-> n, id |-> ops', ip |-> Min(NextTunnelIP(peers)),
                                               key |-> NoKey, pending |-> TRUE, by |-> "invite"]])
    BY Zenon, <1>1 DEF Create, router
  <2> DEFINE a == Min(NextTunnelIP(peers))
             p == [name |-> n, id |-> ops', ip |-> a, key |-> NoKey, pending |-> TRUE, by |-> "invite"]
             r == [pc |-> "add", peer |-> p]
  <2>2. a \in NextTunnelIP(peers)
    BY Zenon, <2>1, LowestUnused
  <2>3. a \in 2 .. MaxAddress /\ \A i \in 1 .. Len(peers) : peers[i].ip # a
    BY Zenon, <1>0, <2>2 DEF NextTunnelIP
  <2>4. a \in Nat
    BY <2>3, SiteAssumption
  <2> HIDE DEF a
  <2>5. NewPeer(p) /\ p.ip = a
    BY <1>0, <2>3, <2>4 DEF NewPeer, Peer
  <2> HIDE DEF p
  <2>6. Carries(r) /\ r.pc = "add" /\ r.peer = p
    BY <2>5 DEF Carries
  <2>7. Goes(t, r)
    BY Zenon, <2>1 DEF p, a
  <2>8. env = "serial" => t = "t1"
    BY Zenon, <2>1, SerialTab
  <2> HIDE DEF r
  <2>9. QED
    BY Zenon, <2>1, <2>3, <2>5, <2>6, <2>7, <2>8
<1>2. CASE \E t \in Tabs : AddPeer(t)
  <2>1. PICK t \in Tabs, n \in Names :
          /\ Free(t)
          /\ Goes(t, [pc |-> "add", peer |-> [name |-> n, id |-> ops', ip |-> Len(peers) + 2,
                                               key |-> FreshKey, pending |-> FALSE, by |-> "page"]])
    BY Zenon, <1>2 DEF AddPeer
  <2> DEFINE p == [name |-> n, id |-> ops', ip |-> Len(peers) + 2, key |-> FreshKey, pending |-> FALSE,
                   by |-> "page"]
             r == [pc |-> "add", peer |-> p]
  <2>2. NewPeer(p) /\ p.by # "invite"
    <3>1. Len(peers) + 2 \in Nat
      BY <1>0
    <3>2. QED
      BY <1>0, <3>1 DEF NewPeer, Peer, FreshKey, NoKey, ServerKey
  <2>3. Goes(t, r)
    BY Zenon, <2>1
  <2> HIDE DEF p
  <2>4. Carries(r) /\ r.peer.by # "invite"
    BY <2>2 DEF Carries
  <2>5. env = "serial" => t = "t1"
    BY Zenon, <2>1, SerialTab
  <2> HIDE DEF r
  <2>6. QED
    BY Zenon, <2>3, <2>4, <2>5
<1>3. CASE \E t \in Tabs : Append1(t)
  <2>1. PICK t \in Tabs : Append1(t)
    BY Zenon, <1>3
  <2> DEFINE r == [pc |-> "save", peer |-> req[t].peer]
  <2>2. (Goes(t, Idle) \/ Goes(t, r)) /\ NewPeer(req[t].peer)
    BY Zenon, <2>1, AppendEffect
  <2>3. Carries(r) /\ r.pc # "add" /\ Carries(Idle) /\ Idle.pc # "add"
    BY <2>2 DEF Carries, Idle
  <2>4. env = "serial" => t = "t1"
    BY <2>1, SerialTab DEF Append1, At
  <2> HIDE DEF r
  <2>5. QED
    BY Zenon, <2>2, <2>3, <2>4
<1>4. CASE \E t \in Tabs : Finalize(t) \/ SavePeer(t) \/ SaveFinal(t) \/ RenderSync(t) \/ Strip(t)
                           \/ WriteSync(t) \/ SyncConf(t)
  <2>1. PICK t \in Tabs : Finalize(t) \/ SavePeer(t) \/ SaveFinal(t) \/ RenderSync(t) \/ Strip(t)
                           \/ WriteSync(t) \/ SyncConf(t)
    BY Zenon, <1>4
  <2> DEFINE R == {Idle, [pc |-> "savefinal"], [pc |-> "render"], [pc |-> "strip"],
                   [pc |-> "write", out |-> conf], [pc |-> "sync"]}
  <2>2. PICK r \in R : Goes(t, r)
    BY Zenon, <2>1 DEF Finalize, SavePeer, SaveFinal, RenderSync, Strip, WriteSync, SyncConf
  <2>3. Carries(r) /\ r.pc # "add"
    BY <2>2 DEF Carries, Idle
  <2>4. env = "serial" => t = "t1"
    <3>1. req[t].pc # "idle" \/ Free(t)
      BY <2>1 DEF Finalize, SavePeer, SaveFinal, RenderSync, Strip, WriteSync, SyncConf, At
    <3>2. QED
      BY Zenon, <3>1, SerialTab
  <2> HIDE DEF R
  <2>5. QED
    BY Zenon, <2>2, <2>3, <2>4
<1>5. CASE (\E t \in Tabs : Cancel(t) \/ RemovePeer(t)) \/ GCExpiredInvites
  <2>1. req' = req
    BY Zenon, <1>5 DEF Cancel, RemovePeer, GCExpiredInvites
  <2>2. QED
    BY Zenon, <1>5, <2>1, TakenOut
<1>6. CASE Join \/ Expire \/ ServerUp \/ ServerDown \/ UNCHANGED vars
  BY Zenon, <1>6 DEF Join, Expire, ServerUp, ServerDown, vars, router
<1>7. CASE Restart
  BY Zenon, <1>7 DEF Restart
<1>8. QED
  BY Zenon, <1>1, <1>2, <1>3, <1>4, <1>5, <1>6, <1>7 DEF Next, Request

\* The requests carry what they should, and an address once found stays unused.
LEMMA ReqStep ==
  ASSUME DataInv, ReqInv, [Next]_vars
  PROVE  ReqInv'
<1>0. env' = env /\ Carries(Idle) /\ Idle.pc # "add"
  <2>1. env' = env
    BY Zenon, BoundsStep
  <2>2. QED
    BY <2>1 DEF Carries, Idle
<1>1. CASE req' = req /\ (peers' = peers \/ Part(peers', peers))
  <2>1. env = "serial" /\ req["t1"].pc = "add" /\ req["t1"].peer.by = "invite" =>
          \A i \in 1 .. Len(peers') : peers'[i].ip # req["t1"].peer.ip
    <3> SUFFICES ASSUME env = "serial", req["t1"].pc = "add", req["t1"].peer.by = "invite"
                 PROVE  \A i \in 1 .. Len(peers') : peers'[i].ip # req["t1"].peer.ip
      BY Zenon
    <3>1. \A i \in 1 .. Len(peers) : peers[i].ip # req["t1"].peer.ip
      BY Zenon DEF ReqInv
    <3>2. CASE peers' = peers
      BY Zenon, <3>1, <3>2
    <3>3. CASE Part(peers', peers)
      <4>1. \A k \in 1 .. Len(peers') : \E i \in 1 .. Len(peers) : peers'[k] = peers[i]
        BY <3>3, PartElements
      <4>2. QED
        BY Zenon, <3>1, <4>1
    <3>4. QED
      BY Zenon, <1>1, <3>2, <3>3
  <2>2. QED
    BY Zenon, <1>0, <1>1, <2>1 DEF ReqInv
<1>2. CASE req' = [t \in Tabs |-> Idle]
  <2>1. \A t \in Tabs : req'[t] = Idle
    BY Zenon, <1>2
  <2>2. req' = [t \in Tabs |-> req'[t]]
    BY Zenon, <1>2
  <2>3. req'["t1"] = Idle /\ req'["t2"] = Idle
    BY Zenon, <2>1 DEF Tabs
  <2>4. QED
    BY Zenon, <1>0, <2>1, <2>2, <2>3 DEF ReqInv
<1>3. CASE \E t \in Tabs : \E r :
             /\ Goes(t, r) /\ Carries(r)
             /\ env = "serial" => t = "t1"
             /\ env = "serial" /\ r.pc = "add" /\ r.peer.by = "invite" =>
                  \A i \in 1 .. Len(peers') : peers'[i].ip # r.peer.ip
  <2>0. PICK t \in Tabs : \E r :
             /\ Goes(t, r) /\ Carries(r)
             /\ env = "serial" => t = "t1"
             /\ env = "serial" /\ r.pc = "add" /\ r.peer.by = "invite" =>
                  \A i \in 1 .. Len(peers') : peers'[i].ip # r.peer.ip
    BY Zenon, <1>3
  <2>1. PICK r :
             /\ Goes(t, r) /\ Carries(r)
             /\ env = "serial" => t = "t1"
             /\ env = "serial" /\ r.pc = "add" /\ r.peer.by = "invite" =>
                  \A i \in 1 .. Len(peers') : peers'[i].ip # r.peer.ip
    BY Zenon, <2>0
  <2>2. /\ req' = [u \in Tabs |-> req'[u]] /\ req'[t] = r
        /\ \A u \in Tabs : u # t => req'[u] = req[u]
    BY Zenon, <2>1, GoesFields
  <2>3. \A u \in Tabs : Carries(req'[u])
    BY Zenon, <2>1, <2>2 DEF ReqInv
  <2>4. ASSUME env = "serial"
        PROVE  req'["t2"] = Idle /\ req'["t1"] = r
    <3>1. t = "t1" /\ "t2" \in Tabs /\ "t2" # t
      BY <2>1, <2>4 DEF Tabs
    <3>2. QED
      BY Zenon, <2>2, <2>4, <3>1 DEF ReqInv
  <2>5. QED
    BY Zenon, <1>0, <2>1, <2>2, <2>3, <2>4 DEF ReqInv
<1>4. QED
  BY Zenon, <1>1, <1>2, <1>3, ReqSteps

\* A step that is not of the first tab's request leaves the tab where it is.
LEMMA OtherTab ==
  ASSUME ReqInv, env = "serial", NEW t \in Tabs, NEW pc, pc # "idle", At(t, pc)
  PROVE  t = "t1" /\ req["t1"].pc = pc
BY Zenon, SerialTab DEF At

\* The finalised peers are on their way to the kernel, or there.
LEMMA LiveStep ==
  ASSUME DataInv, ReqInv, LiveInv, [Next]_vars
  PROVE  LiveInv'
<1> SUFFICES ASSUME env' = "serial", faults' = 0, crashes' = 0
             PROVE  /\ up' /\ req'["t1"].pc \in {"idle", "add", "save"} => Shown(peers', live')
                    /\ req'["t1"].pc = "strip" => Shown(peers', conf')
                    /\ req'["t1"].pc = "write" => Shown(peers', req'["t1"].out)
                    /\ req'["t1"].pc = "sync" => Shown(peers', sync')
  BY Zenon DEF LiveInv
<1>0. /\ env = "serial" /\ faults = 0 /\ crashes = 0
      /\ Sound(env, peers) /\ "t1" \in Tabs
      /\ faults \in Nat /\ crashes \in Nat
  BY Zenon, BoundsStep DEF DataInv, Tabs
<1>1. /\ up /\ req["t1"].pc \in {"idle", "add", "save"} => Shown(peers, live)
      /\ req["t1"].pc = "strip" => Shown(peers, conf)
      /\ req["t1"].pc = "write" => Shown(peers, req["t1"].out)
      /\ req["t1"].pc = "sync" => Shown(peers, sync)
  BY Zenon, <1>0 DEF LiveInv
<1>2. ~Fault /\ ~Restart
  BY <1>0 DEF Fault, Restart
<1>3. Shown(peers, Conf(peers))
  BY Zenon, <1>0, ConfShown
<1>4. Idle.pc = "idle" /\ \A t \in Tabs : Free(t) => t = "t1" /\ req["t1"].pc = "idle"
  <2>1. \A t \in Tabs : Free(t) => t = "t1" /\ req["t1"] = Idle
    BY Zenon, <1>0, SerialTab DEF Free
  <2>2. QED
    BY <2>1 DEF Idle
<1>5. ASSUME NEW t \in Tabs, NEW pc, pc # "idle", At(t, pc)
      PROVE  t = "t1" /\ req["t1"].pc = pc
  BY Zenon, <1>0, <1>5, OtherTab
<1>6. ASSUME NEW t \in Tabs, Create(t) \/ AddPeer(t)
      PROVE  req'["t1"].pc = "add" /\ req["t1"].pc = "idle"
  <2>1. Free(t) /\ \E p : Goes(t, [pc |-> "add", peer |-> p])
    BY Zenon, <1>6 DEF Create, AddPeer
  <2>2. PICK p : req'[t] = [pc |-> "add", peer |-> p]
    BY Zenon, <2>1, GoesFields
  <2>3. QED
    BY <1>4, <2>1, <2>2
<1>7. CASE \E t \in Tabs : Create(t) \/ AddPeer(t)
  <2>1. peers' = peers /\ up' = up /\ live' = live
    BY Zenon, <1>7 DEF Create, AddPeer, router, wg
  <2>2. QED
    BY <1>1, <1>6, <1>7, <2>1
<1>8. CASE \E t \in Tabs : Append1(t)
  <2>1. PICK t \in Tabs : Append1(t)
    BY Zenon, <1>8
  <2>2. t = "t1" /\ req["t1"].pc = "add" /\ up' = up /\ live' = live
    BY <1>5, <2>1 DEF Append1, wg
  <2>3. \/ peers' = peers /\ req'["t1"] = Idle
        \/ /\ peers' = Append(peers, req[t].peer)
           /\ req'["t1"] = [pc |-> "save", peer |-> req[t].peer]
    BY Zenon, <2>1, <2>2, AppendEffect, GoesFields
  <2>4. req'["t1"].pc \in {"idle", "save"}
    BY <2>3 DEF Idle
  <2>5. up => Shown(peers', live)
    BY Zenon, <1>0, <1>1, <2>1, <2>2, <2>3, AppendEffect, AppendShown
  <2>6. QED
    BY <2>2, <2>4, <2>5
<1>9. CASE \E t \in Tabs : SavePeer(t)
  <2>1. PICK t \in Tabs : SavePeer(t)
    BY Zenon, <1>9
  <2>2. t = "t1" /\ req["t1"].pc = "save" /\ up' = up /\ live' = live /\ peers' = peers
    BY <1>5, <2>1 DEF SavePeer, wg
  <2>3. req'["t1"] = Idle
    BY Zenon, <2>1, <2>2, GoesFields DEF SavePeer
  <2>4. QED
    BY <1>1, <1>4, <2>2, <2>3
<1>10. CASE \E t \in Tabs : Finalize(t)
  <2>1. PICK t \in Tabs : Finalize(t)
    BY Zenon, <1>10
  <2>2. t = "t1"
    BY Zenon, <1>4, <2>1 DEF Finalize
  <2>3. req'["t1"] = [pc |-> "savefinal"]
    BY Zenon, <2>1, <2>2, GoesFields DEF Finalize
  <2>4. QED
    BY <2>3
<1>11. CASE \E t \in Tabs : SaveFinal(t)
  <2>1. PICK t \in Tabs : SaveFinal(t)
    BY Zenon, <1>11
  <2>2. t = "t1"
    BY <1>5, <2>1 DEF SaveFinal
  <2>3. req'["t1"] = [pc |-> "render"]
    BY Zenon, <1>2, <2>1, <2>2, GoesFields DEF SaveFinal
  <2>4. QED
    BY <2>3
<1>12. CASE \E t \in Tabs : RenderSync(t)
  <2>1. PICK t \in Tabs : RenderSync(t)
    BY Zenon, <1>12
  <2>2. t = "t1" /\ conf' = Conf(peers) /\ peers' = peers
    BY <1>5, <2>1 DEF RenderSync, router
  <2>3. req'["t1"] = [pc |-> "strip"]
    BY Zenon, <2>1, <2>2, GoesFields DEF RenderSync
  <2>4. QED
    BY <1>3, <2>2, <2>3
<1>13. CASE \E t \in Tabs : Strip(t)
  <2>1. PICK t \in Tabs : Strip(t)
    BY Zenon, <1>13
  <2>2. t = "t1" /\ req["t1"].pc = "strip" /\ peers' = peers
    BY <1>5, <2>1 DEF Strip, router
  <2>3. req'["t1"] = [pc |-> "write", out |-> conf]
    BY Zenon, <2>1, <2>2, GoesFields DEF Strip
  <2>4. QED
    BY <1>1, <2>2, <2>3
<1>14. CASE \E t \in Tabs : WriteSync(t)
  <2>1. PICK t \in Tabs : WriteSync(t)
    BY Zenon, <1>14
  <2>2. t = "t1" /\ req["t1"].pc = "write" /\ peers' = peers /\ sync' = req[t].out
    BY <1>5, <2>1 DEF WriteSync, router
  <2>3. req'["t1"] = [pc |-> "sync"]
    BY Zenon, <2>1, <2>2, GoesFields DEF WriteSync
  <2>4. QED
    BY <1>1, <2>2, <2>3
<1>15. CASE \E t \in Tabs : SyncConf(t)
  <2>1. PICK t \in Tabs : SyncConf(t)
    BY Zenon, <1>15
  <2>2. t = "t1" /\ req["t1"].pc = "sync" /\ peers' = peers /\ up' = up
    BY <1>5, <2>1 DEF SyncConf, router
  <2>3. req'["t1"] = Idle
    BY Zenon, <2>1, <2>2, GoesFields DEF SyncConf
  <2>4. up => live' = sync
    BY Zenon, <1>2, <2>1 DEF SyncConf
  <2>5. QED
    BY <1>1, <1>4, <2>2, <2>3, <2>4
<1>16. CASE (\E t \in Tabs : Cancel(t) \/ RemovePeer(t)) \/ GCExpiredInvites
  <2>1. \A k \in 1 .. Len(peers') : \E i \in 1 .. Len(peers) : peers'[k] = peers[i]
    <3>1. Part(peers', peers)
      BY Zenon, <1>16, TakenOut
    <3>2. QED
      BY <3>1, PartElements
  <2>2. req' = req /\ up' = up /\ live' = live /\ conf' = conf /\ sync' = sync
    BY Zenon, <1>16 DEF Cancel, RemovePeer, GCExpiredInvites, wg
  <2>3. \A entries : Shown(peers, entries) => Shown(peers', entries)
    BY Zenon, <2>1 DEF Shown
  <2>4. QED
    BY Zenon, <1>1, <2>2, <2>3
<1>17. CASE Join \/ Expire \/ UNCHANGED vars
  <2>1. peers' = peers /\ req' = req /\ up' = up /\ live' = live /\ conf' = conf /\ sync' = sync
    BY Zenon, <1>17 DEF Join, Expire, vars, router, wg
  <2>2. QED
    BY Zenon, <1>1, <2>1
<1>18. CASE ServerUp
  <2>1. /\ peers' = peers /\ req' = req /\ conf' = Conf(peers) /\ sync' = sync
        /\ (up' = up /\ live' = live) \/ live' = Conf(peers)
    BY Zenon, <1>18 DEF ServerUp, router
  <2>2. up' /\ req'["t1"].pc \in {"idle", "add", "save"} => Shown(peers, live')
    BY Zenon, <1>1, <1>3, <2>1
  <2>3. QED
    BY Zenon, <1>1, <1>3, <2>1, <2>2
<1>19. CASE ServerDown
  <2>1. peers' = peers /\ req' = req /\ conf' = conf /\ sync' = sync /\ up' = FALSE
    BY Zenon, <1>19 DEF ServerDown, router
  <2>2. QED
    BY Zenon, <1>1, <2>1
<1>20. QED
  BY Zenon, <1>2, <1>7, <1>8, <1>9, <1>10, <1>11, <1>12, <1>13, <1>14, <1>15, <1>16, <1>17, <1>18, <1>19
  DEF Next, Request

-----------------------------------------------------------------------------
(* The results. *)

\* The wizard's state as the process starts for the first time.
LEMMA InvInit == Init => Inv
<1> SUFFICES ASSUME Init PROVE Inv
  OBVIOUS
<1>1. DataInv
  <2>1. Sound(env, peers) /\ Sound(env, disk)
    BY Zenon, EmptySound DEF Init
  <2>2. QED
    BY Zenon, <2>1 DEF Init, DataInv
<1>2. \A t \in Tabs : req[t] = Idle
  BY Zenon DEF Init
<1>3. req["t1"] = Idle /\ req["t2"] = Idle
  BY Zenon, <1>2 DEF Tabs
<1>4. ReqInv
  <2>1. req = [t \in Tabs |-> req[t]]
    BY Zenon DEF Init
  <2>2. Carries(Idle) /\ Idle.pc # "add"
    BY DEF Carries, Idle
  <2>3. QED
    BY Zenon, <1>2, <1>3, <2>1, <2>2 DEF ReqInv
<1>5. LiveInv
  <2>1. ~up
    BY DEF Init
  <2>2. req["t1"].pc = "idle"
    BY <1>3 DEF Idle
  <2>3. QED
    BY <2>1, <2>2 DEF LiveInv
<1>6. QED
  BY Zenon, <1>1, <1>4, <1>5 DEF Inv

\* The invariant holds however requests, tokens, sweeps, failures and restarts follow
\* each other.
THEOREM Invariance == Spec => []Inv
<1>1. Inv /\ [Next]_vars => Inv'
  BY Zenon, DataStep, ReqStep, LiveStep DEF Inv
<1>2. QED
  BY InvInit, <1>1, PTL DEF Spec

\* The variables have the types the code gives them, and an invite's address is one of
\* those nextTunnelIP chooses from.
THEOREM TypeCorrect == Spec => []TypeOK
<1>1. Inv => TypeOK
  <2> SUFFICES ASSUME Inv PROVE TypeOK
    OBVIOUS
  <2>1. /\ peers \in Seq(Peer) /\ disk \in Seq(Peer) /\ DOMAIN peers = 1 .. Len(peers)
        /\ Sound(env, peers)
    BY Zenon, SoundFields DEF Inv, DataInv
  <2>2. \A i \in DOMAIN peers : peers[i].by = "invite" => peers[i].ip \in 2 .. MaxAddress
    BY Zenon, <2>1 DEF Sound
  <2>3. \A t \in Tabs : req[t].pc \in {"idle", "add", "save", "savefinal", "render", "strip", "write", "sync"}
    BY Zenon DEF Inv, ReqInv, Carries
  <2>4. QED
    BY Zenon, <2>1, <2>2, <2>3 DEF Inv, DataInv, TypeOK
<1>2. QED
  BY Invariance, <1>1, PTL

\* However requests overlap, the peer that FinalizeInvite and CancelInvite act on is the
\* only one of its name that can be pending; with one request at a time an invited peer has
\* an address that no peer before it has.
THEOREM InvitesAreDistinct == Spec => []InvitesDistinct
<1>1. Inv => InvitesDistinct
  <2> SUFFICES ASSUME Inv PROVE InvitesDistinct
    OBVIOUS
  <2>1. Sound(env, peers) /\ DOMAIN peers = 1 .. Len(peers)
    BY Zenon, SoundFields DEF Inv, DataInv
  <2>2. \A i \in DOMAIN peers : peers[i].pending => i = First(peers, peers[i].name)
    BY Zenon, <2>1, PendingIsFirst
  <2>3. env = "serial" =>
          \A i, j \in DOMAIN peers : i < j /\ peers[j].by = "invite" => peers[i].ip # peers[j].ip
    BY Zenon, <2>1 DEF Sound
  <2>4. QED
    BY Zenon, <2>2, <2>3 DEF InvitesDistinct
<1>2. QED
  BY Invariance, <1>1, PTL

\* With one request at a time, no failing step and no restart, SyncWGServer has brought
\* every finalised peer into the running wgs0 once no request is under way.
THEOREM FinalizedPeersAreLive == Spec => []FinalizedIsLive
<1>1. Inv => FinalizedIsLive
  <2> SUFFICES ASSUME Inv, env = "serial", up, faults = 0, crashes = 0, \A t \in Tabs : req[t] = Idle,
                      NEW i \in DOMAIN peers, peers[i].by = "invite", ~peers[i].pending
               PROVE  [name |-> peers[i].name, ip |-> peers[i].ip, key |-> peers[i].key] \in live
    BY Zenon DEF FinalizedIsLive
  <2>1. DOMAIN peers = 1 .. Len(peers)
    BY Zenon, SoundFields DEF Inv, DataInv
  <2>2. req["t1"] = Idle
    BY Zenon DEF Tabs
  <2>3. req["t1"].pc = "idle"
    BY <2>2 DEF Idle
  <2>4. Shown(peers, live)
    BY Zenon, <2>3 DEF Inv, LiveInv
  <2>5. QED
    BY Zenon, <2>1, <2>4 DEF Shown, Entry
<1>2. QED
  BY Invariance, <1>1, PTL

\* Only RemovePeer, or a restart before the save, takes an active peer out of the list:
\* a cancelled or swept invite, an append and a finalisation leave it as it is.
THEOREM ActivePeersAreKept == Spec => ActiveKept
<1> DEFINE Kept == \A i \in DOMAIN peers :
                     ~peers[i].pending /\ removed' = removed /\ crashes' = crashes =>
                       peers[i] \in Range(peers')
<1>1. ASSUME Inv, [Next]_vars
      PROVE  Kept
  <2> SUFFICES ASSUME NEW i \in DOMAIN peers, ~peers[i].pending, removed' = removed, crashes' = crashes
               PROVE  peers[i] \in Range(peers')
    BY Zenon
  <2>1. /\ Sound(env, peers) /\ peers \in Seq(Peer) /\ Len(peers) \in Nat /\ DOMAIN peers = 1 .. Len(peers)
        /\ DataInv /\ ReqInv
    BY Zenon, <1>1, SoundFields DEF Inv, DataInv
  <2>2. Sound(env, peers') /\ DOMAIN peers' = 1 .. Len(peers')
    BY Zenon, <1>1, <2>1, PeersSound, SoundFields
  <2>3. CASE peers' = peers
    BY Zenon, <2>3 DEF Range
  <2>4. CASE \E t \in Tabs : Append1(t)
    <3>1. PICK t \in Tabs : Append1(t)
      BY Zenon, <2>4
    <3>2. \/ peers' = peers
          \/ peers' = Append(peers, req[t].peer) /\ req[t].peer \in Peer
      BY Zenon, <2>1, <3>1, AppendEffect DEF NewPeer
    <3>3. i \in DOMAIN peers' /\ peers'[i] = peers[i]
      <4>1. CASE peers' = peers
        BY Zenon, <4>1
      <4>2. CASE peers' = Append(peers, req[t].peer) /\ req[t].peer \in Peer
        <5>1. /\ Len(Append(peers, req[t].peer)) = Len(peers) + 1
              /\ \A j \in 1 .. Len(peers) : Append(peers, req[t].peer)[j] = peers[j]
          BY <2>1, <4>2, AppendProperties
        <5>2. i \in 1 .. Len(peers) + 1
          BY <2>1
        <5>3. QED
          BY Zenon, <2>1, <2>2, <4>2, <5>1, <5>2
      <4>3. QED
        BY Zenon, <3>2, <4>1, <4>2
    <3>4. QED
      BY Zenon, <3>3 DEF Range
  <2>5. CASE \E t \in Tabs : Finalize(t)
    <3>1. i \in DOMAIN peers' /\ peers'[i] = peers[i]
      BY Zenon, <2>1, <2>2, <2>5, FinalizeEffect
    <3>2. QED
      BY Zenon, <3>1 DEF Range
  <2>6. CASE (\E t \in Tabs : Cancel(t) \/ RemovePeer(t)) \/ GCExpiredInvites
    BY Zenon, <2>1, <2>6, TakenOut
  <2>7. ~Restart
    BY <2>1 DEF Restart, DataInv
  <2>8. QED
    BY Zenon, <1>1, <2>3, <2>4, <2>5, <2>6, <2>7, PeerSteps
<1>2. Inv /\ [Next]_vars => [Kept]_vars
  BY Zenon, <1>1
<1>3. Spec => [][Kept]_vars
  BY Invariance, <1>2, PTL DEF Spec
<1>4. QED
  BY Zenon, <1>3 DEF ActiveKept

=============================================================================
