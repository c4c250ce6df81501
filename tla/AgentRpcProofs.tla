--------------------------- MODULE AgentRpcProofs ---------------------------
(***************************************************************************)
(* Invariants of AgentRpc, proved for every set of callers and any number   *)
(* of calls and agent restarts.                                             *)
(***************************************************************************)
EXTENDS AgentRpc, FiniteSetTheorems, SequenceTheorems, TLAPS

\* The client under c.mu: the request that is waited for is the newest one, on the
\* newest connection, and every older call has returned.
ClientInv ==
  /\ holder = Nobody <=> sent = 0
  /\ sent # 0 => sent = nextID /\ conn # 0
  /\ dialled <= nextID
  /\ conn # 0 => conn = dialled
  /\ \A i \in Ids : ended[i] = "none" <=> i > nextID \/ i = sent
  /\ \A i \in Ids : Contains(executed, i) => i <= nextID

\* The connection in use carries nothing but the request that is waited for, which is
\* unread, being handled or answered; a response to it tells what happened.
ConnInv ==
  conn # 0 =>
    /\ {request[conn], running[conn], response[conn]} \subseteq {0, sent}
    /\ request[conn] # 0 => running[conn] = 0 /\ response[conn] = 0
    /\ running[conn] # 0 => response[conn] = 0
    /\ response[conn] # 0 =>
         \/ verdict[sent] = "ok" /\ Contains(executed, sent)
         \/ verdict[sent] = "failed" /\ ~Contains(executed, sent)

\* A connection that was given up is closed, and what the agent still finds on it is
\* a call that was reported as lost.  One that was never dialled is empty.
OldConnInv ==
  \A c \in Conns :
    /\ c # conn /\ request[c] # 0 => ended[request[c]] = "lost"
    /\ c # conn /\ running[c] # 0 => ended[running[c]] = "lost"
    /\ c <= dialled /\ c # conn => c \in dead
    /\ c > dialled => request[c] = 0 /\ running[c] = 0 /\ response[c] = 0

\* A request the agent has not finished is in one place, and has not taken effect.
PendingPair(c, d) ==
  /\ request[c] # 0 => request[c] # running[d] /\ ~Contains(executed, request[c])
  /\ running[c] # 0 => ~Contains(executed, running[c])
  /\ c # d /\ request[c] # 0 => request[c] # request[d]
  /\ c # d /\ running[c] # 0 => running[c] # running[d]

PendingInv == \A c, d \in Conns : PendingPair(c, d)

Inv ==
  /\ TypeOK
  /\ ClientInv
  /\ ConnInv
  /\ OldConnInv
  /\ PendingInv
  /\ AnswersAreOwn
  /\ OnlyLostCallsReorder

USE AgentRpcAssumption DEF Ids, Conns

-----------------------------------------------------------------------------
(* Sequences of executed commands.                                          *)

\* An appended command is the only one that is new in the log.
LEMMA AppendContains ==
  ASSUME NEW s \in Seq(Ids), NEW e \in Ids
  PROVE  /\ Append(s, e) \in Seq(Ids)
         /\ \A x : Contains(Append(s, e), x) <=> Contains(s, x) \/ x = e
<1>1. /\ Append(s, e) \in Seq(Ids)
      /\ Len(Append(s, e)) = Len(s) + 1
      /\ \A i \in 1 .. Len(s) : Append(s, e)[i] = s[i]
      /\ Append(s, e)[Len(s) + 1] = e
  BY AppendProperties
<1>2. QED
  BY <1>1, LenProperties DEF Contains

\* The commands in two logs put together.
LEMMA ConcatContains ==
  ASSUME NEW s \in Seq(Ids), NEW t \in Seq(Ids)
  PROVE  /\ s \o t \in Seq(Ids)
         /\ \A x : Contains(s \o t, x) <=> Contains(s, x) \/ Contains(t, x)
<1>1. /\ s \o t \in Seq(Ids)
      /\ Len(s \o t) = Len(s) + Len(t)
      /\ \A i \in 1 .. Len(s) + Len(t) :
           (s \o t)[i] = IF i <= Len(s) THEN s[i] ELSE t[i - Len(s)]
  BY ConcatProperties
<1>2. Len(s) \in Nat /\ Len(t) \in Nat
  OBVIOUS
<1>3. ASSUME NEW x, Contains(s \o t, x)
      PROVE  Contains(s, x) \/ Contains(t, x)
  <2>1. PICK i \in 1 .. Len(s) + Len(t) : (s \o t)[i] = x
    BY <1>1, <1>3 DEF Contains
  <2>2. CASE i <= Len(s)
    BY <1>1, <1>2, <2>1, <2>2 DEF Contains
  <2>3. CASE ~(i <= Len(s))
    <3>1. i - Len(s) \in 1 .. Len(t) /\ t[i - Len(s)] = x
      BY <1>1, <1>2, <2>1, <2>3
    <3>2. QED
      BY <3>1 DEF Contains
  <2>4. QED
    BY <2>2, <2>3
<1>4. ASSUME NEW x, Contains(s, x)
      PROVE  Contains(s \o t, x)
  <2>1. PICK i \in 1 .. Len(s) : s[i] = x
    BY <1>4 DEF Contains
  <2>2. i \in 1 .. Len(s) + Len(t) /\ (s \o t)[i] = x
    BY <1>1, <1>2, <2>1
  <2>3. QED
    BY <1>1, <2>2 DEF Contains
<1>5. ASSUME NEW x, Contains(t, x)
      PROVE  Contains(s \o t, x)
  <2>1. PICK i \in 1 .. Len(t) : t[i] = x
    BY <1>5 DEF Contains
  <2>2. i + Len(s) \in 1 .. Len(s) + Len(t) /\ (s \o t)[i + Len(s)] = x
    BY <1>1, <1>2, <2>1
  <2>3. QED
    BY <1>1, <2>2 DEF Contains
<1>6. QED
  BY <1>1, <1>3, <1>4, <1>5

\* SetToSeq lists a finite set of commands, each once.
LEMMA SetToSeqLists ==
  ASSUME NEW S \in SUBSET Ids
  PROVE  /\ SetToSeq(S) \in Seq(Ids)
         /\ IsInjective(SetToSeq(S))
         /\ \A x : Contains(SetToSeq(S), x) => x \in S
<1>1. IsFiniteSet(S)
  <2>1. IsFiniteSet(Ids)
    BY FS_Interval
  <2>2. QED
    BY Zenon, <2>1, FS_Subset
<1>2. Cardinality(S) \in Nat /\ ExistsBijection(1 .. Cardinality(S), S)
  BY <1>1, FS_CardinalityType
<1>3. \E f \in [1 .. Cardinality(S) -> S] : IsInjective(f)
  BY <1>2 DEF ExistsBijection, Bijection, Injection
<1>4. SetToSeq(S) \in [1 .. Cardinality(S) -> S] /\ IsInjective(SetToSeq(S))
  BY <1>3 DEF SetToSeq
<1> HIDE DEF Ids
<1>5. SetToSeq(S) \in Seq(S)
  BY <1>2, <1>4
<1>6. SetToSeq(S) \in Seq(Ids)
  BY <1>5, SeqMonotonic
<1>7. QED
  BY Zenon, <1>4, <1>5, <1>6, ElementOfSeq DEF Contains

\* Commands appended to a log in which only those of L are out of order, each new and
\* either in L or at least as late as everything else, leave it so.
LEMMA ReorderExtends ==
  ASSUME NEW s \in Seq(Ids), NEW t \in Seq(Ids), NEW L,
         \A m, n \in DOMAIN s : m < n /\ s[m] >= s[n] => s[m] # s[n] /\ s[n] \in L,
         IsInjective(t),
         \A x : Contains(t, x) => ~Contains(s, x),
         \A x : Contains(t, x) =>
           x \in L \/ \A y \in Ids : Contains(s, y) \/ Contains(t, y) => y <= x,
         NEW m \in DOMAIN (s \o t), NEW n \in DOMAIN (s \o t),
         m < n, (s \o t)[m] >= (s \o t)[n]
  PROVE  (s \o t)[m] # (s \o t)[n] /\ (s \o t)[n] \in L
<1> DEFINE u == s \o t
<1>1. /\ u \in Seq(Ids)
      /\ DOMAIN u = 1 .. Len(s) + Len(t)
      /\ \A i \in 1 .. Len(s) + Len(t) : u[i] = IF i <= Len(s) THEN s[i] ELSE t[i - Len(s)]
  BY ConcatProperties, LenProperties
<1>2. /\ Len(s) \in Nat /\ Len(t) \in Nat
      /\ DOMAIN s = 1 .. Len(s) /\ DOMAIN t = 1 .. Len(t)
  BY LenProperties
<1>3. u[m] \in Ids /\ u[n] \in Ids
  BY Zenon, <1>1, ElementOfSeq, LenProperties
<1>4. m \in 1 .. Len(s) + Len(t) /\ n \in 1 .. Len(s) + Len(t) /\ m < n /\ u[m] >= u[n]
  BY <1>1
<1> HIDE DEF u
<1>5. CASE n <= Len(s)
  <2>1. m \in DOMAIN s /\ n \in DOMAIN s /\ u[m] = s[m] /\ u[n] = s[n]
    BY <1>1, <1>2, <1>4, <1>5
  <2>2. QED
    BY <1>4, <2>1 DEF u
<1>6. CASE ~(n <= Len(s))
  <2>1. n - Len(s) \in 1 .. Len(t) /\ u[n] = t[n - Len(s)]
    BY SMTT(30), <1>1, <1>2, <1>4, <1>6
  <2>2. Contains(t, u[n])
    BY <2>1 DEF Contains
  <2>3. u[m] # u[n] /\ (Contains(s, u[m]) \/ Contains(t, u[m]))
    <3>1. CASE m <= Len(s)
      <4>1. Contains(s, u[m])
        BY <1>1, <1>2, <1>4, <3>1 DEF Contains
      <4>2. QED
        BY <2>2, <4>1
    <3>2. CASE ~(m <= Len(s))
      <4>1. m - Len(s) \in 1 .. Len(t)
        BY <1>2, <1>4, <3>2
      <4>2. m - Len(s) \in 1 .. Len(t) /\ u[m] = t[m - Len(s)]
        BY <1>1, <1>4, <3>2, <4>1
      <4>3. m - Len(s) # n - Len(s)
        BY <1>2, <1>4
      <4>4. QED
        BY <1>2, <2>1, <4>2, <4>3 DEF Contains, IsInjective
    <3>3. QED
      BY <3>1, <3>2
  <2>4. ~(u[m] <= u[n])
    BY <1>3, <1>4, <2>3
  <2>5. u[n] \in L
    BY <1>3, <2>2, <2>3, <2>4
  <2>6. QED
    BY <2>3, <2>5 DEF u
<1>7. QED
  BY Zenon, <1>1, <1>2, <1>4, <1>5, <1>6
-----------------------------------------------------------------------------
(* The steps.                                                               *)

\* Send dials at most one connection per request, so the new one exists.
LEMMA SendConn ==
  ASSUME TypeOK, ClientInv, nextID < MaxCalls
  PROVE  /\ nextID + 1 \in Ids
         /\ (IF conn = 0 THEN dialled + 1 ELSE conn) \in Conns
         /\ dialled + 1 \in Conns
  BY DEF TypeOK, ClientInv

\* What a restart leaves of the commands that ran: some of them, each once, at the
\* end of the log.
LEMMA RestartLog ==
  ASSUME TypeOK, AgentRestart
  PROVE  \E done \in SUBSET Ids :
           /\ \A x \in done : \E c \in Conns : running[c] = x
           /\ executed' = executed \o SetToSeq(done)
<1>1. PICK done \in SUBSET {running[c] : c \in {d \in Conns : running[d] # 0}} :
        executed' = executed \o SetToSeq(done)
  BY DEF AgentRestart
<1>2. \A x \in done : \E c \in Conns : running[c] = x /\ x # 0
  BY <1>1
<1>3. done \in SUBSET Ids
  BY <1>2 DEF TypeOK
<1>4. QED
  BY <1>1, <1>2, <1>3

\* Every action keeps the type invariant.
LEMMA TypeStep == TypeOK /\ ClientInv /\ [Next]_vars => TypeOK'
<1> SUFFICES ASSUME TypeOK, ClientInv, [Next]_vars
             PROVE  TypeOK'
  OBVIOUS
<1> USE DEF TypeOK
<1>1. ASSUME NEW p \in Callers, Send(p)
      PROVE  TypeOK'
  <2> DEFINE k == IF conn = 0 THEN dialled + 1 ELSE conn
  <2>1. nextID + 1 \in Ids /\ k \in Conns /\ dialled + 1 \in Conns
    BY <1>1, SendConn DEF Send
  <2>2. request' \in [Conns -> Ids \cup {0}]
    BY <1>1, <2>1 DEF Send
  <2>3. conn' \in Conns /\ dialled' \in 0 .. MaxCalls
    BY <1>1, <2>1 DEF Send
  <2>4. QED
    BY <1>1, <2>1, <2>2, <2>3 DEF Send
<1>2. CASE Receive
  <2>1. conn \in Conns /\ response[conn] \in Ids
    BY <1>2 DEF Receive, ClientInv
  <2>2. ended' \in [Ids -> {"none", "ok", "failed", "lost"}]
    BY <1>2, <2>1 DEF Receive, Return
  <2>3. QED
    BY <1>2, <2>1, <2>2 DEF Receive, Return
<1>3. CASE GiveUp
  <2>1. conn \in Conns
    BY <1>3 DEF GiveUp, ClientInv
  <2>2. QED
    BY <1>3, <2>1 DEF GiveUp, Return
<1>4. ASSUME NEW c \in Conns, Decode(c)
      PROVE  TypeOK'
  BY <1>4 DEF Decode, client
<1>5. ASSUME NEW c \in Conns, Execute(c)
      PROVE  TypeOK'
  <2>1. running[c] \in Ids
    BY <1>5 DEF Execute
  <2>2. executed' \in Seq(Ids)
    <3>1. executed \in Seq(Ids) /\ executed' \in {executed, Append(executed, running[c])}
      BY <1>5 DEF Execute
    <3> HIDE DEF TypeOK, Ids
    <3>2. Append(executed, running[c]) \in Seq(Ids)
      BY <2>1, <3>1, AppendContains
    <3>3. QED
      BY <3>1, <3>2
  <2>3. verdict' \in [Ids -> {"none", "ok", "failed"}]
    BY Zenon, <1>5, <2>1 DEF Execute
  <2>4. QED
    BY <1>5, <2>1, <2>2, <2>3 DEF Execute, client
<1>6. CASE AgentRestart
  <2>1. executed' \in Seq(Ids)
    <3>1. PICK done \in SUBSET Ids : executed' = executed \o SetToSeq(done)
      BY Zenon, <1>6, RestartLog
    <3>2. executed \in Seq(Ids)
      OBVIOUS
    <3> HIDE DEF TypeOK, Ids
    <3>3. SetToSeq(done) \in Seq(Ids)
      BY SetToSeqLists
    <3>4. QED
      BY <3>1, <3>2, <3>3, ConcatContains
  <2>2. dead' \in SUBSET Conns
    BY <1>6 DEF AgentRestart
  <2>3. QED
    BY <1>6, <2>1, <2>2 DEF AgentRestart, client
<1>7. CASE UNCHANGED vars
  BY <1>7 DEF vars
<1>8. QED
  BY SMTT(30), <1>1, <1>2, <1>3, <1>4, <1>5, <1>6, <1>7 DEF Next

\* What the agent has not finished was sent.
LEMMA KnownIds ==
  ASSUME Inv, NEW c \in Conns
  PROVE  request[c] <= nextID /\ running[c] <= nextID
<1>1. request[c] \in Ids \cup {0} /\ running[c] \in Ids \cup {0} /\ nextID \in Nat
  BY DEF Inv, TypeOK
<1>2. CASE c = conn
  <2>1. sent \in {0, nextID}
    BY DEF Inv, ClientInv
  <2>2. request[c] \in {0, sent} /\ running[c] \in {0, sent}
    BY <1>2 DEF Inv, ConnInv
  <2>3. QED
    BY <1>1, <2>1, <2>2
<1>3. CASE c # conn
  <2>1. request[c] # 0 => ended[request[c]] # "none"
    BY <1>3 DEF Inv, OldConnInv
  <2>2. running[c] # 0 => ended[running[c]] # "none"
    BY <1>3 DEF Inv, OldConnInv
  <2>3. QED
    BY <1>1, <2>1, <2>2 DEF Inv, ClientInv
<1>4. QED
  BY <1>2, <1>3

\* The request with the new id finds its connection empty.
LEMMA SendStep ==
  ASSUME Inv, NEW p \in Callers, Send(p)
  PROVE  ClientInv' /\ ConnInv' /\ OldConnInv' /\ PendingInv'
<1> DEFINE k == IF conn = 0 THEN dialled + 1 ELSE conn
<1>1. nextID + 1 \in Ids /\ k \in Conns /\ sent = 0
  BY SendConn DEF Send, Inv, ClientInv
<1>2. request[k] = 0 /\ running[k] = 0 /\ response[k] = 0
  BY <1>1 DEF Inv, TypeOK, ConnInv, OldConnInv
<1>3. /\ holder' = p /\ nextID' = nextID + 1 /\ sent' = nextID + 1 /\ conn' = k
      /\ dialled' = IF conn = 0 THEN dialled + 1 ELSE dialled
      /\ request' \in {request, [request EXCEPT ![k] = nextID + 1]}
      /\ UNCHANGED <<running, response, dead, executed, verdict, ended>>
  BY Zenon, <1>1, <1>2 DEF Send, Inv, TypeOK
<1>4. ClientInv'
  <2>1. p # Nobody
    OBVIOUS
  <2>2. QED
    BY <1>1, <1>3, <2>1 DEF Inv, TypeOK, ClientInv
<1>5. \A c \in Conns : request'[c] = request[c] \/ (c = k /\ request'[c] = nextID + 1)
  BY <1>1, <1>3 DEF Inv, TypeOK
<1>6. \A c \in Conns : request[c] <= nextID /\ running[c] <= nextID
  BY KnownIds
<1> HIDE DEF k
<1>7. ConnInv'
  BY <1>1, <1>2, <1>3, <1>5 DEF Inv, TypeOK, ConnInv
<1>8. OldConnInv'
  BY <1>1, <1>2, <1>3, <1>5 DEF Inv, TypeOK, OldConnInv, ClientInv, k
<1>9. PendingInv'
  <2>1. ~Contains(executed, nextID + 1)
    BY <1>1 DEF Inv, ClientInv, TypeOK
  <2> SUFFICES ASSUME NEW c \in Conns, NEW d \in Conns
               PROVE  PendingPair(c, d)'
    BY DEF PendingInv
  <2>2. PendingPair(c, d)
    BY DEF Inv, PendingInv
  <2>3. /\ request[c] \in Nat /\ running[c] \in Nat /\ nextID \in Nat
        /\ request[d] \in Nat /\ running[d] \in Nat
    <3>1. /\ request \in [Conns -> Ids \cup {0}] /\ running \in [Conns -> Ids \cup {0}]
          /\ nextID \in Nat
      BY DEF Inv, TypeOK
    <3>2. Ids \cup {0} \subseteq Nat
      OBVIOUS
    <3> HIDE DEF Ids, Conns
    <3>3. QED
      BY <3>1, <3>2
  <2>4. /\ request'[c] = request[c] \/ (c = k /\ request'[c] = nextID + 1)
        /\ request'[d] = request[d] \/ (d = k /\ request'[d] = nextID + 1)
        /\ running' = running /\ executed' = executed
    BY <1>3, <1>5
  <2>5. /\ nextID + 1 # request[c] /\ nextID + 1 # running[c]
        /\ nextID + 1 # request[d] /\ nextID + 1 # running[d]
    BY <1>6, <2>3
  <2>6. QED
    BY <2>1, <2>2, <2>4, <2>5 DEF PendingPair
<1>10. QED
  BY <1>4, <1>7, <1>8, <1>9

\* The response that is read is the one to the call that reads it.
LEMMA ReceiveStep ==
  ASSUME Inv, Receive
  PROVE  ClientInv' /\ ConnInv' /\ OldConnInv' /\ PendingInv' /\ AnswersAreOwn'
<1>1. /\ conn \in Conns /\ sent \in Ids /\ sent = nextID /\ response[conn] = sent
      /\ request[conn] = 0 /\ running[conn] = 0
  BY DEF Receive, Inv, TypeOK, ClientInv, ConnInv
<1>2. /\ ended' = [ended EXCEPT ![sent] = verdict[sent]]
      /\ holder' = Nobody /\ sent' = 0
      /\ response' = [response EXCEPT ![conn] = 0]
      /\ UNCHANGED <<nextID, conn, dialled, request, running, dead, executed, verdict>>
  BY <1>1 DEF Receive, Return
<1>3. \/ verdict[sent] = "ok" /\ Contains(executed, sent)
      \/ verdict[sent] = "failed" /\ ~Contains(executed, sent)
  BY <1>1 DEF Inv, ConnInv
<1>4. ClientInv'
  BY <1>1, <1>2, <1>3 DEF Inv, TypeOK, ClientInv
<1>5. ConnInv'
  BY <1>1, <1>2 DEF Inv, TypeOK, ConnInv
<1>6. OldConnInv'
  <2>1. ended[sent] = "none"
    BY <1>1 DEF Inv, ClientInv
  <2>2. QED
    BY <1>1, <1>2, <2>1 DEF Inv, TypeOK, OldConnInv
<1>7. PendingInv'
  BY <1>2 DEF Inv, PendingInv, PendingPair
<1>8. AnswersAreOwn'
  BY <1>1, <1>2, <1>3 DEF Inv, TypeOK, AnswersAreOwn
<1>9. QED
  BY <1>4, <1>5, <1>6, <1>7, <1>8

\* A call that is given up leaves its connection, and what is on it, behind.
LEMMA GiveUpStep ==
  ASSUME Inv, GiveUp
  PROVE  ClientInv' /\ ConnInv' /\ OldConnInv' /\ PendingInv' /\ AnswersAreOwn'
<1>1. /\ conn \in Conns /\ sent \in Ids /\ sent = nextID /\ ended[sent] = "none"
      /\ request[conn] \in {0, sent} /\ running[conn] \in {0, sent}
  BY DEF GiveUp, Inv, TypeOK, ClientInv, ConnInv
<1>2. /\ ended' = [ended EXCEPT ![sent] = "lost"]
      /\ holder' = Nobody /\ sent' = 0 /\ conn' = 0 /\ dead' = dead \cup {conn}
      /\ UNCHANGED <<nextID, dialled, request, running, response, executed, verdict>>
  BY DEF GiveUp, Return
<1>3. ClientInv'
  BY <1>1, <1>2 DEF Inv, TypeOK, ClientInv
<1>4. ConnInv'
  BY <1>2 DEF ConnInv
<1>5. OldConnInv'
  BY <1>1, <1>2 DEF Inv, TypeOK, OldConnInv
<1>6. PendingInv'
  BY <1>2 DEF Inv, PendingInv, PendingPair
<1>7. AnswersAreOwn'
  BY <1>1, <1>2 DEF Inv, TypeOK, AnswersAreOwn
<1>8. QED
  BY <1>3, <1>4, <1>5, <1>6, <1>7

\* A request that is read is still in one place only.
LEMMA DecodeStep ==
  ASSUME Inv, NEW c \in Conns, Decode(c)
  PROVE  ClientInv' /\ ConnInv' /\ OldConnInv' /\ PendingInv'
<1>1. /\ request[c] # 0 /\ running[c] = 0
      /\ running' = [running EXCEPT ![c] = request[c]]
      /\ request' = [request EXCEPT ![c] = 0]
      /\ UNCHANGED <<holder, sent, nextID, conn, dialled, ended, response, dead, executed, verdict>>
  BY DEF Decode, client
<1>2. ClientInv'
  BY <1>1 DEF Inv, ClientInv
<1>3. ConnInv'
  BY <1>1 DEF Inv, TypeOK, ConnInv
<1>4. OldConnInv'
  BY <1>1 DEF Inv, TypeOK, OldConnInv
<1>5. PendingInv'
  BY <1>1 DEF Inv, TypeOK, PendingInv, PendingPair
<1>6. QED
  BY <1>2, <1>3, <1>4, <1>5

\* A command takes effect once: the one that is waited for is the newest of all, any
\* other was reported as lost.
LEMMA ExecuteStep ==
  ASSUME Inv, NEW c \in Conns, Execute(c)
  PROVE  /\ ClientInv' /\ ConnInv' /\ OldConnInv' /\ PendingInv'
         /\ AnswersAreOwn' /\ OnlyLostCallsReorder'
<1> DEFINE i == running[c]
<1>1. /\ i # 0 /\ i \in Ids /\ i <= nextID /\ ~Contains(executed, i)
      /\ running' = [running EXCEPT ![c] = 0]
      /\ response' = [response EXCEPT ![c] = IF c \in dead THEN @ ELSE i]
      /\ UNCHANGED <<holder, sent, nextID, conn, dialled, ended, request, dead>>
  BY KnownIds DEF Execute, client, Inv, TypeOK, PendingInv, PendingPair
<1>2. /\ c = conn => i = sent /\ i = nextID /\ request[c] = 0 /\ response[c] = 0
      /\ c # conn => ended[i] = "lost" /\ c \in dead
  BY <1>1 DEF Inv, TypeOK, ClientInv, ConnInv, OldConnInv
<1>3. \/ /\ verdict' = [verdict EXCEPT ![i] = "ok"]
         /\ executed' = Append(executed, i)
         /\ \A x : Contains(executed', x) <=> Contains(executed, x) \/ x = i
      \/ /\ verdict' = [verdict EXCEPT ![i] = "failed"]
         /\ executed' = executed
  <2>1. executed \in Seq(Ids)
    BY DEF Inv, TypeOK
  <2> HIDE DEF Ids
  <2>2. \A x : Contains(Append(executed, i), x) <=> Contains(executed, x) \/ x = i
    BY <1>1, <2>1, AppendContains
  <2>3. QED
    BY Zenon, <2>2 DEF Execute
<1> HIDE DEF i
<1>4. ClientInv'
  BY <1>1, <1>3 DEF Inv, ClientInv
<1>5. ConnInv'
  <2>1. CASE c = conn
    <3>1. /\ request'[c] = 0 /\ running'[c] = 0 /\ response'[c] \in {0, i}
          /\ sent' = i /\ conn' = c
      BY <1>1, <1>2, <2>1 DEF Inv, TypeOK
    <3>2. \/ verdict'[i] = "ok" /\ Contains(executed', i)
          \/ verdict'[i] = "failed" /\ ~Contains(executed', i)
      BY <1>1, <1>3 DEF Inv, TypeOK
    <3>3. QED
      BY <3>1, <3>2 DEF ConnInv
  <2>2. CASE c # conn /\ conn # 0
    <3>1. conn \in Conns /\ conn' = conn /\ sent' = sent
      BY <1>1, <2>2 DEF Inv, TypeOK
    <3>2. /\ request'[conn] = request[conn] /\ running'[conn] = running[conn]
          /\ response'[conn] = response[conn]
      BY <1>1, <2>2, <3>1 DEF Inv, TypeOK
    <3>3. i # sent
      BY <1>1, <1>2, <2>2 DEF Inv, ClientInv
    <3>4. response[conn] # 0 => verdict'[sent] = verdict[sent]
                                /\ (Contains(executed', sent) <=> Contains(executed, sent))
      <4>1. response[conn] # 0 => sent \in Ids
        BY <3>1 DEF Inv, TypeOK, ConnInv
      <4>2. sent \in Ids => verdict'[sent] = verdict[sent]
        BY <1>1, <1>3, <3>3 DEF Inv, TypeOK
      <4>3. Contains(executed', sent) <=> Contains(executed, sent)
        BY <1>3, <3>3
      <4>4. QED
        BY <4>1, <4>2, <4>3
    <3>5. QED
      BY <2>2, <3>1, <3>2, <3>4 DEF Inv, ConnInv
  <2>3. CASE conn = 0
    BY <1>1, <2>3 DEF ConnInv
  <2>4. QED
    BY <2>1, <2>2, <2>3
<1>6. OldConnInv'
  <2>1. \A d \in Conns : /\ running'[d] \in {0, running[d]}
                          /\ d # c => response'[d] = response[d]
    BY <1>1 DEF Inv, TypeOK
  <2>2. ~(c > dialled)
    BY <1>1 DEF Inv, OldConnInv, i
  <2>3. QED
    BY <1>1, <2>1, <2>2 DEF Inv, OldConnInv
<1>7. PendingInv'
  <2> SUFFICES ASSUME NEW a \in Conns, NEW b \in Conns
               PROVE  PendingPair(a, b)'
    BY DEF PendingInv
  <2>1. PendingPair(a, b) /\ PendingPair(a, c) /\ PendingPair(c, a)
    BY DEF Inv, PendingInv
  <2>2. running'[a] = (IF a = c THEN 0 ELSE running[a]) /\ running'[b] = (IF b = c THEN 0 ELSE running[b])
    BY <1>1 DEF Inv, TypeOK
  <2>3. request[a] # 0 => request[a] # i
    BY <2>1 DEF PendingPair, i
  <2>4. a # c /\ running[a] # 0 => running[a] # i
    BY <2>1 DEF PendingPair, i
  <2>5. request' = request
    BY <1>1
  <2>6. \A x : Contains(executed', x) => Contains(executed, x) \/ x = i
    BY <1>3
  <2>7. QED
    BY <2>1, <2>2, <2>3, <2>4, <2>5, <2>6 DEF PendingPair
<1>8. AnswersAreOwn'
  <2>1. ended[i] \in {"none", "lost"}
    BY <1>1, <1>2 DEF Inv, ClientInv
  <2>2. QED
    BY <1>1, <1>3, <2>1 DEF Inv, AnswersAreOwn
<1>9. OnlyLostCallsReorder'
  <2>1. CASE executed' = executed
    BY <1>1, <2>1 DEF Inv, OnlyLostCallsReorder
  <2>2. CASE executed' = Append(executed, i)
    <3> DEFINE L == {x \in Ids : ended[x] = "lost"}
    <3>1. executed \in Seq(Ids) /\ <<i>> \in Seq(Ids) /\ executed' = executed \o <<i>>
      <4>1. executed \in Seq(Ids)
        BY DEF Inv, TypeOK
      <4> HIDE DEF Ids
      <4>2. QED
        BY <1>1, <2>2, <4>1, AppendIsConcat
    <3>2. \A x : Contains(<<i>>, x) <=> x = i
      BY DEF Contains
    <3>3. IsInjective(<<i>>)
      BY DEF IsInjective
    <3>4. i \in L \/ \A y \in Ids : Contains(executed, y) \/ y = i => y <= i
      BY <1>1, <1>2 DEF Inv, ClientInv
    <3>5. \A m, n \in DOMAIN executed :
            m < n /\ executed[m] >= executed[n] =>
              executed[m] # executed[n] /\ executed[n] \in L
      <4>1. \A n \in DOMAIN executed : executed[n] \in Ids
        BY <3>1
      <4>2. QED
        BY <4>1 DEF Inv, OnlyLostCallsReorder
    <3> HIDE DEF L
    <3>6. \A m, n \in DOMAIN executed' :
            m < n /\ executed'[m] >= executed'[n] =>
              executed'[m] # executed'[n] /\ executed'[n] \in L
      <4>1. \A x : Contains(<<i>>, x) => ~Contains(executed, x)
        BY <1>1, <3>2
      <4>2. \A x : Contains(<<i>>, x) =>
              x \in L \/ \A y \in Ids : Contains(executed, y) \/ Contains(<<i>>, y) => y <= x
        BY <3>2, <3>4
      <4>3. executed' = executed \o <<i>>
        BY <3>1
      <4> HIDE DEF Ids
      <4>4. \A m, n \in DOMAIN (executed \o <<i>>) :
              m < n /\ (executed \o <<i>>)[m] >= (executed \o <<i>>)[n] =>
                (executed \o <<i>>)[m] # (executed \o <<i>>)[n] /\ (executed \o <<i>>)[n] \in L
        BY Zenon, <3>1, <3>3, <3>5, <4>1, <4>2, ReorderExtends
      <4>5. QED
        BY <4>3, <4>4
    <3>7. QED
      BY <1>1, <3>6 DEF OnlyLostCallsReorder, L
  <2>3. QED
    BY <1>3, <2>1, <2>2
<1>10. QED
  BY <1>4, <1>5, <1>6, <1>7, <1>8, <1>9

\* A command that the restart cut off may have taken effect, but no call was answered
\* that it did not.
LEMMA RestartStep ==
  ASSUME Inv, AgentRestart
  PROVE  /\ ClientInv' /\ ConnInv' /\ OldConnInv' /\ PendingInv'
         /\ AnswersAreOwn' /\ OnlyLostCallsReorder'
<1>1. /\ running' = [c \in Conns |-> 0] /\ request' = [c \in Conns |-> 0] /\ dead' = 1 .. dialled
      /\ UNCHANGED <<holder, sent, nextID, conn, dialled, ended, response, verdict>>
  BY DEF AgentRestart, client
<1>2. PICK done \in SUBSET Ids :
        /\ \A x \in done : \E c \in Conns : running[c] = x
        /\ executed' = executed \o SetToSeq(done)
  BY RestartLog DEF Inv
<1> DEFINE t == SetToSeq(done)
<1>3. /\ executed \in Seq(Ids) /\ t \in Seq(Ids) /\ IsInjective(t)
      /\ \A x : Contains(t, x) => x \in done
      /\ \A x : Contains(executed', x) <=> Contains(executed, x) \/ Contains(t, x)
  <2>1. executed \in Seq(Ids)
    BY DEF Inv, TypeOK
  <2> HIDE DEF Ids
  <2>2. t \in Seq(Ids) /\ IsInjective(t) /\ \A x : Contains(t, x) => x \in done
    BY SetToSeqLists
  <2>3. QED
    BY <1>2, <2>1, <2>2, ConcatContains
<1> HIDE DEF t
<1>4. ASSUME NEW x \in done
      PROVE  /\ x <= nextID /\ ~Contains(executed, x)
             /\ \/ ended[x] = "lost"
                \/ ended[x] = "none" /\ x = sent /\ x = nextID /\ running[conn] = x /\ conn \in Conns
  <2>1. PICK c \in Conns : running[c] = x
    BY <1>2
  <2>2. x \in Ids /\ x # 0
    OBVIOUS
  <2>3. x <= nextID
    BY <2>1, KnownIds
  <2>4. ~Contains(executed, x)
    BY <2>1, <2>2 DEF Inv, PendingInv, PendingPair
  <2>5. CASE c = conn
    BY <2>1, <2>2, <2>3, <2>4, <2>5 DEF Inv, ClientInv, ConnInv
  <2>6. CASE c # conn
    BY <2>1, <2>2, <2>3, <2>4, <2>6 DEF Inv, OldConnInv
  <2>7. QED
    BY <2>5, <2>6
<1>5. ClientInv'
  <2>1. \A x \in Ids : Contains(executed', x) => x <= nextID
    BY <1>3, <1>4 DEF Inv, ClientInv
  <2>2. QED
    BY <1>1, <2>1 DEF Inv, ClientInv
<1>6. ConnInv'
  <2> SUFFICES ASSUME conn # 0 PROVE ConnInv'
    BY <1>1 DEF ConnInv
  <2>1. conn \in Conns /\ request'[conn] = 0 /\ running'[conn] = 0
    BY <1>1 DEF Inv, TypeOK
  <2>2. response[conn] # 0 => sent \notin done
    <3> SUFFICES ASSUME sent \in done PROVE response[conn] = 0
      OBVIOUS
    <3>1. sent \in Ids /\ ended[sent] = "none"
      BY DEF Inv, ClientInv
    <3>2. running[conn] = sent
      BY <1>4, <3>1
    <3>3. QED
      BY <3>1, <3>2 DEF Inv, ConnInv
  <2>3. response[conn] # 0 => (Contains(executed', sent) <=> Contains(executed, sent))
    BY <1>3, <2>2
  <2>4. QED
    BY <1>1, <2>1, <2>3 DEF Inv, ConnInv
<1>7. OldConnInv'
  BY <1>1 DEF Inv, TypeOK, OldConnInv
<1>8. PendingInv'
  BY <1>1 DEF PendingInv, PendingPair
<1>9. AnswersAreOwn'
  BY SMTT(30), <1>1, <1>3, <1>4 DEF Inv, AnswersAreOwn
<1>10. OnlyLostCallsReorder'
  <2> DEFINE L == {x \in Ids : ended[x] = "lost"}
  <2>1. \A m, n \in DOMAIN executed :
          m < n /\ executed[m] >= executed[n] => executed[m] # executed[n] /\ executed[n] \in L
    <3>1. \A n \in DOMAIN executed : executed[n] \in Ids
      BY <1>3
    <3>2. QED
      BY <3>1 DEF Inv, OnlyLostCallsReorder
  <2>2. \A x : Contains(t, x) => ~Contains(executed, x)
    BY Zenon, <1>3, <1>4
  <2>3. \A x : Contains(t, x) =>
          x \in L \/ \A y \in Ids : Contains(executed, y) \/ Contains(t, y) => y <= x
    <3> SUFFICES ASSUME NEW x, Contains(t, x), x \notin L, NEW y \in Ids,
                        Contains(executed, y) \/ Contains(t, y)
                 PROVE  y <= x
      OBVIOUS
    <3>1. x = nextID
      BY Zenon, <1>3, <1>4
    <3>2. y <= nextID
      BY <1>3, <1>4 DEF Inv, ClientInv
    <3>3. QED
      BY <3>1, <3>2
  <2> HIDE DEF Ids, L
  <2>4. \A m, n \in DOMAIN (executed \o t) :
          m < n /\ (executed \o t)[m] >= (executed \o t)[n] =>
            (executed \o t)[m] # (executed \o t)[n] /\ (executed \o t)[n] \in L
    BY Zenon, <1>3, <2>1, <2>2, <2>3, ReorderExtends
  <2>5. executed' = executed \o t
    BY <1>2 DEF t
  <2>6. QED
    BY <1>1, <2>4, <2>5 DEF OnlyLostCallsReorder, L
<1>11. QED
  BY <1>5, <1>6, <1>7, <1>8, <1>9, <1>10

\* Every action keeps the inductive invariant.
LEMMA InvStep == Inv /\ [Next]_vars => Inv'
<1> SUFFICES ASSUME Inv, [Next]_vars
             PROVE  Inv'
  OBVIOUS
<1>t. TypeOK'
  BY TypeStep DEF Inv
<1>1. ASSUME NEW p \in Callers, Send(p)
      PROVE  Inv'
  <2>1. UNCHANGED <<executed, ended>>
    BY <1>1 DEF Send
  <2>2. AnswersAreOwn' /\ OnlyLostCallsReorder'
    BY <2>1 DEF Inv, AnswersAreOwn, OnlyLostCallsReorder
  <2>3. QED
    BY <1>t, <1>1, <2>2, SendStep DEF Inv
<1>2. ASSUME Receive \/ GiveUp
      PROVE  Inv'
  <2>1. ended[sent] = "none" /\ sent \in Ids
    BY <1>2 DEF Receive, GiveUp, Inv, TypeOK, ClientInv
  <2>2. executed' = executed /\ \A i \in Ids : ended[i] = "lost" => ended'[i] = "lost"
    BY <1>2, <2>1 DEF Receive, GiveUp, Return, Inv, TypeOK
  <2>3. \A n \in DOMAIN executed : executed[n] \in Ids
    BY DEF Inv, TypeOK
  <2>4. OnlyLostCallsReorder'
    BY <2>2, <2>3 DEF Inv, OnlyLostCallsReorder
  <2>5. QED
    BY <1>t, <1>2, <2>4, ReceiveStep, GiveUpStep DEF Inv
<1>3. ASSUME NEW c \in Conns, Decode(c)
      PROVE  Inv'
  <2>1. UNCHANGED <<executed, ended>>
    BY <1>3 DEF Decode, client
  <2>2. AnswersAreOwn' /\ OnlyLostCallsReorder'
    BY <2>1 DEF Inv, AnswersAreOwn, OnlyLostCallsReorder
  <2>3. QED
    BY <1>t, <1>3, <2>2, DecodeStep DEF Inv
<1>4. ASSUME NEW c \in Conns, Execute(c)
      PROVE  Inv'
  BY <1>t, <1>4, ExecuteStep DEF Inv
<1>5. CASE AgentRestart
  BY <1>t, <1>5, RestartStep DEF Inv
<1>6. CASE UNCHANGED vars
  BY <1>6 DEF vars, Inv, TypeOK, ClientInv, ConnInv, OldConnInv, PendingInv, PendingPair,
              AnswersAreOwn, OnlyLostCallsReorder
<1>7. QED
  BY <1>1, <1>2, <1>3, <1>4, <1>5, <1>6 DEF Next

\* The inductive invariant holds before the first call.
LEMMA InvInit == Init => Inv
<1> SUFFICES ASSUME Init PROVE Inv
  OBVIOUS
<1> USE DEF Init
<1>1. executed \in Seq(Ids) /\ DOMAIN executed = {} /\ \A i : ~Contains(executed, i)
  BY DEF Contains
<1>2. TypeOK
  BY <1>1 DEF TypeOK
<1>3. ClientInv /\ ConnInv /\ OldConnInv /\ PendingInv
  BY <1>1 DEF ClientInv, ConnInv, OldConnInv, PendingInv, PendingPair
<1>4. AnswersAreOwn /\ OnlyLostCallsReorder
  BY <1>1 DEF AnswersAreOwn, OnlyLostCallsReorder
<1>5. QED
  BY <1>2, <1>3, <1>4 DEF Inv

\* The inductive invariant holds in every reachable state of client and agent.
THEOREM Invariance == Spec => []Inv
  BY InvInit, InvStep, PTL DEF Spec

\* What netutil.Run tells a caller is about its own command, although the client does
\* not compare ids: a call that timed out takes its connection with it.
THEOREM AnswersBelongToCallers == Spec => []AnswersAreOwn
  BY Invariance, PTL DEF Inv

\* No command takes effect twice, and only one whose caller was told that it was lost
\* can take effect after a later one.
THEOREM LostCallsAloneReorder == Spec => []OnlyLostCallsReorder
  BY Invariance, PTL DEF Inv
=============================================================================
