------------------------------ MODULE Limiter ------------------------------
(***************************************************************************)
(* The token buckets in front of the web handlers, one per client address,  *)
(* and the goroutine that drops idle ones (internal/web/middleware.go).     *)
(* Time is counted in units in which a bucket gains `rate` whole tokens.    *)
(***************************************************************************)
EXTENDS Integers

CONSTANTS
  Clients,   \* client addresses
  rate,      \* tokens gained per unit of time
  burst,     \* the size of a bucket
  Period,    \* five minutes: between two cleanups, and what makes a bucket idle
  MaxTime    \* bound: how long the clock runs

VARIABLES
  now,       \* the clock
  ticker,    \* when the cleanup runs next
  clients,   \* rl.clients: per address its tokens and lastCheck; tokens -1 is no entry
  since,     \* history: when the requests of an address began to be counted
  passed     \* history: how many of its requests were let through since

vars == <<now, ticker, clients, since, passed>>

Absent == [tokens |-> -1, lastCheck |-> 0]

TypeOK ==
  /\ now \in 0 .. MaxTime
  /\ ticker \in Nat
  /\ clients \in [Clients -> [tokens : -1 .. burst, lastCheck : 0 .. MaxTime]]
  /\ since \in [Clients -> 0 .. MaxTime]
  /\ passed \in [Clients -> Nat]

Init ==
  /\ now = 0
  /\ ticker = Period
  /\ clients = [c \in Clients |-> Absent]
  /\ since = [c \in Clients |-> 0]
  /\ passed = [c \in Clients |-> 0]

Filled(b) ==
  LET t == b.tokens + rate * (now - b.lastCheck) IN IF t > burst THEN burst ELSE t

\* A request of c, and what is left in its bucket: an address without a bucket gets
\* a full one; without a whole token the request is answered with 429.
Allow(c) ==
  LET left == IF clients[c] = Absent THEN burst ELSE Filled(clients[c])
      let == clients[c] = Absent \/ left >= 1
  IN
  /\ clients' = [clients EXCEPT ![c] = [tokens |-> IF let THEN left - 1 ELSE left, lastCheck |-> now]]
  /\ passed' = [passed EXCEPT ![c] = IF let THEN @ + 1 ELSE @]
  /\ UNCHANGED <<now, ticker, since>>

\* Mutant: a cleanup drops the bucket of every address that is not being served.
CleanupEager ==
  /\ now >= ticker
  /\ ticker' = ticker + Period
  /\ clients' = [c \in Clients |-> IF now > clients[c].lastCheck THEN Absent ELSE clients[c]]
  /\ UNCHANGED <<now, since, passed>>

\* Buckets not looked at for more than a period are dropped.
Cleanup ==
  /\ now >= ticker
  /\ ticker' = ticker + Period
  /\ clients' = [c \in Clients |-> IF now - clients[c].lastCheck > Period THEN Absent ELSE clients[c]]
  /\ UNCHANGED <<now, since, passed>>

Tick ==
  /\ now < MaxTime
  /\ now' = now + 1
  /\ UNCHANGED <<ticker, clients, since, passed>>

\* The count of an address starts afresh: any window of time may be looked at.
Watch(c) ==
  /\ since' = [since EXCEPT ![c] = now]
  /\ passed' = [passed EXCEPT ![c] = 0]
  /\ UNCHANGED <<now, ticker, clients>>

Next == Cleanup \/ Tick \/ \E c \in Clients : Allow(c) \/ Watch(c)

Spec == Init /\ [][Next]_vars

\* In every window of time an address gets no more requests through than one burst
\* and what the rate allows for the length of the window: a dropped bucket, which
\* starts full again, gives nothing away.
RateHeld == \A c \in Clients : passed[c] <= burst + rate * (now - since[c])
=============================================================================
