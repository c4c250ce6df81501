------------------------------ MODULE AgentRpc ------------------------------
(***************************************************************************)
(* JSON-RPC between the web process and the root agent                      *)
(* (internal/agent/client.go, server.go, operations.go, called through      *)
(* netutil.Run).  One client, shared by all goroutines of the web process,  *)
(* sends one request at a time under its mutex; the agent runs one          *)
(* goroutine per connection, with its own limit on a command.               *)
(*                                                                          *)
(* A request is its id.  The client reads whatever response comes next on   *)
(* the connection: ids are not compared.                                    *)
(***************************************************************************)
EXTENDS Integers, Sequences, SequencesExt

CONSTANTS
  Callers,        \* goroutines of the web process that call the agent
  MaxCalls,       \* bound: requests sent
  MaxRestarts     \* bound: agent restarts

Ids == 1 .. MaxCalls
Conns == 1 .. MaxCalls   \* at most one dial per request
Nobody == "nobody"

ASSUME AgentRpcAssumption ==
  /\ MaxCalls \in Nat
  /\ MaxRestarts \in Nat
  /\ Nobody \notin Callers

VARIABLES
  holder,    \* the goroutine that holds c.mu, or Nobody
  sent,      \* the id of the request the holder waits for, or 0
  nextID,    \* c.nextID: ids handed out so far
  conn,      \* c.conn: the connection in use, or 0
  dialled,   \* connections opened so far
  request,   \* per connection: a request the agent has not read, or 0
  running,   \* per connection: the request whose handler runs, or 0
  response,  \* per connection: a response the client has not read, or 0
  dead,      \* connections closed by either side
  executed,  \* the commands in the order in which they took effect
  verdict,   \* per id: what the response to it says, "ok" or "failed"
  ended,     \* per id: what its caller was told; "lost" is a transport error
  restarts

vars == <<holder, sent, nextID, conn, dialled, request, running, response, dead,
          executed, verdict, ended, restarts>>
client == <<holder, sent, nextID, conn, dialled, ended>>

TypeOK ==
  /\ holder \in Callers \cup {Nobody}
  /\ sent \in Ids \cup {0}
  /\ nextID \in 0 .. MaxCalls
  /\ conn \in Conns \cup {0}
  /\ dialled \in 0 .. MaxCalls
  /\ request \in [Conns -> Ids \cup {0}]
  /\ running \in [Conns -> Ids \cup {0}]
  /\ response \in [Conns -> Ids \cup {0}]
  /\ dead \in SUBSET Conns
  /\ executed \in Seq(Ids)
  /\ verdict \in [Ids -> {"none", "ok", "failed"}]
  /\ ended \in [Ids -> {"none", "ok", "failed", "lost"}]
  /\ restarts \in 0 .. MaxRestarts

Init ==
  /\ holder = Nobody
  /\ sent = 0
  /\ nextID = 0
  /\ conn = 0
  /\ dialled = 0
  /\ request = [c \in Conns |-> 0]
  /\ running = [c \in Conns |-> 0]
  /\ response = [c \in Conns |-> 0]
  /\ dead = {}
  /\ executed = <<>>
  /\ verdict = [i \in Ids |-> "none"]
  /\ ended = [i \in Ids |-> "none"]
  /\ restarts = 0

-----------------------------------------------------------------------------
(* Client.Call.                                                             *)

\* Take c.mu, dial if there is no connection, send the request.
Send(p) ==
  LET c == IF conn = 0 THEN dialled + 1 ELSE conn IN
  /\ holder = Nobody
  /\ nextID < MaxCalls
  /\ holder' = p
  /\ nextID' = nextID + 1
  /\ sent' = nextID + 1
  /\ conn' = c
  /\ dialled' = IF conn = 0 THEN dialled + 1 ELSE dialled
  /\ request' = [request EXCEPT ![c] = IF c \in dead THEN @ ELSE nextID + 1]
  /\ UNCHANGED <<running, response, dead, executed, verdict, ended, restarts>>

Return(outcome) ==
  /\ ended' = [ended EXCEPT ![sent] = outcome]
  /\ holder' = Nobody
  /\ sent' = 0

\* Decode the next response on the connection; resp.Error or a result.
Receive ==
  /\ sent # 0
  /\ response[conn] # 0
  /\ Return(verdict[response[conn]])
  /\ response' = [response EXCEPT ![conn] = 0]
  /\ UNCHANGED <<nextID, conn, dialled, request, running, dead, executed, verdict, restarts>>

\* Mutant: a timed-out call keeps the connection for the next one.
GiveUpKeepsConn ==
  /\ sent # 0
  /\ Return("lost")
  /\ UNCHANGED <<nextID, conn, dialled, request, running, response, dead, executed, verdict, restarts>>

\* Mutant: a timeout is reported as a command that failed.
GiveUpAsFailure ==
  /\ sent # 0
  /\ Return("failed")
  /\ dead' = dead \cup {conn}
  /\ conn' = 0
  /\ UNCHANGED <<nextID, dialled, request, running, response, executed, verdict, restarts>>

\* The deadline passes, or the connection broke: encode or decode fails, the
\* connection is closed, and the next call dials again.
GiveUp ==
  /\ sent # 0
  /\ Return("lost")
  /\ dead' = dead \cup {conn}
  /\ conn' = 0
  /\ UNCHANGED <<nextID, dialled, request, running, response, executed, verdict, restarts>>

-----------------------------------------------------------------------------
(* Server.handleConn: decode, dispatch, encode.                             *)

\* A request that was written before the client closed is still read.
Decode(c) ==
  /\ request[c] # 0
  /\ running[c] = 0
  /\ running' = [running EXCEPT ![c] = request[c]]
  /\ request' = [request EXCEPT ![c] = 0]
  /\ UNCHANGED <<client, response, dead, executed, verdict, restarts>>

\* opExecRun runs the command under the agent's own 30 s limit.  The command is
\* not allowed, fails, or takes effect; the encoder fails on a closed connection.
Execute(c) ==
  /\ running[c] # 0
  /\ \/ /\ executed' = Append(executed, running[c])
        /\ verdict' = [verdict EXCEPT ![running[c]] = "ok"]
     \/ /\ executed' = executed
        /\ verdict' = [verdict EXCEPT ![running[c]] = "failed"]
  /\ response' = [response EXCEPT ![c] = IF c \in dead THEN @ ELSE running[c]]
  /\ running' = [running EXCEPT ![c] = 0]
  /\ UNCHANGED <<client, request, dead, restarts>>

\* The agent is restarted by systemd: its connections break, and the commands
\* that run are killed, before or after they took effect.  A response already
\* written can still be read.
AgentRestart ==
  /\ restarts < MaxRestarts
  /\ restarts' = restarts + 1
  /\ dead' = 1 .. dialled
  /\ \E done \in SUBSET {running[c] : c \in {d \in Conns : running[d] # 0}} :
       executed' = executed \o SetToSeq(done)
  /\ running' = [c \in Conns |-> 0]
  /\ request' = [c \in Conns |-> 0]
  /\ UNCHANGED <<client, response, verdict>>

Next ==
  \/ \E p \in Callers : Send(p)
  \/ Receive
  \/ GiveUp
  \/ \E c \in Conns : Decode(c)
  \/ \E c \in Conns : Execute(c)
  \/ AgentRestart

Spec == Init /\ [][Next]_vars

-----------------------------------------------------------------------------
(* Properties.                                                              *)

\* What netutil.Run tells a caller is about ITS command: one reported "ok" has run,
\* one reported "failed" has not.  Ids are not compared, but every failed encode or
\* decode closes the connection, so no call reads the late response of another.
AnswersAreOwn ==
  \A i \in Ids : /\ ended[i] = "ok" => Contains(executed, i)
                 /\ ended[i] = "failed" => ~Contains(executed, i)

\* No command takes effect twice, and commands take effect in the order of the
\* calls, except for one whose caller timed out: the handler goroutine of the closed
\* connection may finish it after commands sent later.
OnlyLostCallsReorder ==
  \A m, n \in DOMAIN executed :
    m < n /\ executed[m] >= executed[n] =>
      executed[m] # executed[n] /\ ended[executed[n]] = "lost"
=============================================================================
