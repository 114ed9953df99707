----------------------------- MODULE DaemonClient -----------------------------
(***************************************************************************)
(* The connection of a bridge-mcp process to the daemon: connecting with   *)
(* the handshake, requests and their answers, timeouts, loss of the pipe   *)
(* and the reconnect.  One DaemonClient, and the daemon's side as far as   *)
(* it answers.                                                             *)
(*                                                                         *)
(* doConnect() awaits the connection, the secret and the ack; requests are *)
(* made, sockets close and timers fire between.  What runs in microtasks   *)
(* after an event belongs to that event's action.                          *)
(***************************************************************************)
EXTENDS Naturals, FiniteSets

CONSTANTS
  Requests,  \* the requests of a behaviour, one per reqId
  MaxConns   \* bound: connections in a behaviour

ASSUME BoundAssumption == MaxConns \in Nat
ASSUME RequestsAssumption == Requests \intersect {"ack", "error"} = {}

Conns  == 1..MaxConns
NoConn == 0

VARIABLES
  sock,      \* DaemonClient.socket
  phase,     \* of the doConnect() that runs: "none", "dialing", "secret", "ack"
  target,    \* its socket, from "secret" on
  secret,    \* whether cachedSecret is set
  retries,   \* reconnect timers that run
  cEnd,      \* the client's end: "unused", "open", "destroyed" (no close event yet), "closed"
  sEnd,      \* the daemon's end: "unused", "open", "closed"
  nextConn,  \* the next connection to open
  opening,   \* what the first frame written to a connection was
  toServer,  \* requests written and not read
  toClient,  \* frames for the client
  role,      \* whether the daemon accepted the hello
  serving,   \* requests whose handler runs in the daemon
  call,      \* a request: "idle", "connecting", "pending", "ok", "failed"
  sentOn,    \* the connection it was written to
  executed   \* how often a handler carried it out

clientVars == <<sock, phase, target, secret, retries>>
pipeVars   == <<cEnd, sEnd, nextConn, opening, toServer, toClient>>
serverVars == <<role, serving, executed>>
callVars   == <<call, sentOn>>
vars       == <<clientVars, pipeVars, serverVars, callVars>>

TypeOK ==
  /\ sock \in Conns \union {NoConn}
  /\ phase \in {"none", "dialing", "secret", "ack"}
  /\ target \in Conns \union {NoConn}
  /\ secret \in BOOLEAN
  /\ retries \in 0..MaxConns
  /\ cEnd \in [Conns -> {"unused", "open", "destroyed", "closed"}]
  /\ sEnd \in [Conns -> {"unused", "open", "closed"}]
  /\ nextConn \in 1..(MaxConns + 1)
  /\ opening \in [Conns -> {"nothing", "hello", "request"}]
  /\ toServer \in [Conns -> SUBSET Requests]
  /\ toClient \in [Conns -> SUBSET (Requests \union {"ack", "error"})]
  /\ role \in [Conns -> {"unknown", "mcp"}]
  /\ serving \in [Conns -> SUBSET Requests]
  /\ call \in [Requests -> {"idle", "connecting", "pending", "ok", "failed"}]
  /\ sentOn \in [Requests -> Conns \union {NoConn}]
  /\ executed \in [Requests -> Nat]

\* main() connects eagerly.
Init ==
  /\ sock = NoConn
  /\ phase = "dialing"
  /\ target = NoConn
  /\ secret = FALSE
  /\ retries = 0
  /\ cEnd = [c \in Conns |-> "unused"]
  /\ sEnd = [c \in Conns |-> "unused"]
  /\ nextConn = 1
  /\ opening = [c \in Conns |-> "nothing"]
  /\ toServer = [c \in Conns |-> {}]
  /\ toClient = [c \in Conns |-> {}]
  /\ role = [c \in Conns |-> "unknown"]
  /\ serving = [c \in Conns |-> {}]
  /\ call = [r \in Requests |-> "idle"]
  /\ sentOn = [r \in Requests |-> NoConn]
  /\ executed = [r \in Requests |-> 0]

Waiting == {r \in Requests : call[r] = "connecting"}
Pending == {r \in Requests : call[r] = "pending"}

-----------------------------------------------------------------------------
(* Requests *)

\* What ensureConnected() takes for a connection.
Connected == sock # NoConn /\ cEnd[sock] = "open"

Settle(rs, o) == call' = [r \in Requests |-> IF r \in rs THEN o ELSE call[r]]

\* Requests rs enter the pending map and are written to c.
Send(rs, c) ==
  /\ Settle(rs, "pending")
  /\ sentOn' = [r \in Requests |-> IF r \in rs THEN c ELSE sentOn[r]]
  /\ toServer' = [toServer EXCEPT ![c] = @ \union rs]
  /\ opening' = [opening EXCEPT ![c] = IF @ = "nothing" /\ rs # {} THEN "request" ELSE @]

\* request() with a socket in place, whatever its handshake has come to.
RequestOnSocket(r) ==
  /\ call[r] = "idle"
  /\ Connected
  /\ Send({r}, sock)
  /\ UNCHANGED <<clientVars, cEnd, sEnd, nextConn, toClient, serverVars>>

\* request() without one: it starts doConnect(), or waits for the one that runs.
RequestWaits(r) ==
  /\ call[r] = "idle"
  /\ ~Connected
  /\ Settle({r}, "connecting")
  /\ phase' = IF phase = "none" THEN "dialing" ELSE phase
  /\ UNCHANGED <<sock, target, secret, retries, pipeVars, serverVars, sentOn>>

\* Fault: the request is sent once more instead.
TimeoutResends(r) ==
  /\ call[r] = "pending"
  /\ Connected
  /\ Send({r}, sock)
  /\ UNCHANGED <<clientVars, cEnd, sEnd, nextConn, toClient, serverVars>>

\* The request's own timer.
Timeout(r) ==
  /\ call[r] = "pending"
  /\ Settle({r}, "failed")
  /\ UNCHANGED <<clientVars, pipeVars, serverVars, sentOn>>

-----------------------------------------------------------------------------
(* doConnect() *)

\* scheduleReconnect()'s timer.
Reconnect ==
  /\ retries > 0
  /\ retries' = retries - 1
  /\ phase' = IF ~Connected /\ phase = "none" THEN "dialing" ELSE phase
  /\ UNCHANGED <<sock, target, secret, pipeVars, serverVars, callVars>>

\* connectWithSpawn() resolves; with the secret at hand the hello follows at once.
Dial ==
  /\ phase = "dialing"
  /\ nextConn \in Conns
  /\ sock' = nextConn
  /\ target' = nextConn
  /\ nextConn' = nextConn + 1
  /\ cEnd' = [cEnd EXCEPT ![nextConn] = "open"]
  /\ sEnd' = [sEnd EXCEPT ![nextConn] = "open"]
  /\ phase' = IF secret THEN "ack" ELSE "secret"
  /\ opening' = [opening EXCEPT ![nextConn] = IF secret THEN "hello" ELSE "nothing"]
  /\ UNCHANGED <<secret, retries, toServer, toClient, serverVars, callVars>>

\* No daemon within the budget: doConnect() rejects, and so do the requests that wait.
DialFails ==
  /\ phase = "dialing"
  /\ phase' = "none"
  /\ Settle(Waiting, "failed")
  /\ UNCHANGED <<sock, target, secret, retries, pipeVars, serverVars, sentOn>>

\* doConnect() destroys its socket and rejects.
Abandon ==
  /\ phase' = "none"
  /\ target' = NoConn
  /\ cEnd' = [cEnd EXCEPT ![target] = IF @ = "open" THEN "destroyed" ELSE @]
  /\ toClient' = [toClient EXCEPT ![target] = {}]

\* The secret file is read and the hello written, which a dead socket swallows.
SecretRead ==
  /\ phase = "secret"
  /\ phase' = "ack"
  /\ secret' = TRUE
  /\ opening' = [opening EXCEPT ![target] =
                   IF @ = "nothing" /\ cEnd[target] = "open" THEN "hello" ELSE @]
  /\ UNCHANGED <<sock, target, retries, cEnd, sEnd, nextConn, toServer, toClient,
                 serverVars, callVars>>

\* Fault: the ack is awaited without a timer.
HandshakeFailsOnSecret ==
  /\ phase = "secret"
  /\ Abandon
  /\ Settle(Waiting, "failed")
  /\ UNCHANGED <<sock, secret, retries, sEnd, nextConn, opening, toServer, serverVars, sentOn>>

\* The secret stays unreadable, or the ack does not come in time.
HandshakeFails ==
  /\ phase \in {"secret", "ack"}
  /\ Abandon
  /\ Settle(Waiting, "failed")
  /\ UNCHANGED <<sock, secret, retries, sEnd, nextConn, opening, toServer, serverVars, sentOn>>

\* mcp_hello_ack: the requests that waited are written to the socket there is now.
OnHelloAck(c) ==
  /\ cEnd[c] = "open"
  /\ "ack" \in toClient[c]
  /\ phase = "ack"
  /\ toClient' = [toClient EXCEPT ![c] = @ \ {"ack"}]
  /\ phase' = "none"
  /\ target' = NoConn
  /\ IF Connected THEN Send(Waiting, sock)
     ELSE Settle(Waiting, "failed") /\ UNCHANGED <<sentOn, toServer, opening>>
  /\ UNCHANGED <<sock, secret, retries, cEnd, sEnd, nextConn, serverVars>>

\* An ack nobody waits for, or an error after the handshake, is logged.
OnStray(c) ==
  /\ cEnd[c] = "open"
  /\ phase # "ack"
  /\ \E f \in {"ack", "error"} \intersect toClient[c] :
       toClient' = [toClient EXCEPT ![c] = @ \ {f}]
  /\ UNCHANGED <<clientVars, cEnd, sEnd, nextConn, opening, toServer, serverVars, callVars>>

\* The daemon refuses the handshake.
OnError(c) ==
  /\ cEnd[c] = "open"
  /\ "error" \in toClient[c]
  /\ phase = "ack"
  /\ Abandon
  /\ Settle(Waiting, "failed")
  /\ UNCHANGED <<sock, secret, retries, sEnd, nextConn, opening, toServer, serverVars, sentOn>>

\* The pending request an answer is for, by its id; none if it has been given up.
Answered(r) == {r} \intersect Pending

OnResp(c, r) ==
  /\ cEnd[c] = "open"
  /\ r \in toClient[c]
  /\ "ack" \notin toClient[c]
  /\ toClient' = [toClient EXCEPT ![c] = @ \ {r}]
  /\ Settle(Answered(r), "ok")
  /\ UNCHANGED <<clientVars, cEnd, sEnd, nextConn, opening, toServer, serverVars, sentOn>>

-----------------------------------------------------------------------------
(* Loss *)

\* The client sees that the daemon's end is gone; what it had not read is lost.
OnEnd(c) ==
  /\ cEnd[c] = "open"
  /\ sEnd[c] = "closed"
  /\ cEnd' = [cEnd EXCEPT ![c] = "destroyed"]
  /\ toClient' = [toClient EXCEPT ![c] = {}]
  /\ UNCHANGED <<clientVars, sEnd, nextConn, opening, toServer, serverVars, callVars>>

\* failAllPending() knows no connections.
Lost(c) == Pending

\* The close event, of whichever socket.  A handshake that waits for its ack is
\* rejected, and then doConnect() destroys its socket.
OnClose(c) ==
  /\ cEnd[c] = "destroyed"
  /\ sock' = NoConn
  /\ retries' = retries + 1
  /\ LET rejected == phase = "ack"
         other    == rejected /\ target # c /\ cEnd[target] = "open"
     IN /\ cEnd' = [d \in Conns |-> IF d = c THEN "closed"
                                    ELSE IF other /\ d = target THEN "destroyed" ELSE cEnd[d]]
        /\ toClient' = [d \in Conns |-> IF other /\ d = target THEN {} ELSE toClient[d]]
        /\ phase' = IF rejected THEN "none" ELSE phase
        /\ target' = IF rejected THEN NoConn ELSE target
        /\ Settle(Lost(c) \union IF rejected THEN Waiting ELSE {}, "failed")
  /\ UNCHANGED <<secret, sEnd, nextConn, opening, toServer, serverVars, sentOn>>

-----------------------------------------------------------------------------
(* The daemon *)

\* The daemon sends an error and ends the connection.
Refuses(c) ==
  /\ sEnd[c] = "open"
  /\ role[c] = "unknown"
  /\ sEnd' = [sEnd EXCEPT ![c] = "closed"]
  /\ toClient' = [toClient EXCEPT ![c] = IF cEnd[c] = "open" THEN @ \union {"error"} ELSE @]
  /\ UNCHANGED <<clientVars, cEnd, nextConn, opening, toServer, serverVars, callVars>>

\* The first frame is a hello: acceptMcp().
AcceptMcp(c) ==
  /\ sEnd[c] = "open"
  /\ role[c] = "unknown"
  /\ opening[c] = "hello"
  /\ role' = [role EXCEPT ![c] = "mcp"]
  /\ toClient' = [toClient EXCEPT ![c] = IF cEnd[c] = "open" THEN @ \union {"ack"} ELSE @]
  /\ UNCHANGED <<clientVars, cEnd, sEnd, nextConn, opening, toServer, serving, executed, callVars>>

\* It has another secret than the file held when the daemon read it.
AuthFailed(c) == opening[c] = "hello" /\ Refuses(c)

\* The first frame is a request: unknown_role.
RefuseRole(c) == opening[c] = "request" /\ Refuses(c)

\* A request reaches its handler, which may await.
Receive(c, r) ==
  /\ sEnd[c] = "open"
  /\ role[c] = "mcp"
  /\ r \in toServer[c]
  /\ toServer' = [toServer EXCEPT ![c] = @ \ {r}]
  /\ serving' = [serving EXCEPT ![c] = @ \union {r}]
  /\ UNCHANGED <<clientVars, cEnd, sEnd, nextConn, opening, toClient, role, executed, callVars>>

\* The handler ends; respond() drops the answer if the socket is gone.
Respond(c, r) ==
  /\ r \in serving[c]
  /\ serving' = [serving EXCEPT ![c] = @ \ {r}]
  /\ executed' = [executed EXCEPT ![r] = @ + 1]
  /\ toClient' = [toClient EXCEPT ![c] =
                    IF sEnd[c] = "open" /\ cEnd[c] = "open" THEN @ \union {r} ELSE @]
  /\ UNCHANGED <<clientVars, cEnd, sEnd, nextConn, opening, toServer, role, callVars>>

\* The daemon's end goes: the pipe breaks, the client has closed, no hello came in time.
Break(c) ==
  /\ sEnd[c] = "open"
  /\ sEnd' = [sEnd EXCEPT ![c] = "closed"]
  /\ UNCHANGED <<clientVars, cEnd, nextConn, opening, toServer, toClient, serverVars, callVars>>

\* The daemon dies with all its handlers.
DaemonDies ==
  /\ \E c \in Conns : sEnd[c] = "open"
  /\ sEnd' = [c \in Conns |-> IF sEnd[c] = "open" THEN "closed" ELSE sEnd[c]]
  /\ serving' = [c \in Conns |-> {}]
  /\ UNCHANGED <<clientVars, cEnd, nextConn, opening, toServer, toClient, role, executed, callVars>>

-----------------------------------------------------------------------------

ClientReads(c) == OnHelloAck(c) \/ OnStray(c) \/ OnError(c) \/ \E r \in Requests : OnResp(c, r)

Next ==
  \/ \E r \in Requests : RequestOnSocket(r) \/ RequestWaits(r) \/ Timeout(r)
  \/ Reconnect \/ Dial \/ DialFails \/ SecretRead \/ HandshakeFails
  \/ \E c \in Conns : ClientReads(c) \/ OnEnd(c) \/ OnClose(c)
  \/ \E c \in Conns : AcceptMcp(c) \/ AuthFailed(c) \/ RefuseRole(c) \/ Break(c)
  \/ \E c \in Conns, r \in Requests : Receive(c, r) \/ Respond(c, r)
  \/ DaemonDies

\* Timers fire, attempts to connect end, and what a socket has to tell is told. The
\* daemon owes nothing.
Fairness ==
  /\ WF_vars(Reconnect)
  /\ WF_vars(Dial \/ DialFails)
  /\ WF_vars(HandshakeFails)
  /\ \A r \in Requests : WF_vars(Timeout(r))
  /\ \A c \in Conns : WF_vars(ClientReads(c)) /\ WF_vars(OnEnd(c)) /\ WF_vars(OnClose(c))

Spec == Init /\ [][Next]_vars
FairSpec == Spec /\ Fairness

-----------------------------------------------------------------------------
(* Properties *)

\* What a caller sees of a request: whether it waits for the connection or for the
\* answer is all the same.
Outcome(r) ==
  CASE call[r] = "idle" -> "none"
    [] call[r] \in {"connecting", "pending"} -> "open"
    [] OTHER -> call[r]

C == INSTANCE Calls WITH outcome <- [r \in Requests |-> Outcome(r)], executed <- executed

\* Over lost connections, late answers, timeouts and reconnects every request is carried
\* out at most once, succeeds only after that, and is settled once.
EachCallOnce == C!Spec

\* A pending request was written to a connection whose close is still to come: none is
\* left to its sixty-second timer after its connection is gone.
LostCallsFailAtOnce ==
  \A r \in Pending : sentOn[r] # NoConn /\ cEnd[sentOn[r]] # "closed"

\* Whoever waits for a connection waits for an attempt that is under way.
WaitersHaveAttempt == Waiting # {} => phase # "none"

\* Whatever the daemon does, every request ends.
EveryCallEnds ==
  \A r \in Requests : call[r] \in {"connecting", "pending"} ~> call[r] \in {"ok", "failed"}
=============================================================================
