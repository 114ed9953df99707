------------------------------ MODULE Sessions ------------------------------
(***************************************************************************)
(* Sessions of the bridged daemon: how a cb process (PipeClient) attaches, *)
(* loses its pipe, comes back with resumeSessionId and exits, and how the  *)
(* daemon (PipeServer's cb path, Registry, Session) names, rebinds, probes *)
(* and buries the session behind it.                                       *)
(*                                                                         *)
(* Each process is one event loop, so a handler is one step; what         *)
(* interleaves is the order in which socket events, timers and frames of   *)
(* different connections reach the two sides.                              *)
(*                                                                         *)
(* Connections are numbered in the order they are opened and never reused. *)
(* A Session object is identified by the connection whose hello created    *)
(* it, 0 stands for null, and a cb stands for its ULID and its child pid.  *)
(***************************************************************************)
EXTENDS Naturals, Sequences, FiniteSets

CONSTANTS
  Cbs,          \* cb processes; each is also a session ULID and a child pid
  NoCb,         \* the peer of a connection that was never opened
  MaxConns,     \* bound: connections opened in a behaviour
  MissLimit,    \* HEARTBEAT_MISS_LIMIT
  MaxSuffix,    \* the largest "-N" resolveLabel tries, counting the bare label as 1
  LabelAt,      \* LabelAt[p][1] is the label p asks for, LabelAt[p][i] it with "-i"
  WrongSecret,  \* cbs whose cached secret is not the daemon's
  BadLabel      \* cbs whose label fails LABEL_PATTERN

Conns == 1..MaxConns
None  == 0
Labels == {LabelAt[p][i] : p \in Cbs, i \in 1..MaxSuffix}

ASSUME CbsAssumption ==
  /\ IsFiniteSet(Cbs)
  /\ NoCb \notin Cbs
  /\ WrongSecret \subseteq Cbs
  /\ BadLabel \subseteq Cbs

ASSUME BoundsAssumption ==
  /\ MaxConns \in Nat \ {0}
  /\ MissLimit \in Nat

\* There are more suffixes (9999 in the code) than sessions, and appending
\* different suffixes to one label gives different labels.
ASSUME LabelsAssumption ==
  /\ MaxSuffix \in Nat
  /\ Cardinality(Cbs) < MaxSuffix
  /\ \A p \in Cbs : \A i, j \in 1..MaxSuffix :
        LabelAt[p][i] = LabelAt[p][j] => i = j

VARIABLES
  \* the cb processes
  child,        \* "running" or "exited": what process.kill(pid, 0) tells
  proc,         \* "up", "exiting" (50 ms after onExit), "gone"
  link,         \* PipeClient: "idle" (reconnect timer), "connecting", "connected", "down"
  sock,         \* PipeClient.socket
  isReconnect,  \* PipeClient.isReconnect
  \* the named pipe
  nextConn,     \* the next connection to open
  peer,         \* the cb that opened a connection
  cEnd,         \* client end: "unused", "open", "closed"
  sEnd,         \* server end: "unused", "open", "destroyed", "closed" (handleClose ran)
  toServer,     \* frames written by the client, not yet read
  toClient,     \* frames written by the server, not yet read
  \* the daemon
  bound,        \* ConnState.session, None while the role is unknown
  cbConns,      \* PipeServer.cbConns
  registry,     \* Registry.sessions: ULID -> Session
  status,       \* Session.status, "none" before the object exists
  label,        \* Session.label: a name, and the session whose death tagged it
  pipe,         \* Session.pipeClient
  missed,       \* Session.missedPongs
  record        \* what watchers and sessions.json last heard of a ULID

cbVars  == <<child, proc, link, sock, isReconnect>>
netVars == <<nextConn, peer, cEnd, sEnd, toServer, toClient>>
srvVars == <<bound, cbConns, registry, status, label, pipe, missed, record>>
vars    == <<cbVars, netVars, srvVars>>

Hello(resume) == [t |-> "hello", resume |-> resume]
Pong == [t |-> "pong"]
Bye  == [t |-> "bye"]
ServerFrames == {Hello(TRUE), Hello(FALSE), Pong, Bye}
ClientFrames == {"ping", "auth_failed", "label_invalid"}

\* A clean label has tag None; `${label}~dead-${diedAt}` has the tag of the
\* session that died. Sessions of one label die at different milliseconds.
Label(name)   == [name |-> name, tag |-> None]
NoLabel       == Label("")
AnyLabel      == [name : Labels \union {""}, tag : Conns \union {None}]

TypeOK ==
  /\ child \in [Cbs -> {"running", "exited"}]
  /\ proc \in [Cbs -> {"up", "exiting", "gone"}]
  /\ link \in [Cbs -> {"idle", "connecting", "connected", "down"}]
  /\ sock \in [Cbs -> Conns \union {None}]
  /\ isReconnect \in [Cbs -> BOOLEAN]
  /\ nextConn \in 1..(MaxConns + 1)
  /\ peer \in [Conns -> Cbs \union {NoCb}]
  /\ cEnd \in [Conns -> {"unused", "open", "closed"}]
  /\ sEnd \in [Conns -> {"unused", "open", "destroyed", "closed"}]
  /\ toServer \in [Conns -> Seq(ServerFrames)]
  /\ toClient \in [Conns -> Seq(ClientFrames)]
  /\ bound \in [Conns -> Conns \union {None}]
  /\ cbConns \subseteq Conns
  /\ registry \in [Cbs -> Conns \union {None}]
  /\ status \in [Conns -> {"none", "alive", "dead"}]
  /\ label \in [Conns -> AnyLabel]
  /\ pipe \in [Conns -> Conns \union {None}]
  /\ missed \in [Conns -> 0..MissLimit]
  /\ record \in [Cbs -> {"none", "live", "ended"}]

Init ==
  /\ child = [p \in Cbs |-> "running"]
  /\ proc = [p \in Cbs |-> "up"]
  /\ link = [p \in Cbs |-> "idle"]
  /\ sock = [p \in Cbs |-> None]
  /\ isReconnect = [p \in Cbs |-> FALSE]
  /\ nextConn = 1
  /\ peer = [c \in Conns |-> NoCb]
  /\ cEnd = [c \in Conns |-> "unused"]
  /\ sEnd = [c \in Conns |-> "unused"]
  /\ toServer = [c \in Conns |-> <<>>]
  /\ toClient = [c \in Conns |-> <<>>]
  /\ bound = [c \in Conns |-> None]
  /\ cbConns = {}
  /\ registry = [p \in Cbs |-> None]
  /\ status = [c \in Conns |-> "none"]
  /\ label = [c \in Conns |-> NoLabel]
  /\ pipe = [c \in Conns |-> None]
  /\ missed = [c \in Conns |-> 0]
  /\ record = [p \in Cbs |-> "none"]

-----------------------------------------------------------------------------
(* Reading the state *)

PidAlive(p) == child[p] = "running"
EventLoopRuns(p) == proc[p] \in {"up", "exiting"}

Registered == {registry[p] : p \in Cbs} \ {None}

IsAlive(o) == status[o] = "alive"

\* What reaches the server end of c when its client writes f.
Written(c, f) ==
  IF sEnd[c] = "open" THEN Append(toServer[c], f) ELSE toServer[c]

InFlight(frames, f) == Cardinality({i \in 1..Len(frames) : frames[i] = f})

\* The pings of connection c that are not answered, or whose pong is not read yet.
Unanswered(c) == InFlight(toClient[c], "ping") + InFlight(toServer[c], Pong)

-----------------------------------------------------------------------------
(* The cb process: PipeClient and main() *)

\* connect(): a new socket, on the first call or when the reconnect timer fires.
Connect(p) ==
  /\ EventLoopRuns(p)
  /\ link[p] = "idle"
  /\ nextConn \in Conns
  /\ link' = [link EXCEPT ![p] = "connecting"]
  /\ sock' = [sock EXCEPT ![p] = nextConn]
  /\ peer' = [peer EXCEPT ![nextConn] = p]
  /\ cEnd' = [cEnd EXCEPT ![nextConn] = "open"]
  /\ sEnd' = [sEnd EXCEPT ![nextConn] = "open"]
  /\ nextConn' = nextConn + 1
  /\ UNCHANGED <<child, proc, isReconnect, toServer, toClient, srvVars>>

\* handleOnConnect(): hello, then connected. The secret is already cached.
OnConnect(p) ==
  /\ EventLoopRuns(p)
  /\ link[p] = "connecting"
  /\ cEnd[sock[p]] = "open"
  /\ toServer' = [toServer EXCEPT ![sock[p]] = Written(sock[p], Hello(isReconnect[p]))]
  /\ link' = [link EXCEPT ![p] = "connected"]
  /\ UNCHANGED <<child, proc, sock, isReconnect, nextConn, peer, cEnd, sEnd,
                 toClient, srvVars>>

\* shutdown(): reconnects stop and the socket is destroyed.
PipeShutdown(p) ==
  /\ link' = [link EXCEPT ![p] = "down"]
  /\ sock' = [sock EXCEPT ![p] = None]
  /\ cEnd' = [c \in Conns |-> IF c = sock[p] THEN "closed" ELSE cEnd[c]]

\* handleInbound() of the frame f, which is the next one of the current socket.
Inbound(p, f) ==
  /\ EventLoopRuns(p)
  /\ sock[p] # None
  /\ cEnd[sock[p]] = "open"
  /\ toClient[sock[p]] # <<>>
  /\ Head(toClient[sock[p]]) = f
  /\ toClient' = [toClient EXCEPT ![sock[p]] = Tail(@)]

\* A ping is answered; pongs in flight beyond MissLimit are merged.
OnPing(p) ==
  /\ Inbound(p, "ping")
  /\ toServer' = [toServer EXCEPT ![sock[p]] =
                    IF InFlight(@, Pong) < MissLimit THEN Written(sock[p], Pong) ELSE @]
  /\ UNCHANGED <<cbVars, nextConn, peer, cEnd, sEnd, srvVars>>

\* auth_failed: cb carries on unbridged.
OnAuthFailed(p) ==
  /\ Inbound(p, "auth_failed")
  /\ PipeShutdown(p)
  /\ UNCHANGED <<child, proc, isReconnect, nextConn, peer, sEnd, toServer, srvVars>>

\* Any other error frame is only logged.
OnOtherError(p) ==
  /\ Inbound(p, "label_invalid")
  /\ UNCHANGED <<cbVars, nextConn, peer, cEnd, sEnd, toServer, srvVars>>

\* The ping watchdog: no ping for too long, the socket is destroyed.
PingWatchdog(p) ==
  /\ EventLoopRuns(p)
  /\ link[p] = "connected"
  /\ cEnd[sock[p]] = "open"
  /\ cEnd' = [cEnd EXCEPT ![sock[p]] = "closed"]
  /\ UNCHANGED <<cbVars, nextConn, peer, sEnd, toServer, toClient, srvVars>>

\* The socket's 'close' event: its own destroy, or the end of what the server sent.
OnClose(p) ==
  /\ EventLoopRuns(p)
  /\ sock[p] # None
  /\ \/ cEnd[sock[p]] = "closed"
     \/ sEnd[sock[p]] # "open" /\ toClient[sock[p]] = <<>>
  /\ cEnd' = [cEnd EXCEPT ![sock[p]] = "closed"]
  /\ toClient' = [toClient EXCEPT ![sock[p]] = <<>>]
  /\ link' = [link EXCEPT ![p] = "idle"]
  /\ sock' = [sock EXCEPT ![p] = None]
  /\ isReconnect' = [isReconnect EXCEPT ![p] = TRUE]
  /\ UNCHANGED <<child, proc, nextConn, peer, sEnd, toServer, srvVars>>

\* The child's pid is gone; cb has not been told yet.
ChildDies(p) ==
  /\ child[p] = "running"
  /\ child' = [child EXCEPT ![p] = "exited"]
  /\ UNCHANGED <<proc, link, sock, isReconnect, netVars, srvVars>>

\* onExit: a bye if connected, and 50 ms to flush it.
OnExit(p) ==
  /\ proc[p] = "up"
  /\ ~PidAlive(p)
  /\ toServer' = IF link[p] = "connected" /\ cEnd[sock[p]] = "open"
                 THEN [toServer EXCEPT ![sock[p]] = Written(sock[p], Bye)]
                 ELSE toServer
  /\ proc' = [proc EXCEPT ![p] = "exiting"]
  /\ UNCHANGED <<child, link, sock, isReconnect, nextConn, peer, cEnd, sEnd,
                 toClient, srvVars>>

\* The 50 ms timer: pipe.shutdown() and process.exit().
Exit(p) ==
  /\ proc[p] = "exiting"
  /\ proc' = [proc EXCEPT ![p] = "gone"]
  /\ PipeShutdown(p)
  /\ UNCHANGED <<child, isReconnect, nextConn, peer, sEnd, toServer, toClient, srvVars>>

\* cb is killed: no bye, the system closes its end. The child may outlive it.
Crash(p) ==
  /\ EventLoopRuns(p)
  /\ proc' = [proc EXCEPT ![p] = "gone"]
  /\ PipeShutdown(p)
  /\ UNCHANGED <<child, isReconnect, nextConn, peer, sEnd, toServer, toClient, srvVars>>

\* A transient drop: the connection breaks under both ends, frames are lost.
PipeBreak(c) ==
  /\ cEnd[c] = "open"
  /\ sEnd[c] = "open"
  /\ cEnd' = [cEnd EXCEPT ![c] = "closed"]
  /\ sEnd' = [sEnd EXCEPT ![c] = "destroyed"]
  /\ toServer' = [toServer EXCEPT ![c] = <<>>]
  /\ toClient' = [toClient EXCEPT ![c] = <<>>]
  /\ UNCHANGED <<cbVars, nextConn, peer, srvVars>>

-----------------------------------------------------------------------------
(* Daemon helpers *)

\* sock.destroy() on every connection of D: what it had not read or sent is lost.
\* (Frames decoded with the one that destroys it find a session already dead.)
Destroy(D) ==
  /\ sEnd' = [c \in Conns |-> IF c \in D /\ sEnd[c] = "open" THEN "destroyed" ELSE sEnd[c]]
  /\ toServer' = [c \in Conns |-> IF c \in D THEN <<>> ELSE toServer[c]]
  /\ toClient' = [c \in Conns |-> IF c \in D THEN <<>> ELSE toClient[c]]

Pipes(S) == {pipe[o] : o \in S}

\* markDead() on every session of S, and the death listeners it fires: watchers
\* get session_dead for the ULID and sessions.json marks it ended.
MarkDead(S) ==
  /\ status' = [o \in Conns |-> IF o \in S THEN "dead" ELSE status[o]]
  /\ pipe' = [o \in Conns |-> IF o \in S THEN None ELSE pipe[o]]
  /\ record' = [p \in Cbs |-> IF \E o \in S : peer[o] = p THEN "ended" ELSE record[p]]

\* labelTaken(): an alive session of the registry reg holds the name.
Taken(reg, name) ==
  \E q \in Cbs : /\ reg[q] # None
                 /\ IsAlive(reg[q])
                 /\ label[reg[q]] = Label(name)

\* resolveLabel(): the lowest suffix no alive session holds.
Suffix(reg, p) ==
  CHOOSE i \in 1..MaxSuffix :
    /\ ~Taken(reg, LabelAt[p][i])
    /\ \A j \in 1..(i - 1) : Taken(reg, LabelAt[p][j])

\* Fault: dead sessions keep their label.
CollidesNever(reg, o, name) == FALSE

\* renameDeadCollisions(): dead sessions of the registry make way for the name.
Collides(reg, o, name) ==
  /\ \E q \in Cbs : reg[q] = o
  /\ status[o] = "dead"
  /\ label[o] = Label(name)

\* Frames a cb wrote on one connection are read before those it wrote on a later one.
EarlierFramesRead(c) ==
  \A d \in 1..(c - 1) :
    peer[d] = peer[c] /\ sEnd[d] = "open" => toServer[d] = <<>>

Readable(c) ==
  /\ sEnd[c] = "open"
  /\ toServer[c] # <<>>
  /\ EarlierFramesRead(c)

Frame(c) == Head(toServer[c])

-----------------------------------------------------------------------------
(* acceptCb() *)

HelloFirst(c) ==
  /\ Readable(c)
  /\ bound[c] = None
  /\ Frame(c).t = "hello"

\* Fault: resumeSessionId is ignored.
CanResumeNever(c) == FALSE

\* Fault: a dead session may be resumed.
CanResumeDead(c) ==
  /\ Frame(c).resume
  /\ registry[peer[c]] # None
  /\ PidAlive(peer[c])

\* The resume branch applies: the session is alive and so is its pid.
CanResume(c) ==
  /\ Frame(c).resume
  /\ registry[peer[c]] # None
  /\ IsAlive(registry[peer[c]])
  /\ PidAlive(peer[c])

\* Fault: the socket is left open.
RefuseOpen(c, error) ==
  /\ toServer' = [toServer EXCEPT ![c] = <<>>]
  /\ toClient' = [toClient EXCEPT ![c] = <<error>>]
  /\ UNCHANGED <<cbVars, nextConn, peer, cEnd, sEnd, srvVars>>

\* sendError() and destroy(); the error frame may be lost with the socket.
Refuse(c, error) ==
  /\ sEnd' = [sEnd EXCEPT ![c] = "destroyed"]
  /\ toServer' = [toServer EXCEPT ![c] = <<>>]
  /\ \E reply \in {<<>>, <<error>>} : toClient' = [toClient EXCEPT ![c] = reply]
  /\ UNCHANGED <<cbVars, nextConn, peer, cEnd, srvVars>>

RefuseSecret(c) ==
  /\ HelloFirst(c)
  /\ peer[c] \in WrongSecret
  /\ Refuse(c, "auth_failed")

RefuseLabel(c) ==
  /\ HelloFirst(c)
  /\ peer[c] \in BadLabel \ WrongSecret
  /\ Refuse(c, "label_invalid")

HelloAccepted(c) ==
  /\ HelloFirst(c)
  /\ peer[c] \notin WrongSecret \union BadLabel

\* Fault: the old socket is left open.
SupersededKept(o, c) == {}

\* The old socket a resume detaches and destroys, if it is not this one.
Superseded(o, c) == {pipe[o]} \ {None, c}

\* Fault: the misses of the old socket are carried over.
MissedCarriedOver(o) == missed[o]

MissedAfterResume(o) == 0

\* The prior session is rebound to this socket and its old socket destroyed.
Resume(c) ==
  /\ HelloAccepted(c)
  /\ CanResume(c)
  /\ LET o   == registry[peer[c]]
         old == Superseded(o, c)
     IN /\ pipe' = [pipe EXCEPT ![o] = c]
        /\ missed' = [missed EXCEPT ![o] = MissedAfterResume(o)]
        /\ bound' = [bound EXCEPT ![c] = o]
        /\ cbConns' = (cbConns \ old) \union {c}
        /\ sEnd' = [d \in Conns |-> IF d \in old /\ sEnd[d] = "open" THEN "destroyed" ELSE sEnd[d]]
        /\ toServer' = [d \in Conns |-> IF d = c THEN Tail(toServer[c])
                                        ELSE IF d \in old THEN <<>> ELSE toServer[d]]
        /\ toClient' = [d \in Conns |-> IF d \in old THEN <<>> ELSE toClient[d]]
  /\ UNCHANGED <<cbVars, nextConn, peer, cEnd, registry, status, label, record>>

\* The registry after the entry a resume could not use was removed.
RegistryForNew(c) ==
  IF Frame(c).resume THEN [registry EXCEPT ![peer[c]] = None] ELSE registry

\* A new Session is named, registered, announced and recorded.
Register(c) ==
  /\ HelloAccepted(c)
  /\ ~CanResume(c)
  /\ LET p    == peer[c]
         reg  == RegistryForNew(c)
         name == LabelAt[p][Suffix(reg, p)]
     IN /\ label' = [o \in Conns |-> IF o = c THEN Label(name)
                                     ELSE IF Collides(reg, o, name) THEN [name |-> name, tag |-> o]
                                     ELSE label[o]]
        /\ registry' = [reg EXCEPT ![p] = c]
        /\ record' = [record EXCEPT ![p] = "live"]
  /\ status' = [status EXCEPT ![c] = "alive"]
  /\ pipe' = [pipe EXCEPT ![c] = c]
  /\ missed' = [missed EXCEPT ![c] = 0]
  /\ bound' = [bound EXCEPT ![c] = c]
  /\ cbConns' = cbConns \union {c}
  /\ toServer' = [toServer EXCEPT ![c] = Tail(@)]
  /\ UNCHANGED <<cbVars, nextConn, peer, cEnd, sEnd, toClient>>

-----------------------------------------------------------------------------
(* handleCbFrame(), timers and handleClose() *)

OnPong(c) ==
  /\ Readable(c)
  /\ bound[c] # None
  /\ Frame(c).t = "pong"
  /\ missed' = [missed EXCEPT ![bound[c]] = 0]
  /\ toServer' = [toServer EXCEPT ![c] = Tail(@)]
  /\ UNCHANGED <<cbVars, nextConn, peer, cEnd, sEnd, toClient, bound, cbConns, registry,
                 status, label, pipe, record>>

\* markDead() for the sessions of S, each with its pipe, and destroy() for D.
Bury(S, D) ==
  /\ MarkDead(S)
  /\ Destroy(Pipes(S) \union D)
  /\ UNCHANGED <<cbVars, nextConn, peer, cEnd, bound, cbConns, registry, label, missed>>

\* bye: the session dies and its socket, with what is left to read, is destroyed.
OnBye(c) ==
  /\ Readable(c)
  /\ bound[c] # None
  /\ Frame(c).t = "bye"
  /\ Bury({bound[c]}, {})

PingsLeft(o) == missed[o] < MissLimit

\* startHeartbeat()'s interval: a ping ...
Heartbeat(c) ==
  /\ bound[c] # None
  /\ sEnd[c] = "open"
  /\ PingsLeft(bound[c])
  /\ missed' = [missed EXCEPT ![bound[c]] = @ + 1]
  /\ toClient' = IF cEnd[c] = "open" /\ InFlight(toClient[c], "ping") < MissLimit
                 THEN [toClient EXCEPT ![c] = Append(@, "ping")]
                 ELSE toClient
  /\ UNCHANGED <<cbVars, nextConn, peer, cEnd, sEnd, toServer, bound, cbConns, registry,
                 status, label, pipe, record>>

\* Fault: the limit is compared one too high, and never exceeded.
HeartbeatLostLate(c) ==
  /\ bound[c] # None
  /\ sEnd[c] = "open"
  /\ missed[bound[c]] > MissLimit
  /\ Bury({bound[c]}, {c})

\* ... or, after MissLimit unanswered pings, the session's death.
HeartbeatLost(c) ==
  /\ bound[c] # None
  /\ sEnd[c] = "open"
  /\ ~PingsLeft(bound[c])
  /\ Bury({bound[c]}, {c})

PidGone == {o \in Registered : IsAlive(o) /\ ~PidAlive(peer[o])}

\* pidPoll(): every registered session whose pid is gone dies.
PidPoll ==
  /\ PidGone # {}
  /\ Bury(PidGone, {})

\* inject(): the pipe is there, but the synchronous probe finds the pid gone.
InjectProbe(p) ==
  /\ registry[p] \in PidGone
  /\ sEnd[pipe[registry[p]]] = "open"
  /\ Bury({registry[p]}, {})

\* Fault: live sessions are swept too.
SweepableAny == {p \in Cbs : registry[p] # None}

Sweepable == {p \in Cbs : registry[p] # None /\ status[registry[p]] = "dead"}

\* sweepDead(): dead sessions past their retention leave the registry.
SweepDead ==
  \E S \in SUBSET Sweepable :
    /\ S # {}
    /\ registry' = [p \in Cbs |-> IF p \in S THEN None ELSE registry[p]]
    /\ UNCHANGED <<cbVars, netVars, bound, cbConns, status, label, pipe, missed, record>>

\* No hello within SOCKET_IDLE_TIMEOUT_MS.
HandshakeTimeout(c) ==
  /\ sEnd[c] = "open"
  /\ bound[c] = None
  /\ toServer[c] = <<>>
  /\ Destroy({c})
  /\ UNCHANGED <<cbVars, nextConn, peer, cEnd, srvVars>>

\* Fault: the close of a cb connection leaves its session alive.
ClosedSessionNever(c) == {}

\* Fault: the death listeners run for a session that is dead already.
ClosedSessionAgain(c) == {bound[c]} \ {None}

\* Fault: the close of a superseded socket counts.
ClosedSessionStale(c) == {o \in {bound[c]} \ {None} : IsAlive(o)}

\* The session this connection's close kills: the one whose pipe it still is.
ClosedSession(c) ==
  {o \in {bound[c]} \ {None} : IsAlive(o) /\ pipe[o] = c}

\* handleClose(): the server end was destroyed, or read to its end.
HandleClose(c) ==
  /\ \/ sEnd[c] = "destroyed"
     \/ sEnd[c] = "open" /\ cEnd[c] = "closed" /\ toServer[c] = <<>>
  /\ sEnd' = [sEnd EXCEPT ![c] = "closed"]
  /\ toClient' = [toClient EXCEPT ![c] = IF cEnd[c] = "open" THEN @ ELSE <<>>]
  /\ cbConns' = cbConns \ {c}
  /\ MarkDead(ClosedSession(c))
  /\ UNCHANGED <<cbVars, nextConn, peer, cEnd, toServer, bound, registry, label, missed>>

-----------------------------------------------------------------------------

CbStep(p) ==
  \/ Connect(p) \/ OnConnect(p) \/ OnPing(p) \/ OnAuthFailed(p) \/ OnOtherError(p)
  \/ OnClose(p) \/ OnExit(p) \/ Exit(p)

CbFault(p) == ChildDies(p) \/ Crash(p) \/ PingWatchdog(p)

DaemonStep(c) ==
  \/ RefuseSecret(c) \/ RefuseLabel(c) \/ Resume(c) \/ Register(c)
  \/ OnPong(c) \/ OnBye(c)
  \/ Heartbeat(c) \/ HeartbeatLost(c) \/ HandleClose(c)

DaemonTimer == PidPoll \/ SweepDead

Next ==
  \/ \E p \in Cbs : CbStep(p) \/ CbFault(p) \/ InjectProbe(p)
  \/ \E c \in Conns : DaemonStep(c) \/ HandshakeTimeout(c) \/ PipeBreak(c)
  \/ DaemonTimer

\* Event loops run what is ready and timers fire; processes need not exit, pipes
\* need not break, nobody needs to inject, and a cb may never get to its pings.
Reads(c) == RefuseSecret(c) \/ RefuseLabel(c) \/ Resume(c) \/ Register(c) \/ OnPong(c) \/ OnBye(c)
Beats(c) == Heartbeat(c) \/ HeartbeatLost(c)

Fairness ==
  /\ \A p \in Cbs : /\ WF_vars(Connect(p))
                    /\ WF_vars(OnConnect(p))
                    /\ WF_vars(OnAuthFailed(p))
                    /\ WF_vars(OnOtherError(p))
                    /\ WF_vars(OnClose(p))
                    /\ WF_vars(OnExit(p))
                    /\ WF_vars(Exit(p))
  /\ \A c \in Conns : WF_vars(Reads(c)) /\ WF_vars(Beats(c)) /\ WF_vars(HandleClose(c))
  /\ WF_vars(PidPoll)
  /\ WF_vars(SweepDead)

Spec == Init /\ [][Next]_vars
FairSpec == Spec /\ Fairness

-----------------------------------------------------------------------------
(* Safety *)

\* No two entries of bridge_list show the same label, whatever died, came back or
\* was renamed (registry.ts resolveLabel, renameDeadCollisions).
LabelsUnambiguous ==
  \A o1, o2 \in Registered : o1 # o2 => label[o1] # label[o2]

\* A live session always has a pipe whose close will find it and which stop()
\* would destroy, so it can never be alive for good with nobody behind it.
LiveSessionHasPipe ==
  \A o \in Conns : IsAlive(o) =>
    /\ pipe[o] \in cbConns
    /\ bound[pipe[o]] = o
    /\ sEnd[pipe[o]] \in {"open", "destroyed"}

\* What is read from an open cb connection goes to a live session of the same cb
\* that answers on this very connection: resume never leaves two feeding sockets.
OpenConnFeedsItsSession ==
  \A c \in Conns : sEnd[c] = "open" /\ bound[c] # None =>
    /\ IsAlive(bound[c])
    /\ pipe[bound[c]] = c
    /\ peer[bound[c]] = peer[c]

\* While the child runs its live session is in the registry, where byIdOrLabel()
\* finds it: no second hello pushes a live session out of reach.
LiveSessionReachable ==
  \A o \in Conns : IsAlive(o) /\ PidAlive(peer[o]) => registry[peer[o]] = o

\* Missed pongs are pings of the session's own pipe that are still unanswered, so
\* a cb that has answered them all is not one heartbeat from being declared dead.
MissedPongsAccounted ==
  \A o \in Conns :
    IsAlive(o) /\ sEnd[pipe[o]] = "open" /\ cEnd[pipe[o]] = "open" =>
      missed[o] <= Unanswered(pipe[o])

\* What watchers and sessions.json last heard of a ULID is what the registry
\* says of it, as long as its child runs.
RecordAgreesWithRegistry ==
  \A p \in Cbs : registry[p] # None /\ PidAlive(p) =>
    record[p] = IF IsAlive(registry[p]) THEN "live" ELSE "ended"

\* A session whose pipe is up on both ends, whose child runs and which leaves fewer
\* than MissLimit pings unanswered is not marked dead: neither by the late close of
\* a socket it was resumed from, nor by that socket's timer or its missed pongs.
Healthy(o) ==
  /\ IsAlive(o)
  /\ PidAlive(peer[o])
  /\ sEnd[pipe[o]] = "open"
  /\ cEnd[pipe[o]] = "open"
  /\ Unanswered(pipe[o]) < MissLimit

HealthySessionSurvives ==
  [][\A o \in Conns : Healthy(o) => IsAlive(o)']_vars

\* A live session of a running child keeps its registry entry: nobody else's hello,
\* and no hello of its own, replaces it (the Audit M2 resume path).
LiveSessionNotReplaced ==
  [][\A p \in Cbs :
       registry[p] # None /\ IsAlive(registry[p]) /\ PidAlive(p) => registry'[p] = registry[p]]_vars

\* The directory that masters see: bridge_list, byIdOrLabel() and what the death
\* listeners told.
LiveEntries == {p \in Cbs : registry[p] # None /\ IsAlive(registry[p])}
LabelShown(p) == IF registry[p] = None THEN NoLabel ELSE label[registry[p]]

Dir == INSTANCE Directory WITH
  Terminals <- Cbs, Ids <- Conns, Nobody <- None, Names <- AnyLabel, NoName <- NoLabel,
  running <- {p \in Cbs : PidAlive(p)}, entry <- registry, live <- LiveEntries,
  shown <- [p \in Cbs |-> LabelShown(p)], told <- record

\* Through lost pipes, late closes, resumes, second hellos and sweeps the daemon keeps
\* what the directory promises: each step of it is a step of Directory or changes
\* nothing a master sees (registry.ts, acceptCb, the death listeners of index.ts).
DirectoryKept == Dir!Spec

\* The sessions byIdOrLabel() may return for a label: a live one if there is one.
ByLabel(name) ==
  LET matches == {o \in Registered : label[o] = Label(name)}
      live    == {o \in matches : IsAlive(o)}
  IN IF live # {} THEN live ELSE matches

\* A label that leads to a live session leads to this session, and to no other,
\* until it dies or its child exits: no registration, resume or rename diverts a
\* master's next call to another terminal.
LiveRouteStable ==
  [][\A name \in Labels : \A o \in ByLabel(name) :
       IsAlive(o) /\ IsAlive(o)' /\ PidAlive(peer[o])' => ByLabel(name)' = {o}]_vars

-----------------------------------------------------------------------------
(* What the safety properties rest on *)

\* Nothing is known of a connection before it is opened.
UnopenedUntouched ==
  \A c \in Conns : c >= nextConn =>
    /\ peer[c] = NoCb
    /\ cEnd[c] = "unused"
    /\ sEnd[c] = "unused"
    /\ bound[c] = None
    /\ toServer[c] = <<>>

OpenedHavePeer == \A c \in Conns : c < nextConn => peer[c] \in Cbs

SocketsAreOwn == \A p \in Cbs : sock[p] # None => peer[sock[p]] = p

\* A connection's session exists and belongs to the same cb.
BoundToOwnSession ==
  \A c \in Conns : bound[c] # None =>
    status[bound[c]] # "none" /\ peer[bound[c]] = peer[c]

\* The connection whose hello created a session stays bound to it.
CreatorStaysBound == \A o \in Conns : status[o] # "none" => bound[o] = o

RegistryHoldsOwnSessions ==
  \A p \in Cbs : registry[p] # None =>
    status[registry[p]] # "none" /\ peer[registry[p]] = p

TagsNameTheDead ==
  \A o \in Conns : label[o].tag # None => label[o].tag = o /\ status[o] = "dead"

\* Frame f is on its way to the server end of c.
Sent(c, f) == \E i \in 1..Len(toServer[c]) : toServer[c][i] = f

\* A bye in flight means the child has exited.
ByeMeansExit == \A c \in Conns : Sent(c, Bye) => ~PidAlive(peer[c])

\* A cb that never lost a connection has opened at most one.
FirstConnIsOnly ==
  \A p \in Cbs : ~isReconnect[p] /\ link[p] # "down" =>
    \A c \in Conns : peer[c] = p => c = sock[p] /\ link[p] # "idle"

\* A hello that does not ask to resume is sent on a cb's first connection ...
FreshHelloOnFirstConn ==
  \A c, d \in Conns : Sent(c, Hello(FALSE)) /\ peer[d] = peer[c] => c <= d

\* ... and as long as it is not read, no connection of the cb has a session.
FreshHelloComesFirst ==
  \A c, d \in Conns :
    Sent(c, Hello(FALSE)) /\ sEnd[c] = "open" /\ bound[c] = None /\ peer[d] = peer[c] =>
      bound[d] = None

-----------------------------------------------------------------------------
(* Liveness *)

\* Once a cb process is gone, with or without a bye, the daemon ends up without a
\* live session of it, for good.
GoneCbIsBuried ==
  \A p \in Cbs :
    proc[p] = "gone" ~> [](\A o \in Conns : peer[o] = p => ~IsAlive(o))

\* A session whose peer has stopped answering does not stay alive: again and again
\* it is dead or has no missed pong.
SilentPeerIsBuried ==
  \A o \in Conns : []<>(~IsAlive(o) \/ missed[o] = 0)

Attached(p) ==
  /\ sock[p] # None
  /\ registry[p] # None
  /\ IsAlive(registry[p])
  /\ pipe[registry[p]] = sock[p]

\* A cb the daemon accepts, and whose child runs, ends up attached after every
\* fault, unless the behaviour has used up its connections.
RunningCbReattaches ==
  \A p \in Cbs \ (WrongSecret \union BadLabel) :
    proc[p] = "up" ~>
      \/ Attached(p)
      \/ proc[p] # "up"
      \/ nextConn \notin Conns

\* A cb the daemon refuses does not go on believing that it is bridged, and sending into a
\* socket that nobody reads, whether the error reaches it or is lost with the socket.
RefusedLetGo ==
  \A p \in WrongSecret \union BadLabel : link[p] = "connected" ~> link[p] # "connected"
=============================================================================
