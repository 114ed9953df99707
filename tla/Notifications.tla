---------------------------- MODULE Notifications ----------------------------
(***************************************************************************)
(* The notification centre of the daemon and what feeds it: MCP clients    *)
(* that attach, lose their connection and reconnect under the same id,     *)
(* sessions that come and go, and injects that wait for the user and are   *)
(* then followed by a background watcher for the worker's silence.         *)
(*                                                                         *)
(* handleMcpFrame() awaits tryInject(): between the arrival of an inject   *)
(* and its outcome connections may close and sessions may die.  A task is  *)
(* such a request, and then the watcher it starts.                         *)
(***************************************************************************)
EXTENDS Naturals, Sequences, FiniteSets

CONSTANTS
  Clients,   \* clientIds: one per bridge-mcp process, kept across reconnects
  NoClient,  \* the owner of a connection that was never opened
  Sessions,  \* session ULIDs
  MaxConns,  \* bound: MCP connections in a behaviour
  MaxTasks,  \* bound: inject requests in a behaviour
  MaxLives,  \* bound: Session objects registered under one ULID
  MaxQueue   \* MAX_QUEUE_PER_CLIENT

ASSUME NoClientAssumption == NoClient \notin Clients
ASSUME BoundsAssumption ==
  /\ MaxConns \in Nat
  /\ MaxTasks \in Nat
  /\ MaxLives \in Nat
  /\ MaxQueue \in Nat \ {0}

Conns  == 1..MaxConns
Lives  == 1..MaxLives
Ids    == 1..MaxTasks
NoTask == 0

\* A task: who asked, for which session, and which of the sessions of this ULID.
Task == [id : Ids, client : Clients, session : Sessions, life : Lives]

Added(s, n)  == [kind |-> "session_added", session |-> s, of |-> n]
Dead(s, n)   == [kind |-> "session_dead", session |-> s, of |-> n]
Complete(t)  == [kind |-> "task_complete", session |-> t.session, of |-> t.id]
Event == [kind : {"session_added", "session_dead"}, session : Sessions, of : Lives]
           \union [kind : {"task_complete"}, session : Sessions, of : Ids]

VARIABLES
  conn,      \* a connection: "unused", "open", "lost" (its close not handled yet), "closed"
  client,    \* ConnState.clientId
  nextConn,  \* the next connection to open
  alive,     \* the live Session objects of a ULID, by their number
  lives,     \* how many sessions were registered under the ULID
  nextTask,  \* the next task
  waiting,   \* tasks inside tryInject()
  running,   \* tasks whose idle watcher runs
  watchers,  \* NotificationCenter.watchers
  queue,     \* NotificationCenter.queues; a missing queue is an empty one
  news,      \* history: what was queued for a client since its queue was last emptied
  told       \* history: what was queued for a client since its queue was last deleted

connVars    == <<conn, client, nextConn>>
sessionVars == <<alive, lives>>
taskVars    == <<nextTask, waiting, running, watchers>>
queueVars   == <<queue, news, told>>
vars        == <<connVars, sessionVars, taskVars, queueVars>>

TypeOK ==
  /\ conn \in [Conns -> {"unused", "open", "lost", "closed"}]
  /\ client \in [Conns -> Clients \union {NoClient}]
  /\ nextConn \in 1..(MaxConns + 1)
  /\ alive \in [Sessions -> SUBSET Lives]
  /\ lives \in [Sessions -> 0..MaxLives]
  /\ nextTask \in 1..(MaxTasks + 1)
  /\ waiting \subseteq Task
  /\ running \subseteq Task
  /\ watchers \in [Clients -> [Sessions -> Ids \union {NoTask}]]
  /\ queue \in [Clients -> Seq(Event)]
  /\ \A m \in Clients : Len(queue[m]) <= MaxQueue
  /\ news \in [Clients -> Seq(Event)]
  /\ told \in [Clients -> SUBSET Event]

Init ==
  /\ conn = [c \in Conns |-> "unused"]
  /\ client = [c \in Conns |-> NoClient]
  /\ nextConn = 1
  /\ alive = [s \in Sessions |-> {}]
  /\ lives = [s \in Sessions |-> 0]
  /\ nextTask = 1
  /\ waiting = {}
  /\ running = {}
  /\ watchers = [m \in Clients |-> [s \in Sessions |-> NoTask]]
  /\ queue = [m \in Clients |-> <<>>]
  /\ news = [m \in Clients |-> <<>>]
  /\ told = [m \in Clients |-> {}]

-----------------------------------------------------------------------------
(* Queues *)

\* The keys of mcpClientIdBySock, and how often connectedMcpClientIds() names m.
Attached == {c \in Conns : conn[c] \in {"open", "lost"}}
Sockets(m) == {c \in Attached : client[c] = m}

\* Fault: splice(1, ...), what overflows is taken from behind the oldest.
KeepOldest(q) ==
  IF Len(q) > MaxQueue THEN <<Head(q)>> \o SubSeq(q, Len(q) - MaxQueue + 2, Len(q)) ELSE q

\* enqueue() keeps the newest MaxQueue events.
Keep(q) ==
  IF Len(q) > MaxQueue THEN SubSeq(q, Len(q) - MaxQueue + 1, Len(q)) ELSE q

\* Event e is queued n[m] times for each client m.
Enqueue(e, n) ==
  /\ queue' = [m \in Clients |-> Keep(queue[m] \o [i \in 1..n[m] |-> e])]
  /\ news' = [m \in Clients |-> news[m] \o [i \in 1..n[m] |-> e]]
  /\ told' = [m \in Clients |-> IF n[m] > 0 THEN told[m] \union {e} ELSE told[m]]

\* connectedMcpClientIds() lists a client once for each of its sockets.
Fanout(e) == Enqueue(e, [m \in Clients |-> Cardinality(Sockets(m))])

\* cancel() of the watchers with these ids: their intervals stop.
Cancel(ids) == {t \in running : t.id \notin ids}

-----------------------------------------------------------------------------
(* MCP connections *)

\* acceptMcp(). A client opens a connection when it has none.
Attach(m) ==
  /\ nextConn \in Conns
  /\ \A c \in Conns : client[c] = m => conn[c] # "open"
  /\ conn' = [conn EXCEPT ![nextConn] = "open"]
  /\ client' = [client EXCEPT ![nextConn] = m]
  /\ nextConn' = nextConn + 1
  /\ UNCHANGED <<sessionVars, taskVars, queueVars>>

\* The client exits, drops its socket or the pipe breaks.
Lose(c) ==
  /\ conn[c] = "open"
  /\ conn' = [conn EXCEPT ![c] = "lost"]
  /\ UNCHANGED <<client, nextConn, sessionVars, taskVars, queueVars>>

\* clientDisconnected(): the queue is freed and the client's watchers cancelled.
ClientDisconnected(m) ==
  /\ queue' = [queue EXCEPT ![m] = <<>>]
  /\ news' = [news EXCEPT ![m] = <<>>]
  /\ told' = [told EXCEPT ![m] = {}]
  /\ running' = Cancel({watchers[m][s] : s \in Sessions})
  /\ watchers' = [watchers EXCEPT ![m] = [s \in Sessions |-> NoTask]]

\* handleClose() of an MCP connection.
HandleClose(c) ==
  /\ conn[c] = "lost"
  /\ conn' = [conn EXCEPT ![c] = "closed"]
  /\ ClientDisconnected(client[c])
  /\ UNCHANGED <<client, nextConn, sessionVars, nextTask, waiting>>

\* The notifications request: everything queued is handed out.
Drain(c) ==
  /\ c \in Attached
  /\ queue[client[c]] # <<>>
  /\ queue' = [queue EXCEPT ![client[c]] = <<>>]
  /\ news' = [news EXCEPT ![client[c]] = <<>>]
  /\ UNCHANGED <<connVars, sessionVars, taskVars, told>>

-----------------------------------------------------------------------------
(* Sessions *)

\* acceptCb() registers a session and tells the clients. The one before it is dead, or
\* its child's pid is gone and it lives until its socket closes.
SessionAdded(s) ==
  /\ lives[s] < MaxLives
  /\ alive' = [alive EXCEPT ![s] = @ \union {lives[s] + 1}]
  /\ lives' = [lives EXCEPT ![s] = @ + 1]
  /\ Fanout(Added(s, lives[s] + 1))
  /\ UNCHANGED <<connVars, taskVars>>

\* Fault: only clients with a watcher on the session hear of its death.
ConcernedWatching(s) ==
  [m \in Clients |-> IF watchers[m][s] # NoTask THEN Cardinality(Sockets(m)) ELSE 0]

\* Whom fanoutSessionDead() tells.
Concerned(s) == [m \in Clients |-> Cardinality(Sockets(m))]

\* markDead() and fanoutSessionDead(): the clients are told, and the watchers of
\* the connected ones are cancelled, whichever session of the ULID they watch.
SessionDies(s, n) ==
  /\ n \in alive[s]
  /\ alive' = [alive EXCEPT ![s] = @ \ {n}]
  /\ Enqueue(Dead(s, n), Concerned(s))
  /\ LET connected == {m \in Clients : Sockets(m) # {}}
     IN /\ running' = Cancel({watchers[m][s] : m \in connected})
        /\ watchers' = [m \in Clients |-> IF m \in connected THEN [watchers[m] EXCEPT ![s] = NoTask]
                                          ELSE watchers[m]]
  /\ UNCHANGED <<connVars, lives, nextTask, waiting>>

-----------------------------------------------------------------------------
(* Injects and their watchers *)

\* inject_req for the registered session, if it lives; tryInject() begins.
InjectReq(c, s) ==
  /\ c \in Attached
  /\ lives[s] \in alive[s]
  /\ nextTask \in Ids
  /\ waiting' = waiting \union
       {[id |-> nextTask, client |-> client[c], session |-> s, life |-> lives[s]]}
  /\ nextTask' = nextTask + 1
  /\ UNCHANGED <<connVars, sessionVars, running, watchers, queueVars>>

\* tryInject() gives up: user_active, session_dead or a failed write.
InjectFails(t) ==
  /\ t \in waiting
  /\ waiting' = waiting \ {t}
  /\ UNCHANGED <<connVars, sessionVars, nextTask, running, watchers, queueVars>>

\* Fault: the session is not looked at again after the wait.
StillAliveUnchecked(t) == TRUE

\* The Session object the request resolved to is not dead.
StillAlive(t) == t.life \in alive[t.session]

\* Fault: the prior watcher is replaced in the map and runs on.
PriorForgotten(t) == {}

PriorWatcher(t) == {watchers[t.client][t.session]}

\* The bytes are written, the reply is sent (or dropped, if the socket is gone), and
\* registerInjectFollowup() replaces the watcher of this client and session.
InjectWritten(t) ==
  /\ t \in waiting
  /\ StillAlive(t)
  /\ waiting' = waiting \ {t}
  /\ running' = Cancel(PriorWatcher(t)) \union {t}
  /\ watchers' = [watchers EXCEPT ![t.client][t.session] = t.id]
  /\ UNCHANGED <<connVars, sessionVars, nextTask, queueVars>>

\* The watcher sees the worker silent and stable: task_complete.
WatcherIdle(t) ==
  /\ t \in running
  /\ running' = running \ {t}
  /\ watchers' = [watchers EXCEPT ![t.client][t.session] = NoTask]
  /\ Enqueue(Complete(t), [m \in Clients |-> IF m = t.client THEN 1 ELSE 0])
  /\ UNCHANGED <<connVars, sessionVars, nextTask, waiting>>

\* Five minutes without it: the interval stops, the map keeps its handle.
WatcherExpires(t) ==
  /\ t \in running
  /\ running' = running \ {t}
  /\ UNCHANGED <<connVars, sessionVars, nextTask, waiting, watchers, queueVars>>

-----------------------------------------------------------------------------

Next ==
  \/ \E m \in Clients : Attach(m)
  \/ \E c \in Conns : Lose(c) \/ HandleClose(c) \/ Drain(c)
  \/ \E s \in Sessions : SessionAdded(s) \/ \E n \in Lives : SessionDies(s, n)
  \/ \E c \in Conns, s \in Sessions : InjectReq(c, s)
  \/ \E t \in waiting : InjectFails(t) \/ InjectWritten(t)
  \/ \E t \in running : WatcherIdle(t) \/ WatcherExpires(t)

Spec == Init /\ [][Next]_vars

-----------------------------------------------------------------------------
(* Safety *)

\* Every running watcher is the one the map holds for its client and session: the
\* next inject, the session's death and the client's disconnect find and stop it,
\* so only the most recent task of a client in a session is ever completed.
RunningWatcherIsTracked ==
  \A t \in running : watchers[t.client][t.session] = t.id

\* A client that was told that a session died is not told afterwards that a task in
\* it completed, whether the task was waiting for the user or being watched.
DeathSettlesTasks ==
  \A t \in running : Dead(t.session, t.life) \notin told[t.client]

\* A client that was told of a session's birth has been told of its death when it is
\* no longer alive, whatever other clients and watchers did meanwhile.
BirthsHaveDeaths ==
  \A m \in Clients, s \in Sessions : \A n \in Lives :
    Added(s, n) \in told[m] =>
      \/ n \in alive[s]
      \/ Dead(s, n) \in told[m]

\* Of what happened since a client last asked, its queue holds what happened last, in order and
\* without a gap, through overflows, second sockets and late closes; and it has given up
\* something older only when it is full.
NewestIsQueued ==
  \A m \in Clients :
    LET lost == Len(news[m]) - Len(queue[m])
    IN  /\ lost >= 0
        /\ lost > 0 => Len(queue[m]) = MaxQueue
        /\ \A i \in 1..Len(queue[m]) : queue[m][i] = news[m][lost + i]
=============================================================================
