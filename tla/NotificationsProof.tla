-------------------------- MODULE NotificationsProof --------------------------
(***************************************************************************)
(* The safety properties of Notifications, for every number of clients,    *)
(* sessions, connections and tasks.                                        *)
(***************************************************************************)
EXTENDS Notifications, FiniteSetTheorems, TLAPS

\* A task has one owner and one place: tasks that wait or run have different ids, all
\* of them handed out before.
TasksDiffer ==
  /\ \A t \in waiting \union running : t.id < nextTask
  /\ \A t, u \in waiting \union running : t.id = u.id => t = u
  /\ waiting \intersect running = {}

\* What was said of a session is so: nobody was told of the death of a live one, or of
\* one that has not been registered yet.
DeadAreDead ==
  \A m \in Clients, s \in Sessions, n \in Lives :
    Dead(s, n) \in told[m] => n <= lives[s] /\ n \notin alive[s]

\* Live sessions were registered.
LiveWereRegistered == \A s \in Sessions : \A n \in alive[s] : n <= lives[s]

\* Nothing is said of sessions to a client that has no connection.
GoneAreToldNothing ==
  \A m \in Clients : Sockets(m) = {} =>
    \A s \in Sessions, n \in Lives : Added(s, n) \notin told[m]

\* Connections are opened in their order, and an attached one has an owner.
Owned ==
  /\ \A c \in Conns : c >= nextConn => conn[c] = "unused"
  /\ \A c \in Attached : client[c] \in Clients

-----------------------------------------------------------------------------
(* Events and queues *)

LEMMA EventsAreTyped ==
  /\ \A s \in Sessions, n \in Lives : Added(s, n) \in Event /\ Dead(s, n) \in Event
  /\ \A t \in Task : Complete(t) \in Event
BY DEF Event, Added, Dead, Complete, Task

\* Events that differ in kind, session or number differ.
LEMMA EventsDiffer ==
  ASSUME NEW s \in Sessions, NEW n \in Lives, NEW r \in Sessions, NEW k \in Lives
  PROVE  /\ Added(s, n) # Dead(r, k)
         /\ Added(s, n) = Added(r, k) => s = r /\ n = k
         /\ Dead(s, n) = Dead(r, k) => s = r /\ n = k
         /\ \A t \in Task : Complete(t) # Dead(r, k) /\ Complete(t) # Added(r, k)
<1>1. /\ Added(s, n).kind = "session_added" /\ Added(s, n).session = s /\ Added(s, n).of = n
      /\ Dead(s, n).kind = "session_dead" /\ Dead(s, n).session = s /\ Dead(s, n).of = n
  BY DEF Added, Dead
<1>2. /\ Added(r, k).kind = "session_added" /\ Added(r, k).session = r /\ Added(r, k).of = k
      /\ Dead(r, k).kind = "session_dead" /\ Dead(r, k).session = r /\ Dead(r, k).of = k
  BY DEF Added, Dead
<1>3. \A t \in Task : Complete(t).kind = "task_complete"
  BY DEF Complete
<1>4. Added(s, n) # Dead(r, k)
  BY <1>1, <1>2
<1>5. Added(s, n) = Added(r, k) => s = r /\ n = k
  BY <1>1, <1>2
<1>6. Dead(s, n) = Dead(r, k) => s = r /\ n = k
  BY <1>1, <1>2
<1>7. \A t \in Task : Complete(t) # Dead(r, k) /\ Complete(t) # Added(r, k)
  BY <1>2, <1>3
<1> QED BY <1>4, <1>5, <1>6, <1>7

LEMMA KeepIsShort ==
  ASSUME NEW q \in Seq(Event)
  PROVE  Keep(q) \in Seq(Event) /\ Len(Keep(q)) <= MaxQueue
<1>1. CASE Len(q) <= MaxQueue
  BY <1>1, BoundsAssumption DEF Keep
<1>2. CASE Len(q) > MaxQueue
  <2>1. Keep(q) = SubSeq(q, Len(q) - MaxQueue + 1, Len(q))
    BY <1>2 DEF Keep
  <2>2. Len(q) - MaxQueue + 1 \in 1..Len(q)
    BY <1>2, BoundsAssumption
  <2>3. Keep(q) \in Seq(Event)
    BY <2>1, <2>2
  <2>4. Len(Keep(q)) = Len(q) - (Len(q) - MaxQueue + 1) + 1
    BY <2>1, <2>2
  <2> QED BY <2>3, <2>4, BoundsAssumption
<1> QED BY <1>1, <1>2, BoundsAssumption

LEMMA EnqueueType ==
  ASSUME TypeOK, NEW e \in Event, NEW n \in [Clients -> Nat], Enqueue(e, n)
  PROVE  /\ queue' \in [Clients -> Seq(Event)]
         /\ \A m \in Clients : Len(queue'[m]) <= MaxQueue
         /\ news' \in [Clients -> Seq(Event)] /\ told' \in [Clients -> SUBSET Event]
<1>1. ASSUME NEW m \in Clients PROVE queue[m] \o [i \in 1..n[m] |-> e] \in Seq(Event)
  <2>1. \A k \in Nat : [i \in 1..k |-> e] \in Seq(Event)
    OBVIOUS
  <2>2. [i \in 1..n[m] |-> e] \in Seq(Event) /\ queue[m] \in Seq(Event)
    BY <2>1 DEF TypeOK
  <2> QED BY <2>2
<1>2. ASSUME NEW m \in Clients
      PROVE  queue'[m] \in Seq(Event) /\ Len(queue'[m]) <= MaxQueue
  <2> DEFINE q == queue[m] \o [i \in 1..n[m] |-> e]
  <2>1. queue'[m] = Keep(q)
    BY DEF Enqueue
  <2>2. q \in Seq(Event)
    BY <1>1
  <2> HIDE DEF q
  <2> QED BY <2>1, <2>2, KeepIsShort
<1>3. queue' \in [Clients -> Seq(Event)]
  BY <1>2 DEF Enqueue
<1>4. told' \in [Clients -> SUBSET Event]
  BY DEF Enqueue, TypeOK
<1>5. ASSUME NEW m \in Clients PROVE news[m] \o [i \in 1..n[m] |-> e] \in Seq(Event)
  <2>1. \A k \in Nat : [i \in 1..k |-> e] \in Seq(Event)
    OBVIOUS
  <2>2. [i \in 1..n[m] |-> e] \in Seq(Event) /\ news[m] \in Seq(Event)
    BY <2>1 DEF TypeOK
  <2> QED BY <2>2
<1>6. news' \in [Clients -> Seq(Event)]
  BY <1>5 DEF Enqueue
<1> QED BY <1>2, <1>3, <1>4, <1>6

LEMMA SocketsAreCounted ==
  ASSUME NEW m \in Clients
  PROVE  /\ Cardinality(Sockets(m)) \in Nat
         /\ Cardinality(Sockets(m)) > 0 <=> Sockets(m) # {}
<1>1. IsFiniteSet(Conns)
  BY FS_Interval, BoundsAssumption DEF Conns
<1>2. IsFiniteSet(Sockets(m))
  BY <1>1, FS_Subset DEF Sockets, Attached
<1>3. Cardinality(Sockets(m)) \in Nat
  BY <1>2, FS_CardinalityType
<1>4. Cardinality(Sockets(m)) = 0 <=> Sockets(m) = {}
  BY <1>2, FS_EmptySet
<1> QED BY <1>3, <1>4

\* What a fan-out adds: its event, for the clients that have a connection.
LEMMA FanoutTells ==
  ASSUME TypeOK, NEW e \in Event,
         Enqueue(e, [m \in Clients |-> Cardinality(Sockets(m))])
  PROVE  /\ queue' \in [Clients -> Seq(Event)]
         /\ \A m \in Clients : Len(queue'[m]) <= MaxQueue
         /\ news' \in [Clients -> Seq(Event)] /\ told' \in [Clients -> SUBSET Event]
         /\ \A m \in Clients : told'[m] = IF Sockets(m) # {} THEN told[m] \union {e} ELSE told[m]
<1> DEFINE n == [m \in Clients |-> Cardinality(Sockets(m))]
<1>1. n \in [Clients -> Nat]
  BY SocketsAreCounted
<1>2. Enqueue(e, n)
  OBVIOUS
<1>3. \A m \in Clients : n[m] > 0 <=> Sockets(m) # {}
  BY SocketsAreCounted
<1> HIDE DEF n
<1>4. \A m \in Clients : told'[m] = IF n[m] > 0 THEN told[m] \union {e} ELSE told[m]
  BY <1>2 DEF Enqueue
<1> QED BY <1>1, <1>2, <1>3, <1>4, EnqueueType

-----------------------------------------------------------------------------
(* Type correctness *)

LEMMA TypeInit == Init => TypeOK /\ Owned
<1> SUFFICES ASSUME Init PROVE TypeOK /\ Owned
  OBVIOUS
<1>1. TypeOK
  BY BoundsAssumption DEF Init, TypeOK, Conns, Ids, NoTask
<1>2. Owned
  BY DEF Init, Owned, Attached
<1> QED BY <1>1, <1>2

LEMMA TypeStep ==
  ASSUME TypeOK, Owned, [Next]_vars
  PROVE  TypeOK' /\ Owned'
<1> USE DEF connVars, sessionVars, taskVars, queueVars
<1>1. ASSUME NEW m \in Clients, Attach(m) PROVE TypeOK' /\ Owned'
  <2>1. conn' \in [Conns -> {"unused", "open", "lost", "closed"}]
    BY <1>1 DEF TypeOK, Attach
  <2>2. client' \in [Conns -> Clients \union {NoClient}] /\ nextConn' \in 1..(MaxConns + 1)
    BY <1>1, BoundsAssumption DEF TypeOK, Attach, Conns
  <2>3. TypeOK'
    BY <1>1, <2>1, <2>2 DEF TypeOK, Attach
  <2>4. Owned'
    BY <1>1 DEF TypeOK, Attach, Owned, Attached
  <2> QED BY <2>3, <2>4
<1>2. ASSUME NEW c \in Conns, Lose(c) PROVE TypeOK' /\ Owned'
  <2>1. TypeOK'
    BY <1>2 DEF TypeOK, Lose
  <2>2. Owned'
    BY <1>2 DEF TypeOK, Lose, Owned, Attached
  <2> QED BY <2>1, <2>2
<1>3. ASSUME NEW c \in Conns, HandleClose(c) PROVE TypeOK' /\ Owned'
  <2>1. client[c] \in Clients
    BY <1>3 DEF HandleClose, Owned, Attached
  <2>2. conn' \in [Conns -> {"unused", "open", "lost", "closed"}]
    BY <1>3 DEF TypeOK, HandleClose
  <2>3. /\ queue' \in [Clients -> Seq(Event)]
        /\ \A m \in Clients : Len(queue'[m]) <= MaxQueue
        /\ news' \in [Clients -> Seq(Event)] /\ told' \in [Clients -> SUBSET Event]
    BY <1>3, <2>1, BoundsAssumption DEF TypeOK, HandleClose, ClientDisconnected
  <2>4. running' \subseteq Task /\ watchers' \in [Clients -> [Sessions -> Ids \union {NoTask}]]
    BY <1>3, <2>1 DEF TypeOK, HandleClose, ClientDisconnected, Cancel
  <2>5. TypeOK'
    BY <1>3, <2>2, <2>3, <2>4 DEF TypeOK, HandleClose
  <2>6. Owned'
    BY <1>3 DEF TypeOK, HandleClose, Owned, Attached
  <2> QED BY <2>5, <2>6
<1>4. ASSUME NEW c \in Conns, Drain(c) PROVE TypeOK' /\ Owned'
  <2>1. client[c] \in Clients
    BY <1>4 DEF Drain, Owned
  <2>2. /\ queue' \in [Clients -> Seq(Event)] /\ \A m \in Clients : Len(queue'[m]) <= MaxQueue
        /\ news' \in [Clients -> Seq(Event)]
    BY <1>4, <2>1, BoundsAssumption DEF TypeOK, Drain
  <2>3. TypeOK'
    BY <1>4, <2>2 DEF TypeOK, Drain
  <2>4. Owned'
    BY <1>4 DEF Drain, Owned, Attached
  <2> QED BY <2>3, <2>4
<1>5. ASSUME NEW s \in Sessions, SessionAdded(s) PROVE TypeOK' /\ Owned'
  <2>1. lives[s] + 1 \in Lives
    BY <1>5, BoundsAssumption DEF TypeOK, SessionAdded, Lives
  <2>2. Added(s, lives[s] + 1) \in Event
    BY <2>1, EventsAreTyped
  <2>3. /\ queue' \in [Clients -> Seq(Event)]
        /\ \A m \in Clients : Len(queue'[m]) <= MaxQueue
        /\ news' \in [Clients -> Seq(Event)] /\ told' \in [Clients -> SUBSET Event]
    BY <1>5, <2>2, FanoutTells DEF SessionAdded, Fanout
  <2>4. alive' \in [Sessions -> SUBSET Lives]
    BY <1>5, <2>1 DEF TypeOK, SessionAdded
  <2>5. lives' \in [Sessions -> 0..MaxLives]
    BY <1>5, <2>1, BoundsAssumption DEF TypeOK, SessionAdded, Lives
  <2>6. TypeOK'
    BY <1>5, <2>3, <2>4, <2>5 DEF TypeOK, SessionAdded
  <2>7. Owned'
    BY <1>5 DEF SessionAdded, Owned, Attached
  <2> QED BY <2>6, <2>7
<1>6. ASSUME NEW s \in Sessions, NEW n \in Lives, SessionDies(s, n) PROVE TypeOK' /\ Owned'
  <2>1. Dead(s, n) \in Event
    BY EventsAreTyped
  <2>2. /\ queue' \in [Clients -> Seq(Event)]
        /\ \A m \in Clients : Len(queue'[m]) <= MaxQueue
        /\ news' \in [Clients -> Seq(Event)] /\ told' \in [Clients -> SUBSET Event]
    BY <1>6, <2>1, FanoutTells DEF SessionDies, Concerned
  <2>3. alive' \in [Sessions -> SUBSET Lives]
    BY <1>6 DEF TypeOK, SessionDies
  <2>4. running' \subseteq Task
    BY <1>6 DEF TypeOK, SessionDies, Cancel
  <2>5. watchers' \in [Clients -> [Sessions -> Ids \union {NoTask}]]
    BY <1>6 DEF TypeOK, SessionDies
  <2>6. TypeOK'
    BY <1>6, <2>2, <2>3, <2>4, <2>5 DEF TypeOK, SessionDies
  <2>7. Owned'
    BY <1>6 DEF SessionDies, Owned, Attached
  <2> QED BY <2>6, <2>7
<1>7. ASSUME NEW c \in Conns, NEW s \in Sessions, InjectReq(c, s) PROVE TypeOK' /\ Owned'
  <2>1. client[c] \in Clients /\ lives[s] \in Lives
    BY <1>7 DEF InjectReq, Owned, TypeOK
  <2>2. waiting' \subseteq Task /\ nextTask' \in 1..(MaxTasks + 1)
    BY <1>7, <2>1, BoundsAssumption DEF InjectReq, TypeOK, Task, Ids
  <2>3. TypeOK'
    BY <1>7, <2>2 DEF TypeOK, InjectReq
  <2>4. Owned'
    BY <1>7 DEF InjectReq, Owned, Attached
  <2> QED BY <2>3, <2>4
<1>8. ASSUME NEW t \in waiting, InjectFails(t) PROVE TypeOK' /\ Owned'
  BY <1>8 DEF InjectFails, TypeOK, Owned, Attached
<1>9. ASSUME NEW t \in waiting, InjectWritten(t) PROVE TypeOK' /\ Owned'
  <2>1. t \in Task /\ t.client \in Clients /\ t.session \in Sessions /\ t.id \in Ids
    BY <1>9 DEF TypeOK, Task
  <2>2. watchers' \in [Clients -> [Sessions -> Ids \union {NoTask}]]
    BY <1>9, <2>1 DEF TypeOK, InjectWritten
  <2>3. running' \subseteq Task /\ waiting' \subseteq Task
    BY <1>9, <2>1 DEF TypeOK, InjectWritten, Cancel
  <2>4. TypeOK'
    BY <1>9, <2>2, <2>3 DEF TypeOK, InjectWritten
  <2>5. Owned'
    BY <1>9 DEF InjectWritten, Owned, Attached
  <2> QED BY <2>4, <2>5
<1>10. ASSUME NEW t \in running, WatcherIdle(t) PROVE TypeOK' /\ Owned'
  <2>1. t \in Task /\ t.client \in Clients /\ t.session \in Sessions
    BY <1>10 DEF TypeOK, Task
  <2>2. watchers' \in [Clients -> [Sessions -> Ids \union {NoTask}]]
    BY <1>10, <2>1 DEF TypeOK, WatcherIdle
  <2>3. [m \in Clients |-> IF m = t.client THEN 1 ELSE 0] \in [Clients -> Nat]
    OBVIOUS
  <2>4. /\ queue' \in [Clients -> Seq(Event)]
        /\ \A m \in Clients : Len(queue'[m]) <= MaxQueue
        /\ news' \in [Clients -> Seq(Event)] /\ told' \in [Clients -> SUBSET Event]
    BY <1>10, <2>1, <2>3, EventsAreTyped, EnqueueType DEF WatcherIdle
  <2>5. TypeOK'
    BY <1>10, <2>2, <2>4 DEF TypeOK, WatcherIdle
  <2>6. Owned'
    BY <1>10 DEF WatcherIdle, Owned, Attached
  <2> QED BY <2>5, <2>6
<1>11. ASSUME NEW t \in running, WatcherExpires(t) PROVE TypeOK' /\ Owned'
  BY <1>11 DEF WatcherExpires, TypeOK, Owned, Attached
<1>12. ASSUME UNCHANGED vars PROVE TypeOK' /\ Owned'
  BY <1>12 DEF vars, TypeOK, Owned, Attached
<1> QED BY <1>1, <1>2, <1>3, <1>4, <1>5, <1>6, <1>7, <1>8, <1>9, <1>10, <1>11, <1>12 DEF Next

\* The notification centre's variables are well-typed in every reachable state.
THEOREM TypeCorrect == Spec => []TypeOK
<1>1. TypeOK /\ Owned /\ [Next]_vars => (TypeOK /\ Owned)'
  BY TypeStep
<1> QED BY <1>1, TypeInit, PTL DEF Spec

-----------------------------------------------------------------------------
(* Watchers *)

Watched == TypeOK /\ Owned /\ TasksDiffer /\ RunningWatcherIsTracked

LEMMA WatchedInit == Init => Watched
<1> SUFFICES ASSUME Init PROVE Watched
  OBVIOUS
<1>1. TasksDiffer /\ RunningWatcherIsTracked
  BY DEF Init, TasksDiffer, RunningWatcherIsTracked
<1> QED BY <1>1, TypeInit DEF Watched

\* Every step but a request leaves no more tasks than it finds, and moves them from
\* waiting to running only.
LEMMA TasksStep ==
  ASSUME Watched, [Next]_vars
  PROVE  TasksDiffer'
<1> USE DEF connVars, sessionVars, taskVars, queueVars
<1>1. ASSUME NEW m \in Clients, Attach(m) PROVE TasksDiffer'
  BY <1>1 DEF Watched, Attach, TasksDiffer
<1>2. ASSUME NEW c \in Conns, Lose(c) PROVE TasksDiffer'
  BY <1>2 DEF Watched, Lose, TasksDiffer
<1>3. ASSUME NEW c \in Conns, HandleClose(c) PROVE TasksDiffer'
  BY <1>3 DEF Watched, HandleClose, ClientDisconnected, Cancel, TasksDiffer
<1>4. ASSUME NEW c \in Conns, Drain(c) PROVE TasksDiffer'
  BY <1>4 DEF Watched, Drain, TasksDiffer
<1>5. ASSUME NEW s \in Sessions, SessionAdded(s) PROVE TasksDiffer'
  BY <1>5 DEF Watched, SessionAdded, TasksDiffer
<1>6. ASSUME NEW s \in Sessions, NEW n \in Lives, SessionDies(s, n) PROVE TasksDiffer'
  BY <1>6 DEF Watched, SessionDies, Cancel, TasksDiffer
<1>7. ASSUME NEW c \in Conns, NEW s \in Sessions, InjectReq(c, s) PROVE TasksDiffer'
  <2> DEFINE new == [id |-> nextTask, client |-> client[c], session |-> s, life |-> lives[s]]
  <2>1. waiting' = waiting \union {new} /\ running' = running /\ nextTask' = nextTask + 1
    BY <1>7 DEF InjectReq
  <2>2. new.id = nextTask /\ nextTask \in Nat
    BY DEF Watched, TypeOK
  <2>3. \A t \in waiting \union running : t.id \in Nat /\ t.id < nextTask
    BY DEF Watched, TypeOK, TasksDiffer, Task, Ids
  <2> HIDE DEF new
  <2>4. \A t \in waiting \union running : t.id # new.id /\ t # new
    BY <2>2, <2>3
  <2>5. \A t \in waiting' \union running' : t.id < nextTask'
    BY <2>1, <2>2, <2>3
  <2>6. \A t, u \in waiting' \union running' : t.id = u.id => t = u
    BY <2>1, <2>4 DEF Watched, TasksDiffer
  <2>7. waiting' \intersect running' = {}
    BY <2>1, <2>4 DEF Watched, TasksDiffer
  <2> QED BY <2>5, <2>6, <2>7 DEF TasksDiffer
<1>8. ASSUME NEW t \in waiting, InjectFails(t) PROVE TasksDiffer'
  BY <1>8 DEF Watched, InjectFails, TasksDiffer
<1>9. ASSUME NEW t \in waiting, InjectWritten(t) PROVE TasksDiffer'
  BY <1>9 DEF Watched, InjectWritten, Cancel, TasksDiffer
<1>10. ASSUME NEW t \in running, WatcherIdle(t) PROVE TasksDiffer'
  BY <1>10 DEF Watched, WatcherIdle, TasksDiffer
<1>11. ASSUME NEW t \in running, WatcherExpires(t) PROVE TasksDiffer'
  BY <1>11 DEF Watched, WatcherExpires, TasksDiffer
<1>12. ASSUME UNCHANGED vars PROVE TasksDiffer'
  BY <1>12 DEF Watched, vars, TasksDiffer
<1> QED BY <1>1, <1>2, <1>3, <1>4, <1>5, <1>6, <1>7, <1>8, <1>9, <1>10, <1>11, <1>12 DEF Next

\* A watcher leaves the map only when it stops: it resolves, is cancelled with its
\* client or session, or is replaced.
LEMMA TrackedStep ==
  ASSUME Watched, [Next]_vars
  PROVE  RunningWatcherIsTracked'
<1> USE DEF connVars, sessionVars, taskVars, queueVars
<1>0. \A t \in waiting \union running : t.client \in Clients /\ t.session \in Sessions
  BY DEF Watched, TypeOK, Task
<1>1. ASSUME NEW c \in Conns, HandleClose(c) PROVE RunningWatcherIsTracked'
  <2>1. client[c] \in Clients
    BY <1>1 DEF Watched, HandleClose, Owned, Attached
  <2>2. ASSUME NEW t \in running' PROVE watchers'[t.client][t.session] = t.id
    <3>1. t \in running /\ t.id \notin {watchers[client[c]][s] : s \in Sessions}
      BY <1>1, <2>2 DEF HandleClose, ClientDisconnected, Cancel
    <3>2. watchers[t.client][t.session] = t.id
      BY <3>1 DEF Watched, RunningWatcherIsTracked
    <3>3. t.client # client[c]
      BY <1>0, <3>1, <3>2
    <3>4. watchers'[t.client] = watchers[t.client]
      BY <1>0, <1>1, <3>1, <3>3 DEF HandleClose, ClientDisconnected, Watched, TypeOK
    <3> QED BY <3>2, <3>4
  <2> QED BY <2>2 DEF RunningWatcherIsTracked
<1>2. ASSUME NEW s \in Sessions, NEW n \in Lives, SessionDies(s, n)
      PROVE  RunningWatcherIsTracked'
  <2> DEFINE connected == {m \in Clients : Sockets(m) # {}}
  <2>1. ASSUME NEW t \in running' PROVE watchers'[t.client][t.session] = t.id
    <3>1. t \in running /\ t.id \notin {watchers[m][s] : m \in connected}
      BY <1>2, <2>1 DEF SessionDies, Cancel
    <3>2. watchers[t.client][t.session] = t.id
      BY <3>1 DEF Watched, RunningWatcherIsTracked
    <3>3. t.client \notin connected \/ t.session # s
      BY <3>1, <3>2
    <3>4. watchers'[t.client] = IF t.client \in connected
                                THEN [watchers[t.client] EXCEPT ![s] = NoTask]
                                ELSE watchers[t.client]
      BY <1>0, <1>2, <3>1 DEF SessionDies
    <3>5. watchers[t.client] \in [Sessions -> Ids \union {NoTask}]
      BY <1>0, <3>1 DEF Watched, TypeOK
    <3> QED BY <1>0, <3>1, <3>2, <3>3, <3>4, <3>5
  <2> QED BY <2>1 DEF RunningWatcherIsTracked
<1>3. ASSUME NEW t \in waiting, InjectWritten(t) PROVE RunningWatcherIsTracked'
  <2>1. ASSUME NEW u \in running' PROVE watchers'[u.client][u.session] = u.id
    <3>1. watchers' = [watchers EXCEPT ![t.client][t.session] = t.id]
      BY <1>3 DEF InjectWritten
    <3>2. CASE u = t
      BY <1>0, <3>1, <3>2 DEF Watched, TypeOK
    <3>3. CASE u # t
      <4>1. u \in running /\ u.id # watchers[t.client][t.session]
        BY <1>3, <2>1, <3>3 DEF InjectWritten, Cancel, PriorWatcher
      <4>2. watchers[u.client][u.session] = u.id
        BY <4>1 DEF Watched, RunningWatcherIsTracked
      <4>3. u.client # t.client \/ u.session # t.session
        BY <4>1, <4>2
      <4> QED BY <1>0, <3>1, <4>1, <4>2, <4>3 DEF Watched, TypeOK
    <3> QED BY <3>2, <3>3
  <2> QED BY <2>1 DEF RunningWatcherIsTracked
<1>4. ASSUME NEW t \in running, WatcherIdle(t) PROVE RunningWatcherIsTracked'
  <2>1. ASSUME NEW u \in running' PROVE watchers'[u.client][u.session] = u.id
    <3>1. u \in running /\ u # t
      BY <1>4, <2>1 DEF WatcherIdle
    <3>2. watchers[u.client][u.session] = u.id /\ watchers[t.client][t.session] = t.id
      BY <3>1 DEF Watched, RunningWatcherIsTracked
    <3>3. u.id # t.id
      BY <3>1 DEF Watched, TasksDiffer
    <3>4. u.client # t.client \/ u.session # t.session
      BY <3>2, <3>3
    <3>5. watchers' = [watchers EXCEPT ![t.client][t.session] = NoTask]
      BY <1>4 DEF WatcherIdle
    <3> QED BY <1>0, <3>1, <3>2, <3>4, <3>5 DEF Watched, TypeOK
  <2> QED BY <2>1 DEF RunningWatcherIsTracked
<1>5. ASSUME NEW t \in running, WatcherExpires(t) PROVE RunningWatcherIsTracked'
  BY <1>5 DEF Watched, WatcherExpires, RunningWatcherIsTracked
<1>6. ASSUME UNCHANGED <<running, watchers>> PROVE RunningWatcherIsTracked'
  BY <1>6 DEF Watched, RunningWatcherIsTracked
<1>7. ASSUME NEW m \in Clients, Attach(m) PROVE UNCHANGED <<running, watchers>>
  BY <1>7 DEF Attach
<1>8. ASSUME NEW c \in Conns, Lose(c) \/ Drain(c) PROVE UNCHANGED <<running, watchers>>
  BY <1>8 DEF Lose, Drain
<1>9. ASSUME NEW s \in Sessions, SessionAdded(s) PROVE UNCHANGED <<running, watchers>>
  BY <1>9 DEF SessionAdded
<1>10. ASSUME NEW c \in Conns, NEW s \in Sessions, InjectReq(c, s)
       PROVE  UNCHANGED <<running, watchers>>
  BY <1>10 DEF InjectReq
<1>11. ASSUME NEW t \in waiting, InjectFails(t) PROVE UNCHANGED <<running, watchers>>
  BY <1>11 DEF InjectFails
<1>12. ASSUME UNCHANGED vars PROVE UNCHANGED <<running, watchers>>
  BY <1>12 DEF vars
<1> QED BY <1>1, <1>2, <1>3, <1>4, <1>5, <1>6, <1>7, <1>8, <1>9, <1>10, <1>11, <1>12 DEF Next

LEMMA WatchedStep ==
  ASSUME Watched, [Next]_vars
  PROVE  Watched'
BY TypeStep, TasksStep, TrackedStep DEF Watched

\* Of the watchers of a client in a session only the latest runs, and the map leads to it.
THEOREM WatchersAreTracked == Spec => []RunningWatcherIsTracked
<1>1. Watched /\ [Next]_vars => Watched'
  BY WatchedStep
<1>2. Watched => RunningWatcherIsTracked
  BY DEF Watched
<1> QED BY <1>1, <1>2, WatchedInit, PTL DEF Spec

-----------------------------------------------------------------------------
(* What clients are told of sessions *)

Informed ==
  /\ LiveWereRegistered
  /\ DeadAreDead
  /\ DeathSettlesTasks
  /\ GoneAreToldNothing
  /\ BirthsHaveDeaths

LEMMA InformedInit == Init => Informed
<1> SUFFICES ASSUME Init PROVE Informed
  OBVIOUS
<1>1. LiveWereRegistered /\ DeadAreDead /\ DeathSettlesTasks
  BY DEF Init, LiveWereRegistered, DeadAreDead, DeathSettlesTasks
<1>2. GoneAreToldNothing /\ BirthsHaveDeaths
  BY DEF Init, GoneAreToldNothing, BirthsHaveDeaths
<1> QED BY <1>1, <1>2 DEF Informed

\* A step that keeps the sessions, tells nobody of one and starts no watcher of a dead
\* one keeps the invariant, if those that lose their last connection forget all.
LEMMA NothingTold ==
  ASSUME Watched, Informed, alive' = alive, lives' = lives,
         \A m \in Clients, s \in Sessions, n \in Lives :
           /\ Dead(s, n) \in told'[m] => Dead(s, n) \in told[m]
           /\ Added(s, n) \in told'[m] => Added(s, n) \in told[m]
           /\ Dead(s, n) \in told[m] => Dead(s, n) \in told'[m] \/ told'[m] = {},
         \A m \in Clients : Sockets(m)' = {} => Sockets(m) = {} \/ told'[m] = {},
         \A t \in running' : t \in running \/ (t \in waiting /\ t.life \in alive[t.session])
  PROVE  Informed'
<1>1. LiveWereRegistered'
  BY DEF Informed, LiveWereRegistered
<1>2. DeadAreDead'
  BY DEF Informed, DeadAreDead
<1>3. ASSUME NEW t \in running' PROVE Dead(t.session, t.life) \notin told'[t.client]
  <2>1. t.client \in Clients /\ t.session \in Sessions /\ t.life \in Lives
    BY <1>3 DEF Watched, TypeOK, Task
  <2>2. Dead(t.session, t.life) \notin told[t.client]
    BY <1>3, <2>1 DEF Informed, DeathSettlesTasks, DeadAreDead
  <2> QED BY <2>1, <2>2
<1>4. GoneAreToldNothing'
  BY DEF Informed, GoneAreToldNothing
<1>5. BirthsHaveDeaths'
  BY DEF Informed, BirthsHaveDeaths
<1> QED BY <1>1, <1>2, <1>3, <1>4, <1>5 DEF Informed, DeathSettlesTasks

\* The registration of a session: its number is new, so nobody has heard of it.
LEMMA AddedStep ==
  ASSUME Watched, Informed, NEW s \in Sessions, SessionAdded(s)
  PROVE  Informed'
<1> DEFINE k == lives[s] + 1
<1>1. k \in Lives /\ lives[s] \in Nat
  BY BoundsAssumption DEF Watched, TypeOK, SessionAdded, Lives
<1>2. /\ alive' = [alive EXCEPT ![s] = @ \union {k}]
      /\ lives' = [lives EXCEPT ![s] = k]
      /\ \A m \in Clients : Sockets(m)' = Sockets(m)
      /\ running' = running
  BY DEF SessionAdded, Sockets, Attached, connVars, taskVars
<1>3. Added(s, k) \in Event
  BY <1>1, EventsAreTyped
<1>4. \A m \in Clients :
        told'[m] = IF Sockets(m) # {} THEN told[m] \union {Added(s, k)} ELSE told[m]
  BY <1>3, FanoutTells DEF SessionAdded, Fanout, Watched
<1>5. /\ alive'[s] = alive[s] \union {k} /\ lives'[s] = k
      /\ \A r \in Sessions : r # s => alive'[r] = alive[r] /\ lives'[r] = lives[r]
      /\ \A r \in Sessions : lives[r] \in Nat /\ alive[r] \subseteq Nat
  BY <1>2 DEF Watched, TypeOK, Lives
<1> HIDE DEF k
<1>6. k = lives[s] + 1
  BY DEF k
<1>7. \A m \in Clients, r \in Sessions, n \in Lives :
        /\ Dead(r, n) \in told'[m] <=> Dead(r, n) \in told[m]
        /\ Added(r, n) \in told'[m] <=>
             Added(r, n) \in told[m] \/ (Sockets(m) # {} /\ r = s /\ n = k)
  <2> TAKE m \in Clients, r \in Sessions, n \in Lives
  <2>1. Added(s, k) # Dead(r, n) /\ (Added(s, k) = Added(r, n) => s = r /\ k = n)
    BY <1>1, EventsDiffer
  <2>2. told'[m] = IF Sockets(m) # {} THEN told[m] \union {Added(s, k)} ELSE told[m]
    BY <1>4
  <2>3. Dead(r, n) \in told'[m] <=> Dead(r, n) \in told[m]
    BY <2>1, <2>2
  <2>4. Added(r, n) \in told'[m] <=>
          Added(r, n) \in told[m] \/ (Sockets(m) # {} /\ r = s /\ n = k)
    BY <2>1, <2>2
  <2> QED BY <2>3, <2>4
<1>8. LiveWereRegistered'
  BY <1>1, <1>5, <1>6 DEF Informed, LiveWereRegistered
<1>9. DeadAreDead'
  <2> SUFFICES ASSUME NEW m \in Clients, NEW r \in Sessions, NEW n \in Lives,
                      Dead(r, n) \in told'[m]
               PROVE  n <= lives'[r] /\ n \notin alive'[r]
    BY DEF DeadAreDead
  <2>1. n <= lives[r] /\ n \notin alive[r] /\ n \in Nat
    BY <1>7 DEF Informed, DeadAreDead, Lives
  <2> QED BY <1>1, <1>5, <1>6, <2>1
<1>10. ASSUME NEW t \in running' PROVE Dead(t.session, t.life) \notin told'[t.client]
  <2>1. t.client \in Clients /\ t.session \in Sessions /\ t.life \in Lives
    BY <1>2, <1>10 DEF Watched, TypeOK, Task
  <2> QED BY <1>2, <1>7, <1>10, <2>1 DEF Informed, DeathSettlesTasks
<1>11. GoneAreToldNothing'
  BY <1>2, <1>7 DEF Informed, GoneAreToldNothing
<1>12. BirthsHaveDeaths'
  <2> SUFFICES ASSUME NEW m \in Clients, NEW r \in Sessions, NEW n \in Lives,
                      Added(r, n) \in told'[m]
               PROVE  n \in alive'[r] \/ Dead(r, n) \in told'[m]
    BY DEF BirthsHaveDeaths
  <2>1. CASE Added(r, n) \in told[m]
    BY <1>5, <1>7, <2>1 DEF Informed, BirthsHaveDeaths
  <2>2. CASE r = s /\ n = k
    BY <1>5, <2>2
  <2> QED BY <1>7, <2>1, <2>2
<1> QED BY <1>8, <1>9, <1>10, <1>11, <1>12 DEF Informed, DeathSettlesTasks

\* The death of a session: the connected clients are told and none of them has a watcher
\* left; the others know nothing of its birth.
LEMMA DiesStep ==
  ASSUME Watched, Informed, NEW s \in Sessions, NEW k \in Lives, SessionDies(s, k)
  PROVE  Informed'
<1>1. /\ alive' = [alive EXCEPT ![s] = @ \ {k}]
      /\ lives' = lives
      /\ k \in alive[s]
      /\ \A m \in Clients : Sockets(m)' = Sockets(m)
  BY DEF SessionDies, Sockets, Attached, connVars
<1>2. \A m \in Clients :
        told'[m] = IF Sockets(m) # {} THEN told[m] \union {Dead(s, k)} ELSE told[m]
  BY EventsAreTyped, FanoutTells DEF SessionDies, Concerned, Watched
<1>3. alive'[s] = alive[s] \ {k} /\ \A r \in Sessions : r # s => alive'[r] = alive[r]
  BY <1>1 DEF Watched, TypeOK
<1>4. \A m \in Clients, r \in Sessions, n \in Lives :
        /\ Added(r, n) \in told'[m] <=> Added(r, n) \in told[m]
        /\ Dead(r, n) \in told'[m] <=>
             Dead(r, n) \in told[m] \/ (Sockets(m) # {} /\ r = s /\ n = k)
  <2> TAKE m \in Clients, r \in Sessions, n \in Lives
  <2>1. Dead(s, k) # Added(r, n) /\ (Dead(s, k) = Dead(r, n) => s = r /\ k = n)
    BY EventsDiffer
  <2>2. told'[m] = IF Sockets(m) # {} THEN told[m] \union {Dead(s, k)} ELSE told[m]
    BY <1>2
  <2>3. Added(r, n) \in told'[m] <=> Added(r, n) \in told[m]
    BY <2>1, <2>2
  <2>4. Dead(r, n) \in told'[m] <=>
          Dead(r, n) \in told[m] \/ (Sockets(m) # {} /\ r = s /\ n = k)
    BY <2>1, <2>2
  <2> QED BY <2>3, <2>4
<1>5. LiveWereRegistered'
  BY <1>1, <1>3 DEF Informed, LiveWereRegistered
<1>6. DeadAreDead'
  <2> SUFFICES ASSUME NEW m \in Clients, NEW r \in Sessions, NEW n \in Lives,
                      Dead(r, n) \in told'[m]
               PROVE  n <= lives'[r] /\ n \notin alive'[r]
    BY DEF DeadAreDead
  <2>1. CASE Dead(r, n) \in told[m]
    BY <1>1, <1>3, <2>1 DEF Informed, DeadAreDead
  <2>2. CASE r = s /\ n = k
    BY <1>1, <1>3, <2>2 DEF Informed, LiveWereRegistered
  <2> QED BY <1>4, <2>1, <2>2
<1>7. ASSUME NEW t \in running' PROVE Dead(t.session, t.life) \notin told'[t.client]
  <2>1. /\ t \in running
        /\ t.id \notin {watchers[m][s] : m \in {m \in Clients : Sockets(m) # {}}}
    BY <1>7 DEF SessionDies, Cancel
  <2>2. t.client \in Clients /\ t.session \in Sessions /\ t.life \in Lives
    BY <2>1 DEF Watched, TypeOK, Task
  <2>3. watchers[t.client][t.session] = t.id
    BY <2>1 DEF Watched, RunningWatcherIsTracked
  <2>4. Sockets(t.client) = {} \/ t.session # s
    BY <2>1, <2>2, <2>3
  <2>5. Dead(t.session, t.life) \notin told[t.client]
    BY <2>1 DEF Informed, DeathSettlesTasks
  <2> QED BY <1>4, <2>2, <2>4, <2>5
<1>8. GoneAreToldNothing'
  BY <1>1, <1>4 DEF Informed, GoneAreToldNothing
<1>9. BirthsHaveDeaths'
  <2> SUFFICES ASSUME NEW m \in Clients, NEW r \in Sessions, NEW n \in Lives,
                      Added(r, n) \in told'[m]
               PROVE  n \in alive'[r] \/ Dead(r, n) \in told'[m]
    BY DEF BirthsHaveDeaths
  <2>1. Added(r, n) \in told[m] /\ Sockets(m) # {}
    BY <1>4 DEF Informed, GoneAreToldNothing
  <2>2. n \in alive[r] \/ Dead(r, n) \in told[m]
    BY <2>1 DEF Informed, BirthsHaveDeaths
  <2> QED BY <1>3, <1>4, <2>1, <2>2
<1> QED BY <1>5, <1>6, <1>7, <1>8, <1>9 DEF Informed, DeathSettlesTasks

LEMMA InformedStep ==
  ASSUME Watched, Informed, [Next]_vars
  PROVE  Informed'
<1> USE DEF connVars, sessionVars, taskVars, queueVars
<1>1. ASSUME NEW m \in Clients, Attach(m) PROVE Informed'
  <2>1. \A c \in Conns : c \in Attached => c \in Attached' /\ client'[c] = client[c]
    BY <1>1 DEF Attach, Attached, Watched, TypeOK, Owned
  <2>2. \A o \in Clients : Sockets(o)' = {} => Sockets(o) = {}
    BY <2>1 DEF Sockets, Attached
  <2> QED BY <1>1, <2>2, NothingTold DEF Attach
<1>2. ASSUME NEW c \in Conns, Lose(c) PROVE Informed'
  <2>1. \A o \in Clients : Sockets(o)' = Sockets(o)
    BY <1>2 DEF Lose, Sockets, Attached, Watched, TypeOK
  <2> QED BY <1>2, <2>1, NothingTold DEF Lose
<1>3. ASSUME NEW c \in Conns, HandleClose(c) PROVE Informed'
  <2>1. told' = [told EXCEPT ![client[c]] = {}] /\ running' \subseteq running
    BY <1>3 DEF HandleClose, ClientDisconnected, Cancel
  <2>2. \A o \in Clients : told'[o] = {} \/ (o # client[c] /\ told'[o] = told[o])
    BY <2>1 DEF Watched, TypeOK
  <2>3. \A o \in Clients : o # client[c] => Sockets(o)' = Sockets(o)
    BY <1>3 DEF HandleClose, Sockets, Attached, Watched, TypeOK
  <2>4. \A o \in Clients : Sockets(o)' = {} => Sockets(o) = {} \/ told'[o] = {}
    BY <2>2, <2>3
  <2>5. alive' = alive /\ lives' = lives
    BY <1>3 DEF HandleClose
  <2> QED BY <2>1, <2>2, <2>4, <2>5, NothingTold
<1>4. ASSUME NEW c \in Conns, Drain(c) PROVE Informed'
  <2>1. \A o \in Clients : Sockets(o)' = Sockets(o)
    BY <1>4 DEF Drain, Sockets, Attached
  <2> QED BY <1>4, <2>1, NothingTold DEF Drain
<1>5. ASSUME NEW c \in Conns, NEW s \in Sessions, InjectReq(c, s) PROVE Informed'
  <2>1. \A o \in Clients : Sockets(o)' = Sockets(o)
    BY <1>5 DEF InjectReq, Sockets, Attached
  <2> QED BY <1>5, <2>1, NothingTold DEF InjectReq
<1>6. ASSUME NEW t \in waiting, InjectFails(t) PROVE Informed'
  <2>1. \A o \in Clients : Sockets(o)' = Sockets(o)
    BY <1>6 DEF InjectFails, Sockets, Attached
  <2> QED BY <1>6, <2>1, NothingTold DEF InjectFails
<1>7. ASSUME NEW t \in waiting, InjectWritten(t) PROVE Informed'
  <2>1. \A o \in Clients : Sockets(o)' = Sockets(o)
    BY <1>7 DEF InjectWritten, Sockets, Attached
  <2>2. \A u \in running' : u \in running \/ (u \in waiting /\ u.life \in alive[u.session])
    BY <1>7 DEF InjectWritten, Cancel, StillAlive
  <2>3. alive' = alive /\ lives' = lives /\ told' = told
    BY <1>7 DEF InjectWritten
  <2> QED BY <2>1, <2>2, <2>3, NothingTold
<1>8. ASSUME NEW t \in running, WatcherIdle(t) PROVE Informed'
  <2>1. \A o \in Clients : Sockets(o)' = Sockets(o)
    BY <1>8 DEF WatcherIdle, Sockets, Attached
  <2>2. t \in Task
    BY DEF Watched, TypeOK
  <2>3. \A o \in Clients : told'[o] = told[o] \/ told'[o] = told[o] \union {Complete(t)}
    BY <1>8 DEF WatcherIdle, Enqueue
  <2>4. \A o \in Clients, s \in Sessions, n \in Lives :
          /\ Dead(s, n) \in told'[o] <=> Dead(s, n) \in told[o]
          /\ Added(s, n) \in told'[o] <=> Added(s, n) \in told[o]
    BY <2>2, <2>3, EventsDiffer
  <2>5. alive' = alive /\ lives' = lives /\ running' \subseteq running
    BY <1>8 DEF WatcherIdle
  <2> QED BY <2>1, <2>4, <2>5, NothingTold
<1>9. ASSUME NEW t \in running, WatcherExpires(t) PROVE Informed'
  <2>1. \A o \in Clients : Sockets(o)' = Sockets(o)
    BY <1>9 DEF WatcherExpires, Sockets, Attached
  <2> QED BY <1>9, <2>1, NothingTold DEF WatcherExpires
<1>10. ASSUME UNCHANGED vars PROVE Informed'
  <2>1. \A o \in Clients : Sockets(o)' = Sockets(o)
    BY <1>10 DEF vars, Sockets, Attached
  <2> QED BY <1>10, <2>1, NothingTold DEF vars
<1> QED BY <1>1, <1>2, <1>3, <1>4, <1>5, <1>6, <1>7, <1>8, <1>9, <1>10,
           AddedStep, DiesStep DEF Next

LEMMA InformedAlways == Spec => [](Watched /\ Informed)
<1>1. Watched /\ Informed /\ [Next]_vars => (Watched /\ Informed)'
  BY WatchedStep, InformedStep
<1> QED BY <1>1, WatchedInit, InformedInit, PTL DEF Spec

\* No client hears that a task completed in a session it knows to be dead, whatever
\* happened while the inject waited for the user.
THEOREM DeathsSettleTasks == Spec => []DeathSettlesTasks
<1>1. Informed => DeathSettlesTasks
  BY DEF Informed
<1> QED BY <1>1, InformedAlways, PTL

\* Whoever was told of a session's birth is told of its death.
THEOREM DeathsFollowBirths == Spec => []BirthsHaveDeaths
<1>1. Informed => BirthsHaveDeaths
  BY DEF Informed
<1> QED BY <1>1, InformedAlways, PTL

-----------------------------------------------------------------------------
(* Full queues *)

\* q is the end of w, and all of it unless q is full.
IsLatest(q, w) ==
  LET lost == Len(w) - Len(q)
  IN  /\ lost >= 0
      /\ lost > 0 => Len(q) = MaxQueue
      /\ \A i \in 1..Len(q) : q[i] = w[lost + i]

LEMMA LatestStays ==
  ASSUME NEW q \in Seq(Event), NEW w \in Seq(Event), NEW b \in Seq(Event),
         Len(q) <= MaxQueue, IsLatest(q, w)
  PROVE  IsLatest(Keep(q \o b), w \o b)
<1> DEFINE lost == Len(w) - Len(q)
           qb == q \o b
           wb == w \o b
<1>1. /\ Len(q) \in Nat /\ Len(w) \in Nat /\ Len(b) \in Nat /\ MaxQueue \in Nat \ {0}
      /\ lost \in Nat
      /\ lost > 0 => Len(q) = MaxQueue
      /\ \A i \in 1..Len(q) : q[i] = w[lost + i]
  BY BoundsAssumption DEF IsLatest
<1>2. qb \in Seq(Event) /\ Len(qb) = Len(q) + Len(b) /\ wb \in Seq(Event) /\ Len(wb) = Len(w) + Len(b)
  OBVIOUS
<1>3. ASSUME NEW j \in 1..Len(qb) PROVE qb[j] = wb[lost + j]
  <2>1. CASE j <= Len(q)
    <3>1. qb[j] = q[j]
      BY <2>1, <1>2
    <3>2. lost + j \in 1..Len(w)
      BY <1>1, <2>1
    <3>3. wb[lost + j] = w[lost + j]
      BY <3>2
    <3> QED
      BY <1>1, <2>1, <3>1, <3>3
  <2>2. CASE j > Len(q)
    <3>1. qb[j] = b[j - Len(q)]
      BY <1>2, <2>2
    <3>2. lost + j > Len(w) /\ lost + j <= Len(w) + Len(b)
      BY <1>1, <1>2, <2>2
    <3>3. wb[lost + j] = b[lost + j - Len(w)]
      BY <1>1, <3>2
    <3>4. lost + j - Len(w) = j - Len(q)
      BY <1>1
    <3> QED
      BY <3>1, <3>3, <3>4
  <2> QED
    BY <2>1, <2>2, <1>1
<1> HIDE DEF qb, wb
<1>4. CASE Len(qb) <= MaxQueue
  <2>1. Keep(qb) = qb
    BY <1>1, <1>2, <1>4 DEF Keep
  <2>2. Len(wb) - Len(qb) = lost
    BY <1>1, <1>2
  <2>3. lost > 0 => Len(qb) = MaxQueue
    BY <1>1, <1>2, <1>4
  <2> QED
    BY <1>1, <1>3, <2>1, <2>2, <2>3 DEF IsLatest, qb, wb
<1>5. CASE Len(qb) > MaxQueue
  <2>1. Keep(qb) = SubSeq(qb, Len(qb) - MaxQueue + 1, Len(qb))
    BY <1>5 DEF Keep
  <2>2. Len(qb) \in Nat /\ Len(qb) - MaxQueue + 1 \in 1..Len(qb)
    BY <1>1, <1>2, <1>5
  <2>3. Len(Keep(qb)) = MaxQueue
    BY <1>1, <1>2, <2>1, <2>2
  <2>4. ASSUME NEW i \in 1..MaxQueue PROVE Keep(qb)[i] = qb[Len(qb) - MaxQueue + i]
    <3>1. Keep(qb)[i] = qb[Len(qb) - MaxQueue + 1 + i - 1]
      BY <1>1, <1>2, <2>1, <2>2
    <3>2. Len(qb) - MaxQueue + 1 + i - 1 = Len(qb) - MaxQueue + i
      BY <1>1, <2>2
    <3> QED
      BY <3>1, <3>2
  <2>5. ASSUME NEW i \in 1..MaxQueue PROVE Keep(qb)[i] = wb[(Len(wb) - MaxQueue) + i]
    <3>1. Len(qb) - MaxQueue + i \in 1..Len(qb)
      BY <1>1, <1>5, <2>2
    <3>2. qb[Len(qb) - MaxQueue + i] = wb[lost + (Len(qb) - MaxQueue + i)]
      BY <1>3, <3>1
    <3>3. lost + (Len(qb) - MaxQueue + i) = (Len(wb) - MaxQueue) + i
      BY <1>1, <1>2
    <3> QED
      BY <2>4, <3>2, <3>3
  <2>6. Len(wb) - MaxQueue >= 0
    BY <1>1, <1>2, <1>5
  <2>7. IsLatest(Keep(qb), wb)
    BY <2>3, <2>5, <2>6 DEF IsLatest
  <2> QED
    BY <2>7 DEF qb, wb
<1> QED
  BY <1>1, <1>2, <1>4, <1>5

LatestInv == \A m \in Clients : IsLatest(queue[m], news[m])

LEMMA EnqueuedLast ==
  ASSUME TypeOK, LatestInv, NEW e \in Event, NEW n \in [Clients -> Nat], Enqueue(e, n)
  PROVE  LatestInv'
<1> SUFFICES ASSUME NEW m \in Clients PROVE IsLatest(queue'[m], news'[m])
  BY DEF LatestInv, IsLatest
<1> DEFINE new == [i \in 1..n[m] |-> e]
<1>1. new \in Seq(Event)
  <2>1. \A k \in Nat : [i \in 1..k |-> e] \in Seq(Event)
    OBVIOUS
  <2> QED
    BY <2>1
<1>2. queue[m] \in Seq(Event) /\ news[m] \in Seq(Event) /\ Len(queue[m]) <= MaxQueue
  BY DEF TypeOK
<1>3. queue'[m] = Keep(queue[m] \o new) /\ news'[m] = news[m] \o new
  BY DEF Enqueue
<1>4. IsLatest(queue[m], news[m])
  BY DEF LatestInv
<1> HIDE DEF new
<1> QED
  BY <1>1, <1>2, <1>3, <1>4, LatestStays

\* A queue that is emptied begins anew.
LEMMA EmptiedAnew ==
  ASSUME TypeOK, LatestInv, NEW m \in Clients,
         queue' = [queue EXCEPT ![m] = <<>>], news' = [news EXCEPT ![m] = <<>>]
  PROVE  LatestInv'
<1> SUFFICES ASSUME NEW o \in Clients PROVE IsLatest(queue'[o], news'[o])
  BY DEF LatestInv, IsLatest
<1>1. CASE o = m
  <2>1. queue'[o] = <<>> /\ news'[o] = <<>>
    BY <1>1 DEF TypeOK
  <2>2. Len(<<>>) = 0
    OBVIOUS
  <2>3. IsLatest(<<>>, <<>>)
    BY <2>2 DEF IsLatest
  <2> QED
    BY <2>1, <2>3
<1>2. CASE o # m
  <2>1. queue'[o] = queue[o] /\ news'[o] = news[o]
    BY <1>2 DEF TypeOK
  <2> QED
    BY <2>1 DEF LatestInv
<1> QED
  BY <1>1, <1>2

LEMMA LatestStep ==
  ASSUME TypeOK, Owned, LatestInv, [Next]_vars
  PROVE  LatestInv'
<1>0. [o \in Clients |-> Cardinality(Sockets(o))] \in [Clients -> Nat]
  BY SocketsAreCounted
<1>1. CASE \E s \in Sessions : SessionAdded(s)
  <2>1. PICK s \in Sessions : SessionAdded(s)
    BY <1>1
  <2>2. lives[s] + 1 \in Lives
    BY <2>1, BoundsAssumption DEF TypeOK, SessionAdded, Lives
  <2>3. Added(s, lives[s] + 1) \in Event
    BY <2>2, EventsAreTyped
  <2> QED BY <1>0, <2>1, <2>3, EnqueuedLast DEF SessionAdded, Fanout
<1>2. CASE \E s \in Sessions, n \in Lives : SessionDies(s, n)
  BY <1>0, <1>2, EventsAreTyped, EnqueuedLast DEF SessionDies, Concerned
<1>3. CASE \E t \in running : WatcherIdle(t)
  <2>1. PICK t \in running : WatcherIdle(t)
    BY <1>3
  <2>2. Complete(t) \in Event
    BY EventsAreTyped DEF TypeOK
  <2>3. [o \in Clients |-> IF o = t.client THEN 1 ELSE 0] \in [Clients -> Nat]
    OBVIOUS
  <2> QED BY <2>1, <2>2, <2>3, EnqueuedLast DEF WatcherIdle
<1>4. CASE \E c \in Conns : Drain(c)
  <2>1. PICK c \in Conns : Drain(c)
    BY <1>4
  <2>2. client[c] \in Clients
    BY <2>1 DEF Drain, Owned
  <2> QED BY <2>1, <2>2, EmptiedAnew DEF Drain
<1>5. CASE \E c \in Conns : HandleClose(c)
  <2>1. PICK c \in Conns : HandleClose(c)
    BY <1>5
  <2>2. client[c] \in Clients
    BY <2>1 DEF HandleClose, Owned, Attached
  <2> QED BY <2>1, <2>2, EmptiedAnew DEF HandleClose, ClientDisconnected
<1>6. ASSUME UNCHANGED <<queue, news>> PROVE LatestInv'
  BY <1>6 DEF LatestInv, IsLatest
<1>7. CASE \/ \E o \in Clients : Attach(o)
           \/ \E c \in Conns : Lose(c)
           \/ \E c \in Conns, s \in Sessions : InjectReq(c, s)
           \/ \E t \in waiting : InjectFails(t) \/ InjectWritten(t)
           \/ \E t \in running : WatcherExpires(t)
           \/ UNCHANGED vars
  <2>1. UNCHANGED queueVars
    BY <1>7 DEF Attach, Lose, InjectReq, InjectFails, InjectWritten, WatcherExpires, vars
  <2> QED BY <1>6, <2>1 DEF queueVars
<1> QED BY <1>1, <1>2, <1>3, <1>4, <1>5, <1>7 DEF Next

\* Whatever the limit, a queue holds what happened last since it was emptied, without a gap,
\* and all of it as long as there is room.
THEOREM NewestIsKept == Spec => []NewestIsQueued
<1>1. Init => LatestInv
  BY DEF Init, LatestInv, IsLatest
<1>2. TypeOK /\ Owned /\ [Next]_vars => (TypeOK /\ Owned)'
  BY TypeStep
<1>3. TypeOK /\ Owned /\ LatestInv /\ [Next]_vars => LatestInv'
  BY LatestStep
<1>4. LatestInv => NewestIsQueued
  BY DEF LatestInv, IsLatest, NewestIsQueued
<1> QED BY <1>1, <1>2, <1>3, <1>4, TypeInit, PTL DEF Spec
=============================================================================
