------------------------------- MODULE Output -------------------------------
(***************************************************************************)
(* The way of a terminal's output: cb prints a chunk, PipeClient writes it *)
(* to its socket or queues it until it has said hello, the daemon pushes   *)
(* it into the ring buffer of the session the connection is bound to, and  *)
(* an MCP client polls the buffer with the timestamp it got last.          *)
(*                                                                         *)
(* One cb, hence one ULID. Chunks are numbered as they are printed and     *)
(* have the same size. Connections are numbered in the order they are      *)
(* opened; a Session is named after the connection whose hello created it, *)
(* and 0 stands for null. The secret may take several attempts to read, so *)
(* a connection can be lost while handleOnConnect() awaits it.             *)
(***************************************************************************)
EXTENDS Naturals, Sequences

CONSTANTS
  MaxOut,    \* bound: chunks printed
  MaxConns,  \* bound: connections opened
  MaxTime,   \* bound: milliseconds that pass
  QueueMax,  \* PRE_CONNECT_QUEUE_MAX_BYTES, in chunks
  RingMax,   \* RING_BUFFER_MAX_BYTES, in chunks
  ReadMax    \* maxBytes of a read_raw, in chunks

ASSUME BoundsAssumption ==
  /\ MaxOut \in Nat
  /\ MaxConns \in Nat
  /\ MaxTime \in Nat \ {0}
  /\ QueueMax \in Nat \ {0}
  /\ RingMax \in Nat \ {0}
  /\ ReadMax \in Nat \ {0}

Conns  == 1..MaxConns
None   == 0
Chunks == 1..MaxOut
Times  == 1..MaxTime

VARIABLES
  \* cb: the terminal and PipeClient
  made,         \* the last chunk printed
  queue,        \* preConnectQueue
  socket,       \* this.socket
  connected,    \* this.connected
  isReconnect,  \* this.isReconnect
  secret,       \* whether this.secret is cached
  greeting,     \* sockets whose handleOnConnect() awaits the secret, in order
  timer,        \* whether reconnectTimer is set; at first, that start() is to come
  down,         \* shuttingDown
  astray,       \* history: handleOnConnect() went on for a socket that was closed
  \* the named pipe
  nextConn,     \* the next connection to open
  cEnd,         \* client end: "unused", "dialing", "open", "closed"
  sEnd,         \* server end: "unused", "open", "destroyed", "closed" (handleClose ran)
  toServer,     \* frames written by the client, not yet read
  \* the daemon
  bound,        \* ConnState.session, None while the role is unknown
  entry,        \* what the registry has under the ULID
  status,       \* Session.status, "none" before the object exists
  pipe,         \* Session.pipeClient
  ring,         \* Session.raw: the chunks kept, when and on which connection they came
  now,          \* Date.now()
  \* an MCP client that reads on and on
  cursor,       \* the latestTimestamp it got last
  got,          \* the chunks it has read
  cut           \* chunks beyond maxBytes, which no answer contained

cbVars     == <<made, queue, socket, connected, isReconnect, secret, greeting, timer, down,
                astray>>
netVars    == <<nextConn, cEnd, sEnd, toServer>>
srvVars    == <<bound, entry, status, pipe, ring>>
readerVars == <<cursor, got, cut>>
vars       == <<cbVars, netVars, srvVars, now, readerVars>>

Hello(resume) == [t |-> "hello", resume |-> resume]
Stdout(n)     == [t |-> "stdout", n |-> n]
Frames        == {Hello(TRUE), Hello(FALSE)} \union {Stdout(n) : n \in Chunks}
Kept          == [n : Chunks, at : Times, via : Conns]

TypeOK ==
  /\ made \in 0..MaxOut
  /\ queue \in Seq(Chunks) /\ Len(queue) <= QueueMax
  /\ socket \in Conns \union {None}
  /\ connected \in BOOLEAN
  /\ isReconnect \in BOOLEAN
  /\ secret \in BOOLEAN
  /\ greeting \in Seq(Conns)
  /\ timer \in BOOLEAN
  /\ down \in BOOLEAN
  /\ astray \in BOOLEAN
  /\ nextConn \in 1..(MaxConns + 1)
  /\ cEnd \in [Conns -> {"unused", "dialing", "open", "closed"}]
  /\ sEnd \in [Conns -> {"unused", "open", "destroyed", "closed"}]
  /\ toServer \in [Conns -> Seq(Frames)]
  /\ bound \in [Conns -> Conns \union {None}]
  /\ entry \in Conns \union {None}
  /\ status \in [Conns -> {"none", "alive", "dead"}]
  /\ pipe \in [Conns -> Conns \union {None}]
  /\ ring \in [Conns -> Seq(Kept)] /\ \A o \in Conns : Len(ring[o]) <= RingMax
  /\ now \in Times
  /\ cursor \in 0..MaxTime
  /\ got \in Seq(Kept)
  /\ cut \subseteq Chunks

Init ==
  /\ made = 0
  /\ queue = <<>>
  /\ socket = None
  /\ connected = FALSE
  /\ isReconnect = FALSE
  /\ secret = FALSE
  /\ greeting = <<>>
  /\ timer = TRUE
  /\ down = FALSE
  /\ astray = FALSE
  /\ nextConn = 1
  /\ cEnd = [c \in Conns |-> "unused"]
  /\ sEnd = [c \in Conns |-> "unused"]
  /\ toServer = [c \in Conns |-> <<>>]
  /\ bound = [c \in Conns |-> None]
  /\ entry = None
  /\ status = [c \in Conns |-> "none"]
  /\ pipe = [c \in Conns |-> None]
  /\ ring = [c \in Conns |-> <<>>]
  /\ now = 1
  /\ cursor = 0
  /\ got = <<>>
  /\ cut = {}

-----------------------------------------------------------------------------
(* Bounded buffers and the pipe *)

\* What eviction from the front leaves of s when there is room for max.
Newest(s, max) == IF Len(s) <= max THEN s ELSE SubSeq(s, Len(s) - max + 1, Len(s))

\* enqueuePreConnect().
Enqueued(q, n) == Newest(Append(q, n), QueueMax)

\* What is under way on c when its client writes the frames fs. A socket that is
\* still connecting keeps them; what is written to one that is lost is lost.
Written(c, fs) ==
  IF cEnd[c] \in {"dialing", "open"} /\ sEnd[c] \in {"unused", "open"}
  THEN toServer[c] \o fs
  ELSE toServer[c]

\* What is still read of frames under way when the client destroys its socket.
Prefixes(fs) == {SubSeq(fs, 1, k) : k \in 0..Len(fs)}

-----------------------------------------------------------------------------
(* cb: PipeClient *)

\* send() of a stdout frame: to the socket, or into the queue.
SendStdout ==
  /\ made < MaxOut
  /\ ~down
  /\ made' = made + 1
  /\ IF connected /\ socket # None
     THEN /\ toServer' = [toServer EXCEPT ![socket] = Written(socket, <<Stdout(made + 1)>>)]
          /\ queue' = queue
     ELSE /\ queue' = Enqueued(queue, made + 1)
          /\ toServer' = toServer
  /\ UNCHANGED <<socket, connected, isReconnect, secret, greeting, timer, down, astray,
                 nextConn, cEnd, sEnd, srvVars, now, readerVars>>

\* connect(), from start() or when the reconnect timer fires.
Connect ==
  /\ timer
  /\ nextConn \in Conns
  /\ timer' = FALSE
  /\ socket' = nextConn
  /\ cEnd' = [cEnd EXCEPT ![nextConn] = "dialing"]
  /\ nextConn' = nextConn + 1
  /\ UNCHANGED <<made, queue, connected, isReconnect, secret, greeting, down, astray,
                 sEnd, toServer, srvVars, now, readerVars>>

\* Nobody listens on the pipe.
DialFails ==
  /\ socket # None
  /\ cEnd[socket] = "dialing"
  /\ cEnd' = [cEnd EXCEPT ![socket] = "closed"]
  /\ UNCHANGED <<cbVars, nextConn, sEnd, toServer, srvVars, now, readerVars>>

Drained(q) == [i \in 1..Len(q) |-> Stdout(q[i])]

\* What is under way when the sockets cs, in this order, have said hello: the
\* first of them drains the queue.
Greeted(cs) ==
  [c \in Conns |->
     IF \A i \in 1..Len(cs) : cs[i] # c THEN toServer[c]
     ELSE Written(c, <<Hello(isReconnect)>> \o IF c = cs[1] THEN Drained(queue) ELSE <<>>)]

\* Fault: the drained queue is kept.
AfterDrainAll(q) == q

AfterDrain(q) == <<>>

\* handleOnConnect() from its await to its end, for each of cs. It does not ask
\* whether the socket is still the current one, or still open.
Greet(cs) ==
  /\ secret' = TRUE
  /\ toServer' = Greeted(cs)
  /\ queue' = AfterDrain(queue)
  /\ connected' = TRUE
  /\ astray' = (astray \/ \E i \in 1..Len(cs) : cEnd[cs[i]] = "closed")

\* The connection is accepted, and handleOnConnect() runs to its end if the secret
\* is cached or read at the first attempt, else to its await.
OnConnect ==
  /\ socket # None
  /\ cEnd[socket] = "dialing"
  /\ cEnd' = [cEnd EXCEPT ![socket] = "open"]
  /\ sEnd' = [sEnd EXCEPT ![socket] = "open"]
  /\ \/ /\ secret \/ greeting = <<>>
        /\ Greet(<<socket>>)
        /\ greeting' = greeting
     \/ /\ ~secret
        /\ greeting' = Append(greeting, socket)
        /\ UNCHANGED <<secret, toServer, queue, connected, astray>>
  /\ UNCHANGED <<made, socket, isReconnect, timer, down, nextConn, srvVars, now, readerVars>>

\* A later attempt reads the secret: all that await it share the promise.
SecretRead ==
  /\ greeting # <<>>
  /\ Greet(greeting)
  /\ greeting' = <<>>
  /\ UNCHANGED <<made, socket, isReconnect, timer, down, nextConn, cEnd, sEnd,
                 srvVars, now, readerVars>>

\* The last attempt fails: onAuthFailed() shuts the client down for good.
SecretGivesUp ==
  /\ greeting # <<>>
  /\ down' = TRUE
  /\ timer' = FALSE
  /\ socket' = None
  /\ connected' = FALSE
  /\ greeting' = <<>>
  /\ cEnd' = [c \in Conns |-> IF cEnd[c] = "unused" THEN "unused" ELSE "closed"]
  /\ UNCHANGED <<made, queue, isReconnect, secret, astray, nextConn, sEnd, toServer, srvVars,
                 now, readerVars>>

\* The ping watchdog destroys the socket.
Watchdog ==
  /\ connected
  /\ socket # None
  /\ cEnd[socket] # "closed"
  /\ cEnd' = [cEnd EXCEPT ![socket] = "closed"]
  /\ \E left \in Prefixes(toServer[socket]) : toServer' = [toServer EXCEPT ![socket] = left]
  /\ UNCHANGED <<cbVars, nextConn, sEnd, srvVars, now, readerVars>>

\* Fault: no reconnect after a connection that was never up.
TimerIfConnected == timer \/ connected

TimerSet == TRUE

\* The socket's close event, with scheduleReconnect().
OnClose ==
  /\ socket # None
  /\ \/ cEnd[socket] = "closed"
     \/ cEnd[socket] = "open" /\ sEnd[socket] # "open"
  /\ cEnd' = [cEnd EXCEPT ![socket] = "closed"]
  /\ connected' = FALSE
  /\ socket' = None
  /\ isReconnect' = TRUE
  /\ timer' = TimerSet
  /\ UNCHANGED <<made, queue, secret, greeting, down, astray, nextConn, sEnd, toServer, srvVars,
                 now, readerVars>>

\* The connection breaks under both ends; what was under way is lost.
PipeBreak(c) ==
  /\ cEnd[c] = "open"
  /\ sEnd[c] = "open"
  /\ cEnd' = [cEnd EXCEPT ![c] = "closed"]
  /\ sEnd' = [sEnd EXCEPT ![c] = "destroyed"]
  /\ toServer' = [toServer EXCEPT ![c] = <<>>]
  /\ UNCHANGED <<cbVars, nextConn, srvVars, now, readerVars>>

-----------------------------------------------------------------------------
(* The daemon *)

\* Of two connections of one cb, what was written to the earlier one is read first.
EarlierFramesRead(c) ==
  \A d \in 1..(c - 1) : sEnd[d] = "open" => toServer[d] = <<>>

Readable(c) ==
  /\ sEnd[c] = "open"
  /\ toServer[c] # <<>>
  /\ EarlierFramesRead(c)

Frame(c) == Head(toServer[c])
HelloFirst(c) == Readable(c) /\ bound[c] = None /\ Frame(c).t = "hello"
IsAlive(o) == o # None /\ status[o] = "alive"

\* destroy(): what was not read is lost.
Destroy(D) ==
  /\ sEnd' = [c \in Conns |-> IF c \in D /\ sEnd[c] = "open" THEN "destroyed" ELSE sEnd[c]]
  /\ toServer' = [c \in Conns |-> IF c \in D THEN <<>> ELSE toServer[c]]

\* dispatch(): the first frame is not a hello.
RefuseRole(c) ==
  /\ Readable(c)
  /\ bound[c] = None
  /\ Frame(c).t # "hello"
  /\ Destroy({c})
  /\ UNCHANGED <<cbVars, nextConn, cEnd, srvVars, now, readerVars>>

CanResume(c) == Frame(c).resume /\ IsAlive(entry)

\* acceptCb(): the prior session moves to this socket, with its ring, and its old
\* socket is destroyed.
Resume(c) ==
  /\ HelloFirst(c)
  /\ CanResume(c)
  /\ LET old == {pipe[entry]} \ {None, c}
     IN /\ sEnd' = [d \in Conns |-> IF d \in old /\ sEnd[d] = "open" THEN "destroyed" ELSE sEnd[d]]
        /\ toServer' = [d \in Conns |-> IF d = c THEN Tail(toServer[c])
                                        ELSE IF d \in old THEN <<>> ELSE toServer[d]]
  /\ bound' = [bound EXCEPT ![c] = entry]
  /\ pipe' = [pipe EXCEPT ![entry] = c]
  /\ UNCHANGED <<cbVars, nextConn, cEnd, entry, status, ring, now, readerVars>>

\* acceptCb(): a new session, with an empty ring, takes the ULID.
Register(c) ==
  /\ HelloFirst(c)
  /\ ~CanResume(c)
  /\ bound' = [bound EXCEPT ![c] = c]
  /\ entry' = c
  /\ status' = [status EXCEPT ![c] = "alive"]
  /\ pipe' = [pipe EXCEPT ![c] = c]
  /\ toServer' = [toServer EXCEPT ![c] = Tail(@)]
  /\ UNCHANGED <<cbVars, nextConn, cEnd, sEnd, ring, now, readerVars>>

\* Fault: one chunk too many is kept.
PushedLoose(r, x) == Newest(Append(r, x), RingMax + 1)

\* RingBuffer.pushChunk() with evict().
Pushed(r, x) == Newest(Append(r, x), RingMax)

\* onStdout().
OnStdout(c) ==
  /\ Readable(c)
  /\ bound[c] # None
  /\ Frame(c).t = "stdout"
  /\ ring' = [ring EXCEPT ![bound[c]] = Pushed(@, [n |-> Frame(c).n, at |-> now, via |-> c])]
  /\ toServer' = [toServer EXCEPT ![c] = Tail(@)]
  /\ UNCHANGED <<cbVars, nextConn, cEnd, sEnd, bound, entry, status, pipe, now, readerVars>>

\* markDead() on the sessions of S.
MarkDead(S) ==
  /\ status' = [o \in Conns |-> IF o \in S THEN "dead" ELSE status[o]]
  /\ pipe' = [o \in Conns |-> IF o \in S THEN None ELSE pipe[o]]

\* A heartbeat beyond the limit, or the handshake's timeout.
Expire(c) ==
  /\ sEnd[c] = "open"
  /\ bound[c] = None => toServer[c] = <<>>
  /\ LET S == {o \in {bound[c]} : IsAlive(o)}
     IN /\ MarkDead(S)
        /\ Destroy({c} \union {pipe[o] : o \in S})
  /\ UNCHANGED <<cbVars, nextConn, cEnd, bound, entry, ring, now, readerVars>>

\* handleClose(): the server end was destroyed, or read to its end.
HandleClose(c) ==
  /\ \/ sEnd[c] = "destroyed"
     \/ sEnd[c] = "open" /\ cEnd[c] = "closed" /\ toServer[c] = <<>>
  /\ sEnd' = [sEnd EXCEPT ![c] = "closed"]
  /\ MarkDead({o \in {bound[c]} : IsAlive(o) /\ pipe[o] = c})
  /\ UNCHANGED <<cbVars, nextConn, cEnd, toServer, bound, entry, ring, now, readerVars>>

\* sweepDead(): the dead session leaves the registry.
SweepDead ==
  /\ entry # None
  /\ ~IsAlive(entry)
  /\ entry' = None
  /\ UNCHANGED <<cbVars, netVars, bound, status, pipe, ring, now, readerVars>>

\* The daemon dies with all it knew; another one may be there at once.
DaemonDies ==
  /\ \E c \in Conns : sEnd[c] \in {"open", "destroyed"}
  /\ sEnd' = [c \in Conns |-> IF sEnd[c] = "unused" THEN "unused" ELSE "closed"]
  /\ toServer' = [c \in Conns |-> IF sEnd[c] = "unused" THEN toServer[c] ELSE <<>>]
  /\ entry' = None
  /\ MarkDead({o \in Conns : IsAlive(o)})
  /\ UNCHANGED <<cbVars, nextConn, cEnd, bound, ring, now, readerVars>>

-----------------------------------------------------------------------------
(* Time and the reader *)

Tick ==
  /\ now < MaxTime
  /\ now' = now + 1
  /\ UNCHANGED <<cbVars, netVars, srvVars, readerVars>>

\* Fault: the cursor's own millisecond is read again.
FreshAtOrOlder(r) == {i \in 1..Len(r) : r[i].at >= cursor}

\* Where in a ring readSince() finds what is newer than the cursor ...
FreshAt(r) == {i \in 1..Len(r) : r[i].at > cursor}

\* ... and the chunks: all from the first on, as a ring is in the order of time.
Fresh(r) ==
  IF FreshAt(r) = {} THEN <<>>
  ELSE LET first == CHOOSE i \in FreshAt(r) : \A j \in FreshAt(r) : i <= j
       IN SubSeq(r, first, Len(r))

\* Fault: the cursor is the time of the read.
LatestNow(fresh) == now

\* The timestamp it returns with them.
Latest(fresh) == IF fresh = <<>> THEN cursor ELSE fresh[Len(fresh)].at

Elements(s) == {s[i] : i \in 1..Len(s)}

\* read_raw with the cursor of the answer before; maxBytes cuts off the oldest.
Read ==
  /\ entry # None
  /\ LET fresh == Fresh(ring[entry])
         kept  == Newest(fresh, ReadMax)
     IN /\ cursor' = Latest(fresh)
        /\ got' = got \o kept
        /\ cut' = cut \union {x.n : x \in Elements(fresh) \ Elements(kept)}
  /\ UNCHANGED <<cbVars, netVars, srvVars, now>>

-----------------------------------------------------------------------------

CbStep == Connect \/ OnConnect \/ SecretRead \/ OnClose
CbFault == SendStdout \/ DialFails \/ SecretGivesUp \/ Watchdog
Accept(c) == RefuseRole(c) \/ Resume(c) \/ Register(c)
DaemonStep(c) == Accept(c) \/ OnStdout(c) \/ Expire(c) \/ HandleClose(c)

Next ==
  \/ CbStep \/ CbFault
  \/ \E c \in Conns : DaemonStep(c) \/ PipeBreak(c)
  \/ SweepDead \/ DaemonDies
  \/ Tick \/ Read

\* What cb's event loop does by itself; the secret is read or given up.
Fairness ==
  /\ WF_vars(Connect)
  /\ WF_vars(OnConnect \/ DialFails)
  /\ WF_vars(SecretRead \/ SecretGivesUp)
  /\ WF_vars(OnClose)

Spec == Init /\ [][Next]_vars
FairSpec == Spec /\ Fairness

-----------------------------------------------------------------------------
(* Properties *)

\* The ring of every session has the output in the order in which it was printed
\* and in the order of time, whatever was lost, queued or resumed between; and what
\* one connection brought has no gap, unless handleOnConnect() has gone on for a
\* socket that was closed: output is lost at the start of a connection or at its
\* end (pipe-client.ts send, drain; ring-buffer.ts).
OutputInOrder ==
  \A o \in Conns : \A i, j \in 1..Len(ring[o]) : i < j =>
    /\ ring[o][i].n < ring[o][j].n
    /\ ring[o][i].at <= ring[o][j].at
    /\ j = i + 1 /\ ring[o][i].via = ring[o][j].via /\ ~astray =>
         ring[o][j].n = ring[o][i].n + 1

\* A client that passes the timestamp of one answer to the next request reads no
\* chunk twice and none after a later one, although sessions and daemons follow each
\* other behind the name it asks for (ring-buffer.ts readSince).
ReadInOrder ==
  \A i, j \in 1..Len(got) : i < j => got[i].n < got[j].n

\* What such a client misses of the ring: what it asked to be cut off, and chunks
\* that came in the same millisecond as one it has read.
SkippedShareMillisecond ==
  entry # None =>
    \A x \in Elements(ring[entry]) : x.at <= cursor =>
      \/ x \in Elements(got)
      \/ x.n \in cut
      \/ \E y \in Elements(got) : y.at = x.at

\* The queue does not stay filled: in the end cb writes it to a socket, unless the
\* secret is given up (or the behaviour has used up its connections).
QueueDrains ==
  queue # <<>> ~> (queue = <<>> \/ down \/ nextConn \notin Conns)
=============================================================================
