# TLA+ models of the Multi-Claude CLI Orchestrator

These modules describe the part of the orchestrator that is hard to test: several
terminals (`cb`), one daemon (`bridged`) and several MCP clients (`bridge-mcp`) that
talk over a named pipe, lose it, come back, die and are replaced while timers fire.
TLC checks the modules on small instances, TLAPS proves the main safety properties for
every number of terminals and connections. `PROJECT.json` lists the components, the runs, the line
of the code behind every definition, and the hazards with the properties that cover them.

Source paths below are relative to `packages/`.

## 1. Inventory

| Component | State it keeps | Operations | Correct when |
|---|---|---|---|
| cb main (`cb/src/index.ts`) | the child, whether it exited | start, `onExit` (bye, 50 ms, exit), `onAuthFailed` | the daemon learns of every exit; the terminal works unbridged |
| cb pipe client (`cb/src/pipe-client.ts`) | socket, `connected`, `isReconnect`, cached secret, pre-connect queue, timers | `connect`, `handleOnConnect`, `send`, `handleInbound`, close, watchdog, `shutdown` | always finds its way back; hello is the first frame of each socket; output is in order |
| cb spawner (`cb/src/spawn-daemon.ts`) | lock file | probe, acquire, spawn, poll, release | at most one spawner at a time, never stuck on a stale lock |
| pipe server, cb path (`bridged/src/pipe-server.ts`) | `cbConns`, per connection its role, session and heartbeat timer | `acceptCb`, `handleCbFrame`, `startHeartbeat`, `handleClose`, `stop` | one feeding connection per live session; a session dies exactly when its peer does |
| pipe server, MCP path (same file) | `mcpClients`, client ids | `acceptMcp`, `handleMcpFrame` and its operations, close | every request has one reply; clients see only what concerns them |
| registry (`bridged/src/registry.ts`) | sessions by ULID | `add`, `remove`, `resolveLabel`, `byIdOrLabel`, `pidPoll`, `sweepDead` | labels are unambiguous; live sessions can be found |
| session (`bridged/src/session.ts`) | status, label, pipe, missed pongs, timestamps | `onStdout`, `onUserInput`, `inject`, `markDead` | death is final and announced once |
| inject (`bridged/src/inject.ts`) | none | `tryInject` | never writes while the user types |
| waits (`bridged/src/wait-for.ts`) | tick, stable count | `waitForPattern`, `waitForIdle`, `startIdleWatcher` | answers once; "idle" means silent and stable |
| notifications (`bridged/src/notifications.ts`) | a queue per client, watchers | enqueue, drain, fan-out, `registerInjectFollowup`, `clientDisconnected` | at most once and in order per client; no watcher outlives its client |
| persistence (`bridged/src/persistence.ts`) | `sessions.json` | load, `addOrUpdate`, `markEnded`, `recent`, `lookupByLabels` | survives crashes; a live session is not recorded as ended |
| lifecycle (`bridged/src/index.ts`) | idle timer, shutdown flag | secret, bind, idle poll, shutdown | one daemon; none stops with live sessions |
| ring buffer (`bridged/src/ring-buffer.ts`) | chunks, cursor | push, evict, `readSince` | a reader misses nothing that is still kept |
| headless terminal, audit, log, redaction | emulator, files | text processing | not about control |
| daemon client (`bridge-mcp/src/daemon-client.ts`) | connection, pending requests | connect, spawn, request, timeout, reconnect | each request settles once |
| tools (`bridge-mcp/src/tools.ts`) | none | one per MCP tool; `bridge_send_and_wait` composes three | what it reports happened |
| framing (`shared/src/framing.ts`) | partial frame | encode, push | chunks do not matter |
| watch client (`launcher/watch-client.mjs`, outside `packages/`) | socket, decoder, pending requests | handshake, request, refresh | shows what the daemon answered |
| secret (`shared/src/auth.ts`) | `daemon.secret` | create, read with retry, verify | daemon and peers agree |

**Interaction.** A cb spawns the daemon if nobody listens, connects, sends `hello` and
then its child's output; the daemon answers pings with pongs' help, injects input and
announces death to notification queues and `sessions.json` through the registry's death
listeners. A `bridge-mcp` sends requests on its own connection; the daemon answers with
the request's id and pushes nothing: clients drain their queues. The pipe is the daemon's
mutex: a second daemon fails to bind. Everything in one process is one event loop, so
a handler runs to its end or to its next `await`.

**What is hard.** The close of a lost socket and the hello of its successor reach the
daemon in either order; timers of a superseded socket keep a reference to the session;
four detectors (bye, close, heartbeat, pid poll) may find the same death; labels are
reused; the daemon's two awaits (`tryInject`, the waits) outlive clients and sessions;
files are written by processes that do not know of each other. `PROJECT.json` lists each
at its line under `hazards`.

## 2. Modules

| Module | What it is |
|---|---|
| `Sessions` | the cb path: pipe client, pipe server, registry and session, with faults |
| `MCSessions` | instances of it for TLC |
| `Directory` | abstract: what a master may rely on when it addresses terminals by label |
| `SessionsProof` | `Sessions` implements `Directory`; its safety properties, proved: pipes, labels, missed pongs, healthy sessions and routes |
| `Notifications` | the MCP side: attach, close, injects, queues and idle watchers |
| `MCNotifications` | instances of it for TLC |
| `NotificationsProof` | its safety properties, proved |
| `Calls` | abstract: what a client may rely on when it makes requests |
| `DaemonClient` | the connection of `bridge-mcp`, its requests, and the daemon as far as it answers |
| `MCDaemonClient` | instances of it for TLC |
| `DaemonClientProof` | `DaemonClient` implements `Calls`; its safety properties, proved |
| `Startup` | who spawns the daemon, the secret file, and which daemon gets the pipe |
| `MCStartup` | instances of it for TLC |
| `StartupProof` | its safety properties, proved |
| `Lifecycle` | daemons that follow each other or overlap, their sessions, and `sessions.json` |
| `MCLifecycle` | instances of it for TLC |
| `LifecycleProof` | its safety properties, proved |
| `Terminal` | one session through time: its user, its output, and the requests that wait for either |
| `MCTerminal` | instances of it for TLC |
| `TerminalProof` | its safety properties, proved |
| `Output` | the way of a terminal's output: `PipeClient`'s queue, the socket, the session's ring, a client that polls |
| `OutputProof` | its safety properties, proved |
| `MCOutput` | instances of it for TLC |
| `Framing` | the decoder, and the three ways in which the programs feed theirs |
| `FramingProof` | its safety properties, proved |
| `MCFraming` | instances of it for TLC |
| `Prompt` | the tools that bring a prompt to a worker, `bridge_send_and_wait` with its four requests among them |
| `MCPrompt` | instances of it for TLC |

`Sessions` and `Notifications` meet in two places: `acceptCb` registering a session and
`markDead`. In `Notifications` these are the actions `SessionAdded` and `SessionDies`, as
free as `Sessions` leaves them: a session can be replaced under its ULID while it is alive
(its pid being gone), and then dies later than its successor was born.

### Sessions

`Cbs` are the cb processes. A cb stands for its ULID and for its child's pid; connections
are numbered in the order they are opened; a `Session` object is named after the
connection whose hello created it. So a second `Session` under an old ULID, which the code
creates when a resume is refused, is a different object here too.

| Variable | Code |
|---|---|
| `child`, `proc` | the child's pid as `process.kill(pid, 0)` sees it; the cb process |
| `link`, `sock`, `isReconnect` | `PipeClient`: reconnect timer / connecting / `connected` / shut down; `socket`; `isReconnect` |
| `cEnd`, `sEnd`, `toServer`, `toClient`, `peer`, `nextConn` | the named pipe: both ends of each connection and the frames under way |
| `bound`, `cbConns` | `ConnState.session`, `PipeServer.cbConns` |
| `registry`, `status`, `label`, `pipe`, `missed` | `Registry.sessions` and the fields of `Session` |
| `record` | what the death listener, `fanoutSessionAdded` and `addOrUpdate` last said of a ULID |

One action is one handler: `Connect`, `OnConnect`, `OnPing`, `OnAuthFailed`,
`OnOtherError`, `OnClose`, `OnExit`, `Exit`, `PingWatchdog` in cb; `RefuseSecret`,
`RefuseLabel`, `Resume`, `Register` (the four ways through `acceptCb`), `OnPong`, `OnBye`,
`Heartbeat`, `HeartbeatLost`, `HandleClose`, `HandshakeTimeout`, `PidPoll`, `InjectProbe`,
`SweepDead` in the daemon; `ChildDies`, `Crash`, `PipeBreak` are the environment. Whatever
a handler calls is inside it: `Register` removes the entry it could not resume, resolves
the label with the renames, adds, announces and records.

Decisions a reader should know:

- A pipe delivers in order and is broken under both ends at once. `destroy()` loses what
  was not read; an error frame written just before may or may not arrive.
- Of two connections of one cb, what was written to the earlier one is read first
  (`EarlierFramesRead`): the bytes were there before the later connection existed. Close
  events have no such order, and that is where the interesting interleavings are.
- Timers may fire at any time: real time is not modelled. `SweepDead` may purge any dead
  sessions; the watchdog may fire although pings came. All properties hold without timing.
- Pings and pongs in flight beyond `MissLimit` are merged, a bound on the queues that
  loses nothing because only their presence matters. `MissLimit = 0` makes
  the first tick kill, which stands for "the heartbeat may kill at any time" in runs
  about something else.
- A dead session's label `name~dead-<ms>` is tagged with the session's identity:
  sessions of one label are assumed to die in different milliseconds.
- Pids are not reused. The labels of one base are different for different suffixes.
- The daemon listens all the time; its start is in `Startup`, its shutdown in `Lifecycle`.
- Left out: `stdout`, `user_input`, `resize`, `inject` frames and `hello_ack`, which do
  not touch this state; frames decoded in one chunk behind the one that kills their
  session, which find it dead and change buffers only. The secret is already cached when
  a socket connects; the await in `handleOnConnect`, the pre-connect queue and the output are
  in `Output`.

**Directory.** `Directory` is this protocol as a master sees it: per terminal whether its child
runs, which session is listed, whether it is alive, the label it shows, and what watchers and
`sessions.json` were told last. Sessions join (`Joins`), die (`Die`), are swept (`Forget`). While
the child runs a live session is replaced by nobody, keeps its label, which no other entry
shows, and its death is told when it happens and not before. Once the child has exited less is
promised: the code may then list a second session while the first, unlisted, is still to die
(`DiesUnlisted`). The mapping takes the registry, its labels and `record` for the directory; the
pipe, resumes, heartbeats and refusals do not show. This implies that entries of live sessions are
kept (`LiveSessionNotReplaced`) and that a label leads to one terminal until its session dies
(`LiveRouteStable`), which are stated and proved by themselves.

### Notifications

| Variable | Code |
|---|---|
| `conn`, `client`, `nextConn` | MCP sockets, `ConnState.clientId`, `mcpClientIdBySock` (the keys are `Attached`) |
| `alive`, `lives` | the `Session` objects of a ULID that are not dead, and how many there were |
| `waiting`, `running` | injects inside `tryInject()`; idle watchers whose interval ticks |
| `watchers` | `NotificationCenter.watchers`: for a client and a ULID the id of the task (0: none) |
| `queue` | `NotificationCenter.queues` |
| `told` | history: what was queued for a client since its queue was last deleted |
| `news` | history: what was queued for a client, in order, since its queue was last emptied |

`Attach` is `acceptMcp`, `Lose` the broken pipe, `HandleClose` the close event with
`clientDisconnected`, `Drain` the `notifications` request. `InjectReq` ends at the await;
`InjectFails` and `InjectWritten` are the rest of the handler, the latter with the
follow-up. `WatcherIdle` and `WatcherExpires` are the two ways an interval stops by itself:
an expired watcher leaves its handle in the map, as in the code.

- A client has one open socket (`DaemonClient.ensureConnected`), but a lost one whose close
  the daemon has not handled may still be in the map, and a request may be read from it.
- `connectedMcpClientIds()` names a client once per socket, so a client with an old and a
  new one is told twice. The model does the same.
- When the user is idle, and when the worker is silent and stable, is any time.
- `session_exited` is `session_dead` with another name. Ids, times and details are left
  out, and so are the replies: `respond()` drops what a closed socket cannot take.

### DaemonClient and Calls

| Variable | Code |
|---|---|
| `sock`, `secret` | `DaemonClient.socket`, whether `cachedSecret` is set |
| `phase`, `target` | the `doConnect()` that runs (`connecting`): where it awaits, and the socket it captured |
| `retries` | timers of `scheduleReconnect()` that have not fired |
| `cEnd`, `sEnd`, `nextConn` | both ends of each connection; `destroyed` is a socket whose close event is still to come |
| `opening`, `toServer`, `toClient` | the first frame written to a connection; requests and frames under way |
| `role`, `serving` | `ConnState.role`; requests whose `handleMcpFrame` runs |
| `call`, `sentOn` | a request inside `ensureConnected()` (`connecting`) or in the `pending` map (`pending`), or how it ended; the connection it was written to |
| `executed` | history: how often the daemon carried it out |

`RequestOnSocket` and `RequestWaits` are the two ways through `ensureConnected()`, `Timeout`
the request's timer. `Dial`, `SecretRead`, `OnHelloAck` are the stages of `doConnect()`;
`DialFails`, `HandshakeFails`, `OnError` and `OnClose` its rejections. `OnClose` is the
close handler with all it calls, down to the `catch` of a rejected handshake that destroys
the socket. `AcceptMcp`, `AuthFailed`, `RefuseRole`, `Receive`, `Respond` are the daemon's side.

`Calls` has two variables: the outcome of a request and how often it was carried out. The
mapping takes `connecting` and `pending` both for `open`: a caller cannot tell them apart.

- What follows an event in microtasks belongs to the event: the requests that waited for
  the ack are written in the step that reads it.
- A destroyed socket is `destroyed` at once, its close event comes any time later, also
  when a new socket is in place: the handler does not ask which socket it is for.
- Requests under way are a set. Handlers in the daemon await, so their order is not the
  order of the requests; only the first frame of a connection matters and is kept.
- Frames arrive whole. The secret is read, or fails to be, at any time.
- Left out: `close()`, which runs when the process ends; how the daemon is spawned (a dial
  succeeds or fails); what a request asks for. A request is not repeated by its caller.

### Startup

| Variable | Code |
|---|---|
| `cb` | where a cb is in `ensureDaemonRunning()`; `foreign`: another one holds the lock |
| `lock`, `old` | `spawn.lock`: who created the file; whether it is older than 5 s |
| `rivals` | history: whether two cbs were ever both between `statSync()` and `unlinkSync()` of a stale lock |
| `daemon`, `spawned` | where a daemon is in `main()`; how many were spawned |
| `secretFile`, `secret`, `cached` | `daemon.secret` (absent, empty, or what a daemon wrote); the copies in memory of daemons and of cbs |
| `pipe` | the daemon that listens |

The processes share nothing but files and the pipe, so an action is a system call: in cb
`Probe`, `OpenLock` (exclusive create), `StatLock`, `UnlinkStale`, `SpawnDetached`,
`Finish` (the poll ends, and the lock is released), `ReadByClient`; in the daemon
`CheckSecret`, `CreateSecret` (exclusive create, which leaves the file empty),
`WriteSecret`, `ReadSecret`, `Bind`, `Stop`. `McpSpawns` is `bridge-mcp`, which takes no
lock. Everybody may be killed between two calls.

- A probe may time out although a daemon listens. A spawn may fail (`Finish` in `spawn`).
- A lock ages only if its creator was killed: a holder polls for 3 s at the most, which
  with the probe is below the 5 s that make a lock stale.
- Nothing deletes the secret file. `Readers` bounds the cbs whose pipe client reads it; the
  others compete for the lock only. When a daemon stops, and what becomes of its
  connections, is the subject of `Lifecycle`, for which `Startup` leaves `Boot` to `Bind`.

### Lifecycle

| Variable | Code |
|---|---|
| `stage`, `pipe` | where a daemon is in `main()`, after the secret; which one listens |
| `link`, `role` | the daemon a cb is connected to, as the cb sees it; `ConnState.role`, as the daemon sees it |
| `status` | what the registry has of a ULID |
| `history` | `SessionPersistence.state` |
| `io`, `fd` | the system call `persist()` makes next; what the file it has open is called by now |
| `tmp`, `file` | `sessions.json.tmp` and `sessions.json` |
| `alone` | history: never were two daemons up at once |

`Load` is the constructor, `Hello` and `HandleClose` are `acceptCb()` and `handleClose()` with
the death listener, `IdleShutdown` and `Signal` the two ways into `shutdown()`, `Exit` what
follows when `srv.close()` calls back. A handler that changes the history ends in
`persist()`, which is synchronous: the daemon is `Blocked` until `OpenTmp`, `WriteTmp`
and `RenameTmp` are done, but it may be killed and another one may use the files. Renaming
moves a file under whoever has it open.

- A history maps a ULID to `absent`, `live` or `ended`. Eviction takes the oldest of the ended
  entries; which these are is left open.
- A file that is missing, empty or does not parse is loaded as no history. Two daemons that
  write into one open file leave a text that parses or does not (`Torn`).
- The MCP side may be quiet at any time, so the daemon may shut down whenever nobody is
  alive. This includes the moment at which `acceptCb()` removes a former session of the cb.
- A cb opens a connection to a daemon when that daemon has handled the close of its last
  one (the other order is in `Sessions`); closes of different daemons have no order. Hence the
  session that `acceptCb()` removes is a dead one here, and never one that is alive while its
  process is gone, which `Hello` would treat alike.
- Sessions end by the close of their connection; the other ways, which record the same, are
  in `Sessions`. A machine that fails is left out, and so are errors of the disk.

### Terminal

| Variable | Code |
|---|---|
| `typed` | how long ago the user typed: nobody knows but the user |
| `sent`, `flight` | `PipeClient.lastUserInputSentAt`; the `user_input` frames under way |
| `report` | history: what became of the last of these: written to the session, kept in cb's queue, or lost |
| `heard`, `quiet` | `Session.lastUserInputAt` and `lastOutputAt`, as ages |
| `screen`, `still` | what the last three lines hash to, animations masked; history: since when |
| `child`, `status` | the pid of the session, `Session.status` |
| `pipe` | `pipeClient` of the session: open, broken at cb's end and not yet at the daemon's, or destroyed |
| `up` | history: since the hello on it |
| `call`, `need`, `age`, `wake`, `seen` | per request: `tryInject()`, a wait, or nothing; `waitForUserIdleMs`; since it began; until its timer fires; `hashes` |
| `answer` | the outcome |

Time is discrete (`Pass`), and a clock is the age of something, which stops growing at
`Horizon`. `StartInject` and `WakeInject` are `tryInject()` up to its `await` and after it, both
with the write (`Delivers`, `Fails` are the outcomes of `Session.inject()`). An inject that was
written goes on as the watcher of its follow-up: `startIdleWatcher` and `waitForIdle` tick alike,
so `WaitTick` is both. `StartPattern` and `PatternTick` are `waitForPattern()`.

- Timers are punctual and a frame is under way for at most `Lag`: time does not pass while one
  is due. The event loop is assumed not to be blocked, and cb's clock to be the daemon's: they
  run on one machine.
- `force` writes at once, as a need of 0 does. Whether it is allowed, and whether the session is
  found, is decided before.
- Both kinds of idle wait have one `Timeout` here (30 s and 5 min in the code); at its end a
  watcher says nothing.
- A resize changes the lines and is no output; output need not change the lines that are hashed.
- A new session has `lastUserInputAt` 1501 ms before cb was started (`session.ts:83`), also when
  it is made for a cb that has run for long: the daemon is new, or handled the close of the last
  session first. `Init` has both: a cb that nobody has typed into, and one whose user typed at
  any time, the report being under way, from the queue, or lost with the last session.
- The daemon learns late of what happens to a pipe. `PipeBreaks` closes cb's end: bytes that
  `Session.inject()` writes from then on are counted as written and lost. `SocketDestroyed`
  is the daemon's own end, `MarkDead` the end of the session. In both the reports under way are
  lost; at a break any of the last ones may be.
- `Resume` opens a pipe again, with what cb has kept meanwhile, if it was not evicted. Of the
  reports that it keeps the last one stands for all: they are read in one go.

### Output

One cb and its output, from the child to the answers a client gets. `Output` has the data that
`Sessions` leaves out, and of the life of connections what loses or reorders data.

| Variable | Code |
|---|---|
| `queue`, `socket`, `connected`, `isReconnect`, `secret`, `timer`, `down` | `PipeClient`: `preConnectQueue`, `socket`, `connected`, `isReconnect`, whether `secret` is cached, `reconnectTimer`, `shuttingDown` |
| `greeting` | the sockets whose `handleOnConnect()` awaits the secret |
| `cEnd`, `sEnd`, `toServer`, `nextConn` | both ends of each connection and the frames under way |
| `bound`, `entry`, `status`, `pipe` | `ConnState.session`, the registry's entry of the ULID, `Session.status` and `pipeClient` |
| `ring` | `Session.raw`: chunks with their time, and (history) the connection they came on |
| `now` | `Date.now()` |
| `cursor`, `got`, `cut` | the `latestTimestamp` a client got last; history: what it has read, what `maxBytes` cut off |
| `made`, `astray` | history: chunks printed; whether `handleOnConnect()` went on for a closed socket |

`SendStdout` is `send()`; `Greet` is `handleOnConnect()` from its await to its end, in one
event-loop turn for all sockets that share the promise of the secret: hello, drain,
`connected`. `SecretGivesUp` is the last failed attempt with `onAuthFailed()`. `Resume` and
`Register` are the ways through `acceptCb()`, `OnStdout` is `Session.onStdout()` with
`pushChunk()` and `evict()`, `Read` is `read_raw` with `readSince()`.

- Chunks have one size, so limits count chunks. A `read_raw` of a chunk that is larger than
  `maxBytes` gets the end of it; here it gets the whole chunk or nothing.
- A socket that is still connecting keeps what is written to it, as `net.Socket` does; what is
  written to one that was lost is lost; what was under way when the client destroys its socket is read
  up to any point.
- The daemon may die and be replaced at once, with nothing in its memory. The clock of all
  processes is the same and does not go back.
- The queue holds other frames too in the code (`resize`, `user_input`), which are evicted
  alike.

### Framing

| Variable | Code |
|---|---|
| `reader` | who reads: daemon and cb, `bridge-mcp`, or the watch client |
| `newest`, `sock` | the socket of the last `connect()`, the state of each |
| `buf`, `emitted` | the decoder's chunks and `framesEmitted` |
| `sizes`, `wire`, `arrived` | the frames the peer has sent on each connection, their units, and how many of these have arrived |
| `handled` | the frames handed to a handler that wants them |
| `before`, `fouled` | history: what had arrived before the last chunk; whether a chunk met a piece it does not continue |

`Push` is the decoder's `push()`, with its caps and both exceptions: `Turn` is one turn of its
loop, and `Decode` takes as many turns as there can be, by a recursive function on their number.
`FedOnce` and `FedTwice` are the data handlers around it, which dispatch what it returns frame by
frame (`Dispatched`). The reference it is compared with is `Complete`: how many frames the bytes that have arrived
make up. The three readers differ in whose decoder a handler feeds. The daemon and cb have
one per socket. The handlers of `bridge-mcp` all feed `this.decoder`, which a new `doConnect()`
replaces, so with two sockets open pieces of frames meet. The watch client does not remove its
handshake handler when it adds the other one, so every chunk is pushed twice.

- A unit is several bytes. `Header` is 2 and payloads are 1 or 2, so a header can be cut and a
  frame can be too large to be the first one.
- What is read as a header and is none may say any length.
- A payload put together from units of two frames never parses. JSON texts could be joined so
  that they do; the frames of this protocol are not.

### Prompt

| Variable | Code |
|---|---|
| `gates` | `BRIDGE_ALLOW_FORCE` in the environments of `bridge-mcp` and of the daemon |
| `tool`, `step`, `force`, `sendEnter`, `held`, `error` | per call: the tool, the request it awaits, what `pickWriteOpts()` made of `force`, `send_enter`, the session `tryInject()` waits for, the error thrown |
| `last`, `alive`, `open` | which session has the name, `Session.status`, its pipe |
| `silent`, `typed` | whether the user has been silent long enough; a bound |
| `toPty`, `line`, `submitted` | inject frames under way, the worker's input line, what was submitted |

`Call` is a tool's handler up to its first request, `Following` what it does when one is
answered, `Fails` its exceptions. `Refuse`, `InjectAtOnce`, `InjectHeld`, `InjectEnds` and
`WaitedOrRead` are the daemon's `handleMcpFrame()`; each request looks the name up again, and
`tryInject()` keeps what it found.

- Both values of either gate are initial states: the environments are set independently.
- An Enter submits the whole input line. That requests time out or lose their connection is in
  `DaemonClient`.
- `Prompt` has a violation only. What it could hold on to (an Enter follows its paste on the same session,
  nothing else is in between) is not so: the user may type and other masters may paste between
  two requests, and the code promises nothing else.

## 3. Runs

`CHECK_DEADLOCK FALSE` everywhere but in the runs of `Terminal`: a behaviour ends when its
connections are used up and the processes are gone. Type correctness is
proved for every module but `Prompt`, so the runs leave it out (but for
`output`, where a ring that keeps too much would not disturb any other property).

| Run | Instance | Shows |
|---|---|---|
| `sessions_names` | 2 cbs, 3 connections, `MissLimit` 0, symmetry | `LabelsUnambiguous`, `LiveSessionHasPipe`, `OpenConnFeedsItsSession`, `LiveSessionReachable`, `RecordAgreesWithRegistry`, `DirectoryKept` (the refinement) |
| `sessions_heartbeat` | 1 of 3 cbs, which has a wrong secret, a bad label or neither, 3 connections, `MissLimit` 1, fairness | `MissedPongsAccounted`, `HealthySessionSurvives`, `GoneCbIsBuried`, `SilentPeerIsBuried`, `RunningCbReattaches`, `RefusedLetGo` |
| `notifications` | 2 clients, 1 ULID with 2 lives, 3 connections, 2 tasks, queue of 2, symmetry | `RunningWatcherIsTracked`, `DeathSettlesTasks`, `BirthsHaveDeaths`, `NewestIsQueued` |
| `daemonclient_calls` | 2 requests, 2 connections, fairness | `EachCallOnce` (the refinement), `EveryCallEnds` |
| `startup` | 3 cbs, one of which reads the secret, 2 daemons, fairness | `HolderOwnsLock`, `SecretAgreed`, `StarterEnds`, `StaleLockYields`, `DaemonComesUp` |
| `lifecycle` | 2 cbs, 2 daemons, room for 1 entry | `HistoryKnowsLive`, `FileFollows`, `OnlyEvictionForgets` |
| `lifecycle_shutdown` (violation) | the same, fairness | `ShutdownEnds` fails |
| `terminal_waits` | 1 request at a time, 2 screens, needs 0 and 4, default 2, limits 3 and 2, a window of 2 | `NoPauseMissed`, `AnsweredInTime`, `MatchSeen`, `WrittenInSilence`, `TimeoutMeansMoving` |
| `terminal_reborn` (violation) | the same | `TypingNeverTrampled` fails |
| `output` | 3 chunks, 3 connections, 2 ms, queue and ring of 2, reads of 1, fairness | `TypeOK`, `OutputInOrder`, `ReadInOrder`, `SkippedShareMillisecond`, `QueueDrains` |
| `framing` | 3 readers, 2 connections, 4 frames of 1 or 2 units, caps 1 and 2 | `WholeFramesAreHandled`, `OnlyWhatWasSent`, `RefusesForAReason` |
| `send_and_wait` (violation) | 2 calls, 2 sessions, 1 keystroke | `RefusedPromptLeavesNothing` fails |

**Bounds.** Two cbs are what a label collision takes. Three connections let one cb be
resumed or replaced twice, or once while the other one registers between: a late close
of the first socket can meet the second and the third. A limit of one lets a miss be
carried from one socket to the next, where the next tick kills (with a limit of two,
179,000 states, the safety properties hold as well; the run takes four minutes). In `notifications`
two tasks make one supersede the other, two lives a replacement, three connections a
reconnect of one client next to another client, and a queue of two overflows with the
third event. In `daemonclient_calls` two requests can wait together, or one wait while the
other is written to the same or the previous socket; two connections let the late close of
one meet the handshake of the next and the requests written to it (with three, 380,000
states, the run finds nothing else and takes two minutes). When they are used up only
`DialFails` is left. In `startup` three cbs compete for a lock:
one leaves it when it is killed and two find it, with its removal between any two of their steps;
two daemons race or follow each other; a single reader of the secret can outlive either. In `lifecycle` two sessions are one more than the
file has room for, so that ended entries are evicted and live ones exceed the limit, and a
second daemon starts from, or interferes with, what the first one left. In `terminal_waits` a
need is met at once (0) or takes two sleeps, a new session is silent enough for the default and
not for it, and the limit comes between the sleeps; a wait lasts three ticks, one more than it
compares, so that one mismatch can be followed by agreement; a reporting window is two units, so
that a keystroke can go unreported, and a frame is under way for one. One request at a time is enough, as
requests share nothing but the session they look at; the theorems are for any number. In
`output` three chunks overflow a queue, a ring and a read of one or two; three connections are
a session, its resumption, and a replacement or a third socket that greets together with the
first two; two milliseconds tell chunks of one time from chunks of two. In `framing` four frames
are two on each of two connections, or an ack and three answers: enough for the handshake
handler of the watch client to meet a cut frame and leave the next ones to be read. Larger
numbers are what the theorems are for.

**Fairness.** `FairSpec` asks weak fairness of what an event loop and its timers do by
themselves: in cb the reconnect timer, the connect event, refusals that have arrived, close
events, the child's exit and the exit timer; in the daemon reading (per connection, for whichever frame comes
next), heartbeat, close events, pid poll and sweep. A cb may never get to the pings that
wait for it, so a silent cb is one of the fair behaviours. Nothing makes a child exit, a
pipe break or an inject happen, and the watchdog, which a ping can forestall, is not fair
either. `Notifications` has no liveness property: nothing in the code makes a worker fall
silent or a client drain. In `DaemonClient` the timers (reconnect, ack, request) fire, a
dial ends, and what a socket has to tell (frames, end, close) is told; nothing is asked of
the daemon, which may hang for ever. In `Startup` a process that runs goes on to its next
system call and polls have deadlines; nothing makes anybody start, stop or be killed, or a
lock grow old. In `Lifecycle` a daemon goes on saving, reading, handling closes and exiting;
that terminals come and go, shutdowns and kills are not fair. `Terminal` needs no fairness:
with punctual timers "in the end" is a bound (`AnsweredInTime`).
In `Output` the reconnect timer fires, a dial ends one way or the other, close events come, and
reading the secret ends (five attempts); nothing is asked of the daemon.

**What the violations show.**

- `TypingNeverTrampled`: a session that is made for a cb which has been running takes its user
  for silent (`session.ts:83`), so an inject is written over somebody who has just typed. In the
  run the report of the keystroke went to the last session. `WrittenInSilence` says of everything
  else that the injects respect the user: it excepts a last report that was lost, and the moment
  after a hello in which what cb kept is still under way.
- `ShutdownEnds`: `stop()` destroys the sockets whose role is known and waits for the others
  to end. One that has not said hello yet may say it now, and the daemon accepts: it goes on
  with this session, without the pipe, unreachable for every client, and ignores signals.
- `RefusedPromptLeavesNothing`: `bridge_send_and_wait` pastes as it was told and then asks for a
  forced Enter, which a daemon without `BRIDGE_ALLOW_FORCE` refuses. The tool fails, the text
  stays in the worker's input line, and a caller who tries again adds to it.

Others that the modelling met and no run shows:

- `protocol.ts:24` and `CHANGELOG.md:34` promise that a reconnect rebinds the session unless it
  is purged or its pid is gone. If the daemon handles the old socket's close first it marks the
  session dead (`pipe-server.ts:790`), and the hello creates a new one, with a label resolved
  afresh. Two terminals of one directory can swap `hwm` and `hwm-2` this way.
- `clientDisconnected` is for a client that disconnects (`notifications.ts:77`), but it runs
  for each socket (`pipe-server.ts:810`). When the reconnect's hello is handled before the old
  socket's close, the connected client loses what was queued for it, and its watchers.
- A daemon loads and saves the history before it learns that the pipe is taken, and all daemons
  use one temporary file (`persistence.ts:112`). What the first one saved meanwhile is
  overwritten, although `README.md:130` of the repository has sessions survive.
- The queue is drained to one socket, and "in order" (`pipe-client.ts:83`). When the secret is
  late and the socket is lost meanwhile, `handleOnConnect()` goes on for the closed socket: it
  drains the queue into it and sets `connected`, so that what is printed next goes to the new
  socket without what was queued: a gap inside what looks like one connection. `OutputInOrder`
  excepts this (`astray`); order is kept even then.
- A reader's cursor is a timestamp in milliseconds: chunks that arrive in the millisecond of the
  last one read are not read (`ring-buffer.ts:46`). `SkippedShareMillisecond` says that nothing
  else is missed.
- `bridge_read_raw` allows 1,000,000 bytes (`tools.ts:199`), which in base64 are above the limit
  of a frame: `encodeFrame()` throws in `respond()` (`pipe-server.ts:516`), and the client gets
  no answer but its timeout.
- A `hello` above 4 KB is refused by the decoder's cap for first frames, and cb retries for ever.
- Complete frames that precede a bad one in a chunk are dropped with it (`framing.ts:80`).
- The watch client pushes every chunk into its decoder twice (`watch-client.mjs:199`). Whole
  frames survive this: the second answer finds no request pending. A frame that is cut between
  two chunks does not, and errors are swallowed. Its refreshes may overlap (`:231`).
- `BRIDGE_ALLOW_FORCE=0` turns the gate off in `bridge-mcp` (`tool-schemas.ts:92`), and on in the
  daemon, which asks whether the variable is set (`pipe-server.ts:595`).

- The close comment (`pipe-server.ts:809`) says it frees the client's queue and cancels its
  watchers; an inject that was still waiting for the user starts a watcher afterwards (:650),
  which nobody cancels, and its `task_complete` creates the queue again.
- `docs/EXECUTION.md:588` has idle reported no earlier than the silence and the stable ticks
  after the last output. A tick that finds output recent leaves the hashes of earlier ticks in
  place (`wait-for.ts:137`), so output that leaves the hashed lines as they were costs the
  silence only: the first hash after it can complete the row.
- `user_active` is meant for a user who types constantly (`inject.ts:4`), but a need above the 10 s
  limit, which the tools allow up to 60 s, is refused to a silent one too.

- Only `auth_failed` is fatal for cb (`pipe-client.ts:376`), although the handler's comment
  (:40) says so of every refusal: a refused label is retried for ever.
- A request of `bridge-mcp` made while a handshake runs finds `socket` set and is written at
  once (`daemon-client.ts:168`); before the hello this costs the connection.
- The reconnect of `bridge-mcp` is announced as a backoff (`daemon-client.ts:5`), but only a
  close sets its timer: after one failed attempt nothing is tried until a request comes.
- Of two daemons that race for the secret the loser is said to read what the winner produced
  (`index.ts:59`); between the creation and the write it reads nothing and exits.
- With three cbs two can find the same stale lock, the second of which then removes the
  first one's fresh lock, and both are told that they own it (`spawn-daemon.ts:107`); the pipe
  still lets one daemon only listen. `HolderOwnsLock` says that this is the only way.
- A daemon that is killed between creating the secret file and writing it leaves a file over
  which every later one fails, until somebody deletes it (`DaemonComesUp` excuses these). The
  secret is not regenerated at each start, as `README.md:142` of the repository says.
- A daemon that finds the pipe taken exits, "our job is being done" (`index.ts:159`), also when
  the other one is about to stop: then nobody listens until something spawns again.
- `persist()` does not fsync, as `persistence.ts:6` says; a process that is killed cannot
  tell, a machine that fails can.

## 4. Theorems

The safety properties of the passing runs, and both refinements, are proved for every value of
the constants that meets the assumptions in the modules; those of `Sessions` are that the cbs are finitely many
and not `NoCb`, that the bounds are naturals, and that there are more suffixes than cbs and
they make different labels.

- **Pipes** (`SessionsProof`). `ConnsInv` (types, unopened connections are untouched,
  sockets belong to who opened them) and, on top, `PipesInv`: a connection is bound to a
  session of the same cb, the connection that created a session stays bound to it, the
  registry holds sessions of its own ULID, a live session has its pipe and an open bound
  connection is the pipe of a live session. The last two are the properties
  (`LivePipe`, `OneFeedingConnection`) and need each other: a close kills the session only
  if it is still the pipe, so a resume must leave no other connection that is.
- **Labels** (`SessionsProof`). `LabelsInv` adds that only dead sessions carry a tag, their
  own. `resolveLabel` finds a suffix by the pigeonhole principle (`SomeSuffixIsFree`), so
  the fallback of the code is never taken. Theorem `LabelsStayUnambiguous`.
- **Heartbeat** (`SessionsProof`). Lemmas count the pings and pongs in a queue when
  a frame is appended or read. `HealthInv`: a bye in flight means the child has exited, and
  the misses of a live session are unanswered pings of its own pipe. Theorems
  `MissesAreAccounted`, and from it `HealthySessionsSurvive`, by cases on the four ways to die.
- **Directory** (`SessionsProof`). `FreshInv`: a hello without resume is written
  on a cb's first connection only, and read before anything later. Hence a hello never
  meets a live session it does not resume, and `DirectoryInv` follows: theorems
  `LiveSessionsAreFound`, `RecordsAgree`, `LiveEntriesAreKept`, and, with unique labels,
  `RoutesAreStable`. `DirectoryImplemented` maps every
  step to `Directory`: a registration is `Joins` (it displaces no live session of a running
  child, and its label is free), the death of listed sessions is `Die`, the late death of one
  that a second hello has replaced is `DiesUnlisted`, which is possible only once the child has
  exited (`LiveSessionReachable`), a sweep is `Forget`; nothing else shows (`DirectoryCases`).

- **Notifications** (`NotificationsProof`, for every number of clients, ULIDs, connections,
  tasks and every queue limit, from: bounds are naturals, the limit is positive, `NoClient`
  is no client). `Watched` adds that tasks have different ids and are in one place, which
  `RunningWatcherIsTracked` needs when a watcher resolves and deletes the map's entry: the
  entry must be its own (`WatchersAreTracked`). `Informed` adds that only dead sessions
  were reported dead and that a client without a connection was told of no session; the
  first makes the second look of `tryInject` at the session sufficient
  (`DeathsSettleTasks`), the second is why a death that is announced to connected clients
  only leaves no birth open (`DeathsFollowBirths`). `NewestIsKept` is inductive as it stands: a
  queue is the end of what happened since it was emptied, and of what follows a gap nothing is
  missing, which `enqueue` keeps for any batch of events and any limit (`LatestStays`).

- **Requests** (`DaemonClientProof`, for any set of requests without the words `ack` and
  `error`, and any number of connections). `Types` adds that a reconnect timer belongs to
  a closed connection. `OneCopy` says where a request can be: unread on the connection it
  was written to, or in its handler there, and then not yet carried out; an answer under
  way means it was; `NotSent` that one that waits is nowhere. With these (`Once`) every
  step is a step of `Calls` or changes nothing a caller sees: theorem `CallsImplemented`.
  The crucial cases are an answer that comes after the timeout and a handler that ends
  after it. `LostFailAtOnce` rests on `failAllPending` taking all requests, whatever
  connection they are on; `WaitersServed` is inductive as it stands.

- **Startup** (`StartupProof`, for any terminals and any number of daemons). `SecretInv`
  adds what an exclusive create is for: one daemon at most is about to write the file, which
  is empty until then. Without it a second writer could replace a secret that a client holds.
  Theorem `SecretsAgree`. `LockExcludes` says of the lock that its holder is alone, whichever
  cbs are killed and whatever they leave behind. `LockInv` follows a removal: until two cbs are
  about to remove a stale lock at once (`rivals`), the lock that is removed is the one that was
  found, and its creator is dead, so no living holder loses it.

- **Lifecycle** (`LifecycleProof`, for finitely many terminals, any number of daemons and any
  limit). `KnownInv` joins the role of a connection to the status of its session:
  theorem `HistoryKnows`, for overlapping daemons too. `FileInv` follows the file through
  `persist()`: the system call that comes next says whether the new text is still to be
  written or stands in the temporary file, and `Covered` that it has what the file has, or is
  full (`EvictFillsUp`, by counting). Theorems `FileIsFollowed` and `EvictionForgets`.

- **Terminal** (`TerminalProof`, for any set of requests, screens and needs, and all times that
  are positive and below `Horizon`). `UserInv` follows a keystroke to the daemon: what is under
  way is younger than what has arrived, and late only after a hello; the last report, if it was
  made and not lost, is under way or is what the daemon has; and the user is silent for as long
  as that but for one window. It holds for sessions that are made for a user who types, through
  breaks and resumes. `CallOK` says that a call wakes up before its limit, an inject before its
  silence is complete; it survives keystrokes that arrive late since they only make the daemon
  believe in less silence. Theorems `InjectsSeizeThePause`, `RequestsAreAnsweredInTime` and, by a
  look at who writes (`WhoWrites`), `InjectsRespectTheUser`. `WaitOK` follows the hashes of a wait: it ticks at
  the multiples of its period, goes on only while hashes differ, and when the terminal has rested
  for k ticks its last k hashes are that of the screen; so on a terminal that rests for as many
  ticks as are compared a wait ends before its time is up (`TimeoutsAreDeserved`). `PatternOK` says of a wait for a
  pattern that what matches has appeared since its last scan, and that the next one is a tick
  off at most: theorem `MatchesAreSeen`.

- **Output** (`OutputProof`, for any number of chunks, connections and milliseconds, and any
  positive size of queue, ring and read). `Shape` says which sockets can be written to: the
  newest only, and the queue waits beside a connection only until it greets. `Growing` puts all
  there is in one line, rings and answers before the wires, the wires in the order of their
  connections, the queue last, and each begins beyond the end of the one before; connections
  whose first frame is no hello are left out, as the daemon destroys them. `Sorted` adds the
  order of time: theorem `ReadsAreInOrder`. `Polled` says that the cursor is the time of a chunk
  that was read, without which the millisecond of the cursor would excuse nothing, and that a
  ring is empty before its session exists (`PollsSkipAMillisecond`). `Tight` sharpens order to
  succession until a greeting goes astray: the last chunk in a ring, its wire, and the next
  chunk printed follow each other on a live connection, the queue ends with the last chunk
  printed, and on nothing but the current socket is anything written (`RingsAreInOrder`). It
  needs `Silent`, that nothing is written before the secret is read, to know that a late
  greeting comes first on its connection.

- **Framing** (`FramingProof`, for any number and sizes of frames, connections and caps, and every
  way of cutting the streams into chunks). The decoder is a recursion, so the proof has an
  induction of its own: a set of naturals with 0 and every successor has all (`Naturals0AndUp`,
  from the well-foundedness of the naturals in the library), and a property of the loop's state
  that a turn keeps holds when the loop has ended (`LoopInduction`, and `DispatchInduction` for
  the frames that are dispatched). A turn takes a unit at least or leaves the loop (`TurnsTyped`),
  hence the turns suffice. Two facts about `push()` follow: on a part of one stream that starts at
  the end of a frame it returns exactly the frames of this part and keeps the piece at its end, or
  throws at a first frame above the cap (`Clean`); and on anything else it returns frames whose last
  units are in the decoder, in the order they came in (`Sound`). The inductive invariant `IInv`
  says that the units of a wire are those of its frames in order (`ArrivedOK`); that the decoder
  holds units that have arrived, sorted and beyond what was handled unless both handlers of the
  watch client push (`Held`); that what was handled is complete and without repetition
  (`HandledOK`); and, for as long as nothing is fouled, that an open socket has handled what is
  complete, and the decoder of the daemon and of cb holds the piece of the newest socket and has
  emitted what is complete there (`OpenOK`, `RefusedOK`). Theorems `EveryCutIsHandled`,
  `NothingIsMadeUp`, `OnlyTheFirstIsRefused`.

Theorems that no run's property names: that each module is type correct, `LiveEntriesAreKept` and
`RoutesAreStable` of `SessionsProof` (what `DirectoryKept` means for one entry and for one label),
`LostFailAtOnce` and `WaitersServed` of `DaemonClientProof`.

Only model-checked: the liveness properties (`GoneCbIsBuried`, `SilentPeerIsBuried`,
`RunningCbReattaches`, `RefusedLetGo`, `EveryCallEnds`, `StarterEnds`, `StaleLockYields`,
`DaemonComesUp`, `QueueDrains`), since fairness is out of the prover's reach. The three violations
(`TypingNeverTrampled`, `ShutdownEnds`, `RefusedPromptLeavesNothing`) are what the code does not
keep.

## 5. Plan

1. `Sessions` and its theorems: done.
2. `Notifications` and its theorems: done.
3. `Startup` (spawn lock, secret file, bind) and its theorems: done.
4. `Lifecycle` (idle shutdown, stop, `sessions.json`) and its theorems: done.
5. `Terminal` (a clock, user input, inject and the waits) and its theorems: done.
6. `Output` (queue, await, ring buffer, reader) and `Framing` (the decoder and its users), with
   their theorems: done.
7. `DaemonClient` as an implementation of `Calls`, with theorems: done. `Prompt`: done.
8. `Directory` (per terminal absent, live or dead), which `Sessions` implements, with the
   theorem: done.

Left: an abstract pipe of output that `Output` implements, and what a forced prompt does keep
(`Prompt` has a violation only).

Not modelled:

- installer and launcher scripts, smoke tests, build scripts: they run once and keep no state;
- audit log, log and redaction: text (regular expressions) and appended files;
- the xterm emulator and the pseudo-terminal: external code behind thin wrappers;
- tool schemas and the tools that make one request and return its answer (`bridge_list`,
  `bridge_read`, `bridge_info` and the like): their request is in `DaemonClient`, and what they
  add is formatting;
- the watch client's screen and refresh loop.
