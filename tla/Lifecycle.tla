------------------------------- MODULE Lifecycle -------------------------------
(***************************************************************************)
(* Daemons that follow each other or run side by side, the terminals they  *)
(* serve, and the file they all keep the history of sessions in.           *)
(*                                                                         *)
(* A handler saves the history before it returns, and that takes three     *)
(* system calls: the daemon does nothing else meanwhile, but it may be     *)
(* killed and another daemon may use the same two files.                   *)
(***************************************************************************)
EXTENDS Integers, FiniteSets

CONSTANTS
  Cbs,         \* cb processes, and the ULIDs of their sessions
  MaxDaemons,  \* bound: daemon processes in a behaviour
  MaxEntries,  \* MAX_ENTRIES
  Torn         \* what a file holds that does not parse

Daemons == 1..MaxDaemons
NoDaemon == 0

\* What is known of a session: nothing, that it is live, or that it ended.
History == [Cbs -> {"absent", "live", "ended"}]
Nothing == [c \in Cbs |-> "absent"]

ASSUME CbsAssumption == IsFiniteSet(Cbs)
ASSUME BoundAssumption == MaxDaemons \in Nat /\ MaxEntries \in Nat
ASSUME TornAssumption == Torn \notin History

VARIABLES
  stage,    \* where main() is, per daemon
  pipe,     \* the daemon that listens
  link,     \* the daemon a cb is connected to, as the cb sees it
  role,     \* per daemon and cb: the role of the connection, as the daemon sees it
  status,   \* per daemon and cb: what the registry has
  history,  \* SessionPersistence.state, per daemon
  io,       \* the system call persist() makes next, per daemon
  fd,       \* what the open file of persist() is called by now, per daemon
  tmp,      \* sessions.json.tmp: nothing if it is not there, else what it holds
  file,     \* sessions.json, a missing file being an empty one
  alone     \* history: never were two daemons up at once

diskVars == <<io, fd, tmp, file>>
connVars == <<link, role, status>>
vars     == <<stage, pipe, connVars, history, diskVars, alone>>

Stages == {"none", "load", "bind", "serving", "closing", "gone"}

TypeOK ==
  /\ stage \in [Daemons -> Stages]
  /\ pipe \in Daemons \union {NoDaemon}
  /\ link \in [Cbs -> Daemons \union {NoDaemon}]
  /\ role \in [Daemons -> [Cbs -> {"none", "unknown", "cb"}]]
  /\ status \in [Daemons -> [Cbs -> {"absent", "alive", "dead"}]]
  /\ history \in [Daemons -> History]
  /\ io \in [Daemons -> {"none", "open", "write", "rename"}]
  /\ fd \in [Daemons -> {"none", "tmp", "file", "gone"}]
  /\ tmp \in SUBSET (History \union {Torn})
  /\ file \in History \union {Torn}
  /\ alone \in BOOLEAN
  /\ \A d \in Daemons : stage[d] = "serving" <=> pipe = d

Init ==
  /\ stage = [d \in Daemons |-> "none"]
  /\ pipe = NoDaemon
  /\ link = [c \in Cbs |-> NoDaemon]
  /\ role = [d \in Daemons |-> [c \in Cbs |-> "none"]]
  /\ status = [d \in Daemons |-> [c \in Cbs |-> "absent"]]
  /\ history = [d \in Daemons |-> Nothing]
  /\ io = [d \in Daemons |-> "none"]
  /\ fd = [d \in Daemons |-> "none"]
  /\ tmp = {}
  /\ file = Nothing
  /\ alone = TRUE

-----------------------------------------------------------------------------
(* The history in memory *)

Entries(h) == {c \in Cbs : h[c] # "absent"}
Live(h) == {c \in Cbs : h[c] = "live"}

Room(h) ==
  IF Cardinality(Live(h)) > MaxEntries THEN 0 ELSE MaxEntries - Cardinality(Live(h))

\* Fault: the oldest entries go, live or not.
EvictAny(h) ==
  IF Cardinality(Entries(h)) <= MaxEntries THEN {h}
  ELSE {g \in History : /\ \A c \in Cbs : g[c] \in {h[c], "absent"}
                        /\ Cardinality(Entries(g)) = MaxEntries}

\* Ended entries go, the oldest of them: which these are is left open.
Evict(h) ==
  IF Cardinality(Entries(h)) <= MaxEntries THEN {h}
  ELSE {g \in History : /\ \A c \in Cbs : g[c] \in {h[c], "absent"}
                        /\ Live(g) = Live(h)
                        /\ Cardinality(Entries(g) \ Live(g)) = Room(h)}

\* What the constructor makes of the file: nothing that was live is any more.
Loaded == IF file = Torn THEN Nothing ELSE file
AllEnded(h) == [c \in Cbs |-> IF h[c] = "live" THEN "ended" ELSE h[c]]

-----------------------------------------------------------------------------
(* persist() *)

Blocked(d) == io[d] # "none"
StartsPersist(d) == io' = [io EXCEPT ![d] = "open"]

IoStep(d, from, to) ==
  /\ io[d] = from
  /\ io' = [io EXCEPT ![d] = to]
  /\ UNCHANGED <<stage, pipe, connVars, history, alone>>

\* Fault: the file is rewritten in place.
OpenInPlace(d) ==
  /\ IoStep(d, "open", "write")
  /\ file' = Nothing
  /\ fd' = [fd EXCEPT ![d] = "file"]
  /\ UNCHANGED tmp

\* writeFileSync() truncates the file first, whoever wrote it.
OpenTmp(d) ==
  /\ IoStep(d, "open", "write")
  /\ tmp' = {Nothing}
  /\ fd' = [fd EXCEPT ![d] = "tmp"]
  /\ UNCHANGED file

\* Two texts written over each other parse if the later is the longer.
Written(d, old) == IF old = Nothing THEN {history[d]} ELSE {history[d], Torn}

WriteTmp(d) ==
  /\ IoStep(d, "write", "rename")
  /\ \/ /\ fd[d] = "tmp"
        /\ \E old \in tmp : \E new \in Written(d, old) : tmp' = {new}
        /\ UNCHANGED file
     \/ fd[d] = "file" /\ file' \in Written(d, file) /\ UNCHANGED tmp
     \/ fd[d] = "gone" /\ UNCHANGED <<tmp, file>>
  /\ fd' = [fd EXCEPT ![d] = "none"]

\* The new name of an open file.
Moved(name) == IF name = "tmp" THEN "file" ELSE IF name = "file" THEN "gone" ELSE name

\* It fails if another daemon has moved the file.
RenameTmp(d) ==
  /\ IoStep(d, "rename", "none")
  /\ \/ /\ tmp # {}
        /\ file' \in tmp
        /\ tmp' = {}
        /\ fd' = [e \in Daemons |-> Moved(fd[e])]
     \/ tmp = {} /\ UNCHANGED <<tmp, file, fd>>

Persist(d) == OpenTmp(d) \/ WriteTmp(d) \/ RenameTmp(d)

-----------------------------------------------------------------------------
(* A daemon comes up *)

Up(d) == stage[d] \notin {"none", "gone"}

Boot(d) ==
  /\ stage[d] = "none"
  /\ \A e \in Daemons : e < d => stage[e] # "none"
  /\ stage' = [stage EXCEPT ![d] = "load"]
  /\ alone' = (alone /\ \A e \in Daemons : ~Up(e))
  /\ UNCHANGED <<pipe, connVars, history, diskVars>>

\* Fault: the constructor does not save what it changed.
LoadUnsaved(d) ==
  /\ stage[d] = "load"
  /\ stage' = [stage EXCEPT ![d] = "bind"]
  /\ history' = [history EXCEPT ![d] = AllEnded(Loaded)]
  /\ UNCHANGED <<pipe, connVars, diskVars, alone>>

\* The constructor of SessionPersistence.
Load(d) ==
  /\ stage[d] = "load"
  /\ stage' = [stage EXCEPT ![d] = "bind"]
  /\ history' = [history EXCEPT ![d] = AllEnded(Loaded)]
  /\ IF Live(Loaded) # {} THEN StartsPersist(d) ELSE UNCHANGED io
  /\ UNCHANGED <<pipe, connVars, fd, tmp, file, alone>>

Bind(d) ==
  /\ stage[d] = "bind"
  /\ ~Blocked(d)
  /\ \/ pipe = NoDaemon /\ pipe' = d /\ stage' = [stage EXCEPT ![d] = "serving"]
     \/ pipe # NoDaemon /\ UNCHANGED pipe /\ stage' = [stage EXCEPT ![d] = "gone"]
  /\ UNCHANGED <<connVars, history, diskVars, alone>>

-----------------------------------------------------------------------------
(* Sessions come and go *)

\* One connection of a cb to one daemon at a time: reconnects are Sessions' subject.
Connect(c) ==
  /\ link[c] = NoDaemon
  /\ pipe # NoDaemon
  /\ role[pipe][c] = "none"
  /\ link' = [link EXCEPT ![c] = pipe]
  /\ role' = [role EXCEPT ![pipe][c] = "unknown"]
  /\ UNCHANGED <<stage, pipe, status, history, diskVars, alone>>

\* The pipe breaks, the cb exits, or its connection is destroyed.
Lose(c) ==
  /\ link[c] # NoDaemon
  /\ link' = [link EXCEPT ![c] = NoDaemon]
  /\ UNCHANGED <<stage, pipe, role, status, history, diskVars, alone>>

AnyAlive(d) == \E c \in Cbs : status[d][c] = "alive"

\* stop() is called and no longer listens.
Closes(d) ==
  /\ stage' = [stage EXCEPT ![d] = "closing"]
  /\ pipe' = NoDaemon

Handles(d) == stage[d] \in {"serving", "closing"} /\ ~Blocked(d)

\* acceptCb() of a session that cannot be resumed. If it has to remove a former one, dead or
\* with its process gone, the change may be the moment to shut down, and the session is
\* added nevertheless.
Hello(d, c) ==
  /\ Handles(d)
  /\ role[d][c] = "unknown"
  /\ \/ /\ stage[d] = "serving" /\ status[d][c] # "absent"
        /\ \A e \in Cbs \ {c} : status[d][e] # "alive"
        /\ Closes(d)
     \/ UNCHANGED <<stage, pipe>>
  /\ role' = [role EXCEPT ![d][c] = "cb"]
  /\ status' = [status EXCEPT ![d][c] = "alive"]
  /\ \E h \in Evict([history[d] EXCEPT ![c] = "live"]) : history' = [history EXCEPT ![d] = h]
  /\ StartsPersist(d)
  /\ UNCHANGED <<link, fd, tmp, file, alone>>

\* handleClose() with markDead() and the death listener.
HandleClose(d, c) ==
  /\ Handles(d)
  /\ role[d][c] # "none"
  /\ link[c] # d
  /\ role' = [role EXCEPT ![d][c] = "none"]
  /\ IF role[d][c] = "cb"
     THEN /\ status' = [status EXCEPT ![d][c] = "dead"]
          /\ IF history[d][c] = "live"
             THEN /\ \E h \in Evict([history[d] EXCEPT ![c] = "ended"]) :
                       history' = [history EXCEPT ![d] = h]
                  /\ StartsPersist(d)
             ELSE UNCHANGED <<history, io>>
     ELSE UNCHANGED <<status, history, io>>
  /\ UNCHANGED <<stage, pipe, link, fd, tmp, file, alone>>

SweepDead(d, c) ==
  /\ stage[d] = "serving"
  /\ ~Blocked(d)
  /\ status[d][c] = "dead"
  /\ status' = [status EXCEPT ![d][c] = "absent"]
  /\ UNCHANGED <<stage, pipe, link, role, history, diskVars, alone>>

-----------------------------------------------------------------------------
(* A daemon stops *)

\* Nobody is alive and the MCP side has been quiet: at a death, a sweep, a close or a poll.
IdleShutdown(d) ==
  /\ stage[d] = "serving"
  /\ ~Blocked(d)
  /\ ~AnyAlive(d)
  /\ Closes(d)
  /\ UNCHANGED <<connVars, history, diskVars, alone>>

\* SIGTERM or SIGINT: the connections of known roles are destroyed.
Signal(d) ==
  /\ stage[d] = "serving"
  /\ ~Blocked(d)
  /\ Closes(d)
  /\ link' = [c \in Cbs |-> IF link[c] = d /\ role[d][c] = "cb" THEN NoDaemon ELSE link[c]]
  /\ UNCHANGED <<role, status, history, diskVars, alone>>

\* srv.close() calls back when the last connection has ended.
Exit(d) ==
  /\ stage[d] = "closing"
  /\ ~Blocked(d)
  /\ \A c \in Cbs : role[d][c] = "none"
  /\ stage' = [stage EXCEPT ![d] = "gone"]
  /\ UNCHANGED <<pipe, connVars, history, diskVars, alone>>

Kill(d) ==
  /\ Up(d)
  /\ stage' = [stage EXCEPT ![d] = "gone"]
  /\ pipe' = IF pipe = d THEN NoDaemon ELSE pipe
  /\ link' = [c \in Cbs |-> IF link[c] = d THEN NoDaemon ELSE link[c]]
  /\ role' = [role EXCEPT ![d] = [c \in Cbs |-> "none"]]
  /\ io' = [io EXCEPT ![d] = "none"]
  /\ fd' = [fd EXCEPT ![d] = "none"]
  /\ UNCHANGED <<status, history, tmp, file, alone>>

-----------------------------------------------------------------------------

Next ==
  \/ \E d \in Daemons :
       \/ Boot(d) \/ Load(d) \/ Bind(d) \/ Persist(d)
       \/ IdleShutdown(d) \/ Signal(d) \/ Exit(d) \/ Kill(d)
       \/ \E c \in Cbs : Hello(d, c) \/ HandleClose(d, c) \/ SweepDead(d, c)
  \/ \E c \in Cbs : Connect(c) \/ Lose(c)

\* The event loop of a daemon.
Fairness ==
  \A d \in Daemons :
    /\ WF_vars(Load(d) \/ Bind(d) \/ Persist(d))
    /\ \A c \in Cbs : WF_vars(Hello(d, c)) /\ WF_vars(HandleClose(d, c))
    /\ WF_vars(Exit(d))

Spec == Init /\ [][Next]_vars
FairSpec == Spec /\ Fairness

-----------------------------------------------------------------------------
(* Properties *)

\* The history of a daemon has as live the sessions that are: none is evicted, none stays
\* live in the books, also when the history came from an earlier daemon.
HistoryKnowsLive ==
  \A d \in Daemons : stage[d] \in {"bind", "serving", "closing"} =>
    \A c \in Cbs : history[d][c] = "live" <=> status[d][c] = "alive"

\* A daemon that has been the only one saves all it knows with each event, and a kill at any
\* moment leaves a file that can be read.
FileFollows ==
  alone =>
    /\ file # Torn
    /\ \A d \in Daemons :
         stage[d] \in {"bind", "serving", "closing"} /\ ~Blocked(d) => file = history[d]

\* Sessions leave the file of daemons that never overlapped by eviction only, however these
\* daemons stopped or were killed.
OnlyEvictionForgets ==
  [][alone' => \/ Entries(file) \subseteq Entries(file')
               \/ Cardinality(Entries(file')) >= MaxEntries]_vars

-----------------------------------------------------------------------------
(* What the repository says and the code does not do *)

\* bridged/src/index.ts: the daemon exits once it was decided that it does, as it is idle
\* or was told to.
ShutdownEnds ==
  \A d \in Daemons : stage[d] = "closing" ~> stage[d] = "gone"
=============================================================================
