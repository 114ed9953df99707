------------------------------- MODULE Startup -------------------------------
(***************************************************************************)
(* How the daemon comes up: terminals that find no pipe compete for the    *)
(* spawn lock, bridge-mcp spawns without it, and the daemons spawned race  *)
(* for the secret file and then for the pipe, which is their mutex.        *)
(*                                                                         *)
(* The processes share nothing but files and the pipe, so each system call *)
(* on them is an action, and a process may be killed between any two.      *)
(***************************************************************************)
EXTENDS Integers, FiniteSets

CONSTANTS
  Cbs,        \* cb processes
  Readers,    \* bound: those whose pipe client reads the secret
  NoCb,       \* nobody
  MaxDaemons  \* bound: daemon processes in a behaviour

ASSUME NoCbAssumption == NoCb \notin Cbs
ASSUME ReadersAssumption == Readers \subseteq Cbs
ASSUME BoundAssumption == MaxDaemons \in Nat

Daemons == 1..MaxDaemons
NoDaemon == 0

\* What the secret file holds: nothing as it does not exist, nothing although it does,
\* or what a daemon generated.
Absent == -1
Empty == 0

VARIABLES
  cb,          \* where ensureDaemonRunning() is, per cb
  lock,        \* spawn.lock: the cb that created it, or NoCb
  old,         \* whether its age exceeds SPAWN_LOCK_STALE_MS
  rivals,      \* history: whether two cbs were ever both about to remove a stale lock
  daemon,      \* where main() is, per daemon
  spawned,     \* daemons spawned so far
  secretFile,  \* daemon.secret
  secret,      \* the secret in memory, per daemon
  cached,      \* the secret a cb has read
  pipe         \* the daemon that listens

lockVars   == <<cb, lock, old, rivals>>
daemonVars == <<daemon, spawned>>
secretVars == <<secretFile, secret, cached>>
vars       == <<lockVars, daemonVars, secretVars, pipe>>

CbStages == {"idle", "open", "stat", "unlink", "reopen", "spawn", "polling", "foreign",
             "done", "killed"}
DaemonStages == {"none", "check", "create", "write", "read", "bind", "listening",
                 "exited", "failed", "killed"}

TypeOK ==
  /\ cb \in [Cbs -> CbStages]
  /\ lock \in Cbs \union {NoCb}
  /\ old \in BOOLEAN
  /\ rivals \in BOOLEAN
  /\ daemon \in [Daemons -> DaemonStages]
  /\ spawned \in 0..MaxDaemons
  /\ secretFile \in Daemons \union {Absent, Empty}
  /\ secret \in [Daemons -> Daemons \union {Empty}]
  /\ cached \in [Cbs -> Daemons \union {Empty}]
  /\ pipe \in Daemons \union {NoDaemon}
  /\ \A d \in Daemons : daemon[d] \in {"bind", "listening"} => secret[d] # Empty

Init ==
  /\ cb = [c \in Cbs |-> "idle"]
  /\ lock = NoCb
  /\ old = FALSE
  /\ rivals = FALSE
  /\ daemon = [d \in Daemons |-> "none"]
  /\ spawned = 0
  /\ secretFile = Absent
  /\ secret = [d \in Daemons |-> Empty]
  /\ cached = [c \in Cbs |-> Empty]
  /\ pipe = NoDaemon

-----------------------------------------------------------------------------
(* ensureDaemonRunning() *)

Goes(c, from, to) ==
  /\ cb[c] = from
  /\ cb' = [cb EXCEPT ![c] = to]
  /\ rivals' = (rivals \/ (to = "unlink" /\ \E b \in Cbs \ {c} : cb[b] = "unlink"))

\* A probe that takes too long counts as no pipe.
Probe(c) ==
  /\ \/ Goes(c, "idle", "open")
     \/ pipe # NoDaemon /\ Goes(c, "idle", "done")
  /\ UNCHANGED <<lock, old, daemonVars, secretVars, pipe>>

TakesLock(c) == lock' = c /\ old' = FALSE

\* The exclusive create, first or again after the removal of a stale lock.
OpenLock(c) ==
  /\ \/ lock = NoCb /\ TakesLock(c) /\ (Goes(c, "open", "spawn") \/ Goes(c, "reopen", "spawn"))
     \/ lock # NoCb /\ UNCHANGED <<lock, old>>
                    /\ (Goes(c, "open", "stat") \/ Goes(c, "reopen", "foreign"))
  /\ UNCHANGED <<daemonVars, secretVars, pipe>>

\* Fault: no lock is ever taken to be stale.
StatLockFresh(c) ==
  /\ Goes(c, "stat", "foreign")
  /\ UNCHANGED <<lock, old, daemonVars, secretVars, pipe>>

StatLock(c) ==
  /\ Goes(c, "stat", IF lock # NoCb /\ old THEN "unlink" ELSE "foreign")
  /\ UNCHANGED <<lock, old, daemonVars, secretVars, pipe>>

\* It removes whatever lock there is by now.
UnlinkStale(c) ==
  /\ Goes(c, "unlink", IF lock # NoCb THEN "reopen" ELSE "foreign")
  /\ lock' = NoCb
  /\ old' = FALSE
  /\ UNCHANGED <<daemonVars, secretVars, pipe>>

\* A process of the daemon is started.
NewDaemon ==
  /\ spawned < MaxDaemons
  /\ spawned' = spawned + 1
  /\ daemon' = [daemon EXCEPT ![spawned + 1] = "check"]

SpawnDetached(c) ==
  /\ Goes(c, "spawn", "polling")
  /\ NewDaemon
  /\ UNCHANGED <<lock, old, secretVars, pipe>>

\* Fault: whoever gives up polling releases the lock.
ReleasesAlways == {"spawn", "polling", "foreign"}

\* The stages that end in releaseSpawnLock().
Releases == {"spawn", "polling"}

\* Fault: who finds a lock waits until it is gone.
FinishWaits(c) ==
  /\ \/ lock = NoCb /\ Goes(c, "foreign", "done")
     \/ Goes(c, "spawn", "done")
     \/ Goes(c, "polling", "done")
  /\ lock' = IF cb[c] \in Releases THEN NoCb ELSE lock
  /\ old' = (old /\ lock' # NoCb)
  /\ UNCHANGED <<daemonVars, secretVars, pipe>>

\* The poll succeeds or times out, or the spawn failed.
Finish(c) ==
  /\ \E s \in {"spawn", "polling", "foreign"} : Goes(c, s, "done")
  /\ lock' = IF cb[c] \in Releases THEN NoCb ELSE lock
  /\ old' = (old /\ lock' # NoCb)
  /\ UNCHANGED <<daemonVars, secretVars, pipe>>

\* A holder is done within the age that makes a lock stale, unless it was killed.
LockAges ==
  /\ lock # NoCb
  /\ cb[lock] = "killed"
  /\ ~old
  /\ old' = TRUE
  /\ UNCHANGED <<cb, lock, rivals, daemonVars, secretVars, pipe>>

\* A cb's pipe client reads the secret, again and again until there is one.
ReadByClient(c) ==
  /\ cb[c] \notin {"idle", "killed"}
  /\ cached[c] = Empty
  /\ secretFile \notin {Absent, Empty}
  /\ cached' = [cached EXCEPT ![c] = secretFile]
  /\ UNCHANGED <<lockVars, daemonVars, secretFile, secret, pipe>>

KillCb(c) ==
  /\ \E s \in CbStages \ {"idle", "done", "killed"} : Goes(c, s, "killed")
  /\ UNCHANGED <<lock, old, daemonVars, secretVars, pipe>>

\* bridge-mcp finds no pipe: it spawns at once.
McpSpawns ==
  /\ pipe = NoDaemon
  /\ NewDaemon
  /\ UNCHANGED <<lockVars, secretVars, pipe>>

-----------------------------------------------------------------------------
(* The daemon *)

Steps(d, from, to) ==
  /\ daemon[d] = from
  /\ daemon' = [daemon EXCEPT ![d] = to]
  /\ UNCHANGED spawned

\* initDaemonSecret(): does the file exist?
CheckSecret(d) ==
  /\ Steps(d, "check", IF secretFile = Absent THEN "create" ELSE "read")
  /\ UNCHANGED <<lockVars, secretVars, pipe>>

\* Fault: the file is opened for writing, whether it exists or not.
CreateSecretAnyway(d) ==
  /\ Steps(d, "create", "write")
  /\ secretFile' = Empty
  /\ UNCHANGED <<lockVars, secret, cached, pipe>>

\* Fault: who loses the exclusive create, as another daemon has won, gives up.
CreateSecretOrLeave(d) ==
  /\ \/ secretFile = Absent /\ Steps(d, "create", "write") /\ secretFile' = Empty
     \/ secretFile # Absent /\ Steps(d, "create", "exited") /\ UNCHANGED secretFile
  /\ UNCHANGED <<lockVars, secret, cached, pipe>>

\* The exclusive create, which leaves the file empty.
CreateSecret(d) ==
  /\ \/ secretFile = Absent /\ Steps(d, "create", "write") /\ secretFile' = Empty
     \/ secretFile # Absent /\ Steps(d, "create", "read") /\ UNCHANGED secretFile
  /\ UNCHANGED <<lockVars, secret, cached, pipe>>

WriteSecret(d) ==
  /\ Steps(d, "write", "bind")
  /\ secretFile' = d
  /\ secret' = [secret EXCEPT ![d] = d]
  /\ UNCHANGED <<lockVars, cached, pipe>>

\* An empty file ends the process.
ReadSecret(d) ==
  /\ \/ /\ secretFile \in Daemons
        /\ Steps(d, "read", "bind")
        /\ secret' = [secret EXCEPT ![d] = secretFile]
     \/ secretFile \notin Daemons /\ Steps(d, "read", "failed") /\ UNCHANGED secret
  /\ UNCHANGED <<lockVars, secretFile, cached, pipe>>

Bind(d) ==
  /\ \/ pipe = NoDaemon /\ Steps(d, "bind", "listening") /\ pipe' = d
     \/ pipe # NoDaemon /\ Steps(d, "bind", "exited") /\ UNCHANGED pipe
  /\ UNCHANGED <<lockVars, secretVars>>

\* Idle shutdown or a signal: the pipe is free again.
Stop(d) ==
  /\ Steps(d, "listening", "exited")
  /\ pipe' = NoDaemon
  /\ UNCHANGED <<lockVars, secretVars>>

KillDaemon(d) ==
  /\ \E s \in DaemonStages \ {"none", "exited", "failed", "killed"} : Steps(d, s, "killed")
  /\ pipe' = IF pipe = d THEN NoDaemon ELSE pipe
  /\ UNCHANGED <<lockVars, secretVars>>

-----------------------------------------------------------------------------

CbSteps(c) ==
  \/ OpenLock(c) \/ StatLock(c) \/ UnlinkStale(c) \/ SpawnDetached(c) \/ Finish(c)

Boots(d) == CheckSecret(d) \/ CreateSecret(d) \/ WriteSecret(d) \/ ReadSecret(d) \/ Bind(d)

Next ==
  \/ \E c \in Cbs : Probe(c) \/ CbSteps(c) \/ KillCb(c)
  \/ \E c \in Readers : ReadByClient(c)
  \/ LockAges
  \/ McpSpawns
  \/ \E d \in Daemons : Boots(d) \/ Stop(d) \/ KillDaemon(d)

\* A process that runs goes on, and its polls have deadlines.
Fairness ==
  /\ \A c \in Cbs : WF_vars(CbSteps(c))
  /\ \A d \in Daemons : WF_vars(Boots(d))

Spec == Init /\ [][Next]_vars
FairSpec == Spec /\ Fairness

-----------------------------------------------------------------------------
(* Properties *)

Holders == {c \in Cbs : cb[c] \in {"spawn", "polling"}}

\* The spawn lock excludes, over deaths of its holders and removals of what they left
\* behind: who believes to hold it created the file that is there, and is alone. Only two
\* cbs that find the same stale lock and both remove it can break that.
HolderOwnsLock ==
  ~rivals => \A c \in Holders : lock = c

\* Daemons that race, die or come later agree on the secret: whoever has one, daemon or
\* client, has the one of the file, so a client's cached secret outlives a restart.
SecretAgreed ==
  /\ \A d \in Daemons : daemon[d] \in {"bind", "listening"} => secret[d] = secretFile
  /\ \A c \in Cbs : cached[c] # Empty => cached[c] = secretFile

\* Whatever is killed or left behind, a cb does not wait for ever.
StarterEnds ==
  \A c \in Cbs : cb[c] = "open" ~> cb[c] \in {"done", "killed"}

\* Nor does the lock of a killed holder: it does not survive a cb that finds it when it is
\* old, unless that cb is killed as well.
StaleLockYields ==
  \A c \in Cbs : cb[c] = "open" /\ old ~> ~old \/ cb[c] = "killed"

\* Once a daemon is spawned one listens. All that keeps it from coming up is that it is
\* killed itself, or that it reads the secret file of a daemon killed before it had
\* written it, or while it had.
DaemonComesUp ==
  \A d \in Daemons : daemon[d] = "check" ~>
    \/ pipe # NoDaemon
    \/ daemon[d] = "killed"
    \/ daemon[d] = "failed" /\ \E e \in Daemons : daemon[e] = "killed" /\ secretFile \in {Empty, e}
=============================================================================
