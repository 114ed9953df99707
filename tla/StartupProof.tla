----------------------------- MODULE StartupProof -----------------------------
(***************************************************************************)
(* The secret that all processes agree on and the exclusion of the spawn   *)
(* lock, for any number of terminals and daemons.                          *)
(***************************************************************************)
EXTENDS Startup, TLAPS

\* What an exclusive create protects: one daemon is about to write the file, which is
\* empty until then; who has a secret has it from the file.
SecretInv ==
  /\ TypeOK
  /\ SecretAgreed
  /\ \A d \in Daemons : daemon[d] = "write" => secretFile = Empty
  /\ \A d, e \in Daemons : daemon[d] = "write" /\ daemon[e] = "write" => d = e

\* A lock that is about to be removed as stale is still the one that was found, and its
\* holder is dead: nobody holds it when it goes.
LockInv ==
  ~rivals =>
    /\ \A a, b \in Cbs : cb[a] = "unlink" /\ cb[b] = "unlink" => a = b
    /\ \A c \in Cbs : cb[c] = "unlink" => lock # NoCb /\ old
    /\ old => lock \in Cbs /\ cb[lock] = "killed"
    /\ \A c \in Holders : lock = c

LEMMA Numbers ==
  /\ Empty \notin Daemons
  /\ Absent \notin Daemons
  /\ Empty # Absent
BY DEF Empty, Absent, Daemons

LEMMA SecretInit == Init => SecretInv
<1> SUFFICES ASSUME Init PROVE SecretInv
  OBVIOUS
<1>1. spawned \in 0..MaxDaemons
  BY BoundAssumption DEF Init
<1>2. TypeOK
  BY <1>1 DEF Init, TypeOK, CbStages, DaemonStages
<1> QED BY <1>2 DEF Init, SecretInv, SecretAgreed

\* Types of what moves a cb.
LEMMA GoesType ==
  ASSUME TypeOK, NEW c \in Cbs, NEW from, NEW to \in CbStages, Goes(c, from, to)
  PROVE  cb' \in [Cbs -> CbStages] /\ rivals' \in BOOLEAN
BY DEF Goes, TypeOK

\* A step that leaves the daemons and the secrets alone.
LEMMA SecretsKept ==
  ASSUME SecretInv, UNCHANGED <<daemonVars, secretVars, pipe>>,
         cb' \in [Cbs -> CbStages], lock' \in Cbs \union {NoCb}, old' \in BOOLEAN,
         rivals' \in BOOLEAN
  PROVE  SecretInv'
<1>1. TypeOK'
  BY DEF SecretInv, TypeOK, daemonVars, secretVars
<1> QED BY <1>1 DEF SecretInv, SecretAgreed, daemonVars, secretVars

\* A step of one daemon that neither starts nor ends a write of the file.
LEMMA DaemonGoesOn ==
  ASSUME SecretInv, NEW d \in Daemons, NEW from, NEW to \in DaemonStages,
         Steps(d, from, to), to # "write",
         UNCHANGED <<lockVars, secretFile, cached>>,
         secret' \in [Daemons -> Daemons \union {Empty}],
         \A e \in Daemons : e # d => secret'[e] = secret[e],
         to \in {"bind", "listening"} => secret'[d] = secretFile /\ secret'[d] # Empty,
         pipe' \in Daemons \union {NoDaemon}
  PROVE  SecretInv'
<1>1. \A e \in Daemons : daemon'[e] = IF e = d THEN to ELSE daemon[e]
  BY DEF Steps, SecretInv, TypeOK
<1>2. daemon' \in [Daemons -> DaemonStages] /\ spawned' = spawned
  BY DEF Steps, SecretInv, TypeOK
<1>3. UNCHANGED <<cb, lock, old, rivals>>
  BY DEF lockVars
<1>4. \A e \in Daemons : daemon'[e] \in {"bind", "listening"} => secret'[e] # Empty
  BY <1>1 DEF SecretInv, TypeOK
<1>5. TypeOK'
  BY <1>2, <1>3, <1>4 DEF SecretInv, TypeOK
<1>6. SecretAgreed'
  BY <1>1 DEF SecretInv, SecretAgreed
<1>7. \A e \in Daemons : daemon'[e] = "write" => daemon[e] = "write"
  BY <1>1
<1> QED BY <1>5, <1>6, <1>7 DEF SecretInv

LEMMA SecretStep ==
  ASSUME SecretInv, [Next]_vars
  PROVE  SecretInv'
<1>0. TypeOK /\ SecretAgreed
  BY DEF SecretInv
<1>1. ASSUME NEW c \in Cbs, Probe(c) PROVE SecretInv'
  <2>1. cb' \in [Cbs -> CbStages] /\ rivals' \in BOOLEAN
    BY <1>0, <1>1, GoesType DEF Probe, CbStages
  <2> QED BY <1>0, <1>1, <2>1, SecretsKept DEF Probe, TypeOK
<1>2. ASSUME NEW c \in Cbs, OpenLock(c) PROVE SecretInv'
  <2>1. cb' \in [Cbs -> CbStages] /\ rivals' \in BOOLEAN
    BY <1>0, <1>2, GoesType DEF OpenLock, CbStages
  <2>2. lock' \in Cbs \union {NoCb} /\ old' \in BOOLEAN
    BY <1>0, <1>2 DEF OpenLock, TakesLock, TypeOK
  <2> QED BY <1>2, <2>1, <2>2, SecretsKept DEF OpenLock
<1>3. ASSUME NEW c \in Cbs, StatLock(c) PROVE SecretInv'
  <2>1. cb' \in [Cbs -> CbStages] /\ rivals' \in BOOLEAN
    BY <1>0, <1>3, GoesType DEF StatLock, CbStages
  <2> QED BY <1>0, <1>3, <2>1, SecretsKept DEF StatLock, TypeOK
<1>4. ASSUME NEW c \in Cbs, UnlinkStale(c) PROVE SecretInv'
  <2>1. cb' \in [Cbs -> CbStages] /\ rivals' \in BOOLEAN
    BY <1>0, <1>4, GoesType DEF UnlinkStale, CbStages
  <2> QED BY <1>4, <2>1, SecretsKept DEF UnlinkStale
<1>5. ASSUME NewDaemon, UNCHANGED <<secretVars, pipe>>,
             cb' \in [Cbs -> CbStages], rivals' \in BOOLEAN, lock' = lock, old' = old
      PROVE  SecretInv'
  <2>1. spawned + 1 \in Daemons /\ spawned' \in 0..MaxDaemons
    BY <1>0, <1>5, BoundAssumption DEF NewDaemon, TypeOK, Daemons
  <2>2. \A e \in Daemons : daemon'[e] = IF e = spawned + 1 THEN "check" ELSE daemon[e]
    BY <1>0, <1>5 DEF NewDaemon, TypeOK
  <2>3. daemon' \in [Daemons -> DaemonStages]
    BY <1>0, <1>5 DEF NewDaemon, TypeOK, DaemonStages
  <2>4. \A e \in Daemons : daemon'[e] # "check" => daemon'[e] = daemon[e]
    BY <2>2
  <2>5. UNCHANGED <<secretFile, secret, cached>>
    BY <1>5 DEF secretVars
  <2>6. TypeOK'
    BY <1>0, <1>5, <2>1, <2>3, <2>4, <2>5 DEF TypeOK
  <2>7. SecretAgreed'
    BY <1>0, <2>4, <2>5 DEF SecretAgreed
  <2> QED BY <2>4, <2>5, <2>6, <2>7 DEF SecretInv
<1>6. ASSUME NEW c \in Cbs, SpawnDetached(c) PROVE SecretInv'
  <2>1. cb' \in [Cbs -> CbStages] /\ rivals' \in BOOLEAN
    BY <1>0, <1>6, GoesType DEF SpawnDetached, CbStages
  <2> QED BY <1>5, <1>6, <2>1 DEF SpawnDetached
<1>7. ASSUME NEW c \in Cbs, Finish(c) PROVE SecretInv'
  <2>1. cb' \in [Cbs -> CbStages] /\ rivals' \in BOOLEAN
    BY <1>0, <1>7, GoesType DEF Finish, CbStages
  <2>2. lock' \in Cbs \union {NoCb} /\ old' \in BOOLEAN
    BY <1>0, <1>7 DEF Finish, TypeOK
  <2> QED BY <1>7, <2>1, <2>2, SecretsKept DEF Finish
<1>8. CASE LockAges
  BY <1>0, <1>8, SecretsKept DEF LockAges, TypeOK
<1>9. ASSUME NEW c \in Readers, ReadByClient(c) PROVE SecretInv'
  <2>1. secretFile \in Daemons /\ c \in Cbs
    BY <1>0, <1>9, ReadersAssumption DEF ReadByClient, TypeOK
  <2>2. cached' \in [Cbs -> Daemons \union {Empty}]
    BY <1>0, <1>9, <2>1 DEF ReadByClient, TypeOK
  <2>3. UNCHANGED <<cb, lock, old, rivals, daemon, spawned, secretFile, secret, pipe>>
    BY <1>9 DEF ReadByClient, lockVars, daemonVars
  <2>4. TypeOK'
    BY <1>0, <2>2, <2>3 DEF TypeOK
  <2>5. SecretAgreed'
    BY <1>0, <1>9, <2>3 DEF SecretAgreed, ReadByClient, TypeOK
  <2> QED BY <2>3, <2>4, <2>5 DEF SecretInv
<1>10. ASSUME NEW c \in Cbs, KillCb(c) PROVE SecretInv'
  <2>1. cb' \in [Cbs -> CbStages] /\ rivals' \in BOOLEAN
    BY <1>0, <1>10, GoesType DEF KillCb, CbStages
  <2> QED BY <1>0, <1>10, <2>1, SecretsKept DEF KillCb, TypeOK
<1>11. CASE McpSpawns
  BY <1>0, <1>5, <1>11 DEF McpSpawns, lockVars, TypeOK
<1>12. ASSUME NEW d \in Daemons, CheckSecret(d) PROVE SecretInv'
  <2>1. PICK to \in {"create", "read"} : Steps(d, "check", to)
    BY <1>12 DEF CheckSecret
  <2> QED BY <1>0, <1>12, <2>1, DaemonGoesOn DEF CheckSecret, secretVars, TypeOK, DaemonStages
<1>13. ASSUME NEW d \in Daemons, CreateSecret(d) PROVE SecretInv'
  <2>1. CASE secretFile = Absent /\ Steps(d, "create", "write") /\ secretFile' = Empty
    <3>1. \A e \in Daemons : daemon'[e] = IF e = d THEN "write" ELSE daemon[e]
      BY <1>0, <2>1 DEF Steps, TypeOK
    <3>2. UNCHANGED <<cb, lock, old, rivals, spawned, secret, cached, pipe>>
      BY <1>13, <2>1 DEF CreateSecret, lockVars, Steps
    <3>3. daemon' \in [Daemons -> DaemonStages]
      BY <1>0, <2>1 DEF Steps, TypeOK, DaemonStages
    <3>4. TypeOK'
      BY <1>0, <2>1, <3>1, <3>2, <3>3 DEF TypeOK
    <3>5. \A e \in Daemons : daemon[e] \notin {"write", "bind", "listening"}
      BY <1>0, <2>1, Numbers DEF SecretInv, SecretAgreed, TypeOK
    <3>6. \A c \in Cbs : cached[c] = Empty
      BY <1>0, <2>1, Numbers DEF SecretAgreed, TypeOK
    <3>7. SecretAgreed'
      BY <3>1, <3>2, <3>5, <3>6 DEF SecretAgreed
    <3> QED BY <2>1, <3>1, <3>4, <3>5, <3>7 DEF SecretInv
  <2>2. CASE Steps(d, "create", "read") /\ UNCHANGED secretFile
    BY <1>0, <1>13, <2>2, DaemonGoesOn DEF CreateSecret, TypeOK, DaemonStages
  <2> QED BY <1>13, <2>1, <2>2 DEF CreateSecret
<1>14. ASSUME NEW d \in Daemons, WriteSecret(d) PROVE SecretInv'
  <2>1. \A e \in Daemons : daemon'[e] = IF e = d THEN "bind" ELSE daemon[e]
    BY <1>0, <1>14 DEF WriteSecret, Steps, TypeOK
  <2>2. secretFile = Empty /\ secretFile' = d
    BY <1>14 DEF WriteSecret, Steps, SecretInv
  <2>3. \A e \in Daemons : daemon[e] \notin {"bind", "listening"}
    BY <1>0, <2>2 DEF SecretAgreed, TypeOK
  <2>4. \A c \in Cbs : cached[c] = Empty
    BY <1>0, <2>2 DEF SecretAgreed
  <2>5. secret'[d] = d /\ secret' \in [Daemons -> Daemons \union {Empty}]
    BY <1>0, <1>14 DEF WriteSecret, TypeOK
  <2>6. UNCHANGED <<cb, lock, old, rivals, spawned, cached, pipe>>
    BY <1>14 DEF WriteSecret, lockVars, Steps
  <2>7. daemon' \in [Daemons -> DaemonStages]
    BY <1>0, <1>14 DEF WriteSecret, Steps, TypeOK, DaemonStages
  <2>8. \A e \in Daemons : daemon'[e] \in {"bind", "listening"} => e = d
    BY <2>1, <2>3
  <2>9. TypeOK'
    BY <1>0, <2>2, <2>5, <2>6, <2>7, <2>8, Numbers DEF TypeOK
  <2>10. SecretAgreed'
    BY <2>2, <2>4, <2>5, <2>6, <2>8 DEF SecretAgreed
  <2>11. \A e \in Daemons : daemon'[e] # "write"
    BY <1>14, <2>1 DEF WriteSecret, Steps, SecretInv
  <2> QED BY <2>9, <2>10, <2>11 DEF SecretInv
<1>15. ASSUME NEW d \in Daemons, ReadSecret(d) PROVE SecretInv'
  <2>1. CASE /\ secretFile \in Daemons
             /\ Steps(d, "read", "bind")
             /\ secret' = [secret EXCEPT ![d] = secretFile]
    <3>1. secret' \in [Daemons -> Daemons \union {Empty}] /\ secret'[d] = secretFile
      BY <1>0, <2>1 DEF TypeOK
    <3>2. \A e \in Daemons : e # d => secret'[e] = secret[e]
      BY <1>0, <2>1 DEF TypeOK
    <3>3. secretFile # Empty
      BY <2>1, Numbers
    <3> QED BY <1>0, <1>15, <2>1, <3>1, <3>2, <3>3, DaemonGoesOn
            DEF ReadSecret, TypeOK, DaemonStages
  <2>2. CASE Steps(d, "read", "failed") /\ UNCHANGED secret
    BY <1>0, <1>15, <2>2, DaemonGoesOn DEF ReadSecret, TypeOK, DaemonStages
  <2> QED BY <1>15, <2>1, <2>2 DEF ReadSecret
<1>16. ASSUME NEW d \in Daemons, Bind(d) PROVE SecretInv'
  <2>1. PICK to \in {"listening", "exited"} : Steps(d, "bind", to)
    BY <1>16 DEF Bind
  <2>2. secret[d] = secretFile /\ secret[d] # Empty
    BY <1>0, <2>1 DEF Steps, SecretAgreed, TypeOK
  <2>3. pipe' \in Daemons \union {NoDaemon}
    BY <1>0, <1>16 DEF Bind, TypeOK
  <2> QED BY <1>0, <1>16, <2>1, <2>2, <2>3, DaemonGoesOn DEF Bind, secretVars, TypeOK, DaemonStages
<1>17. ASSUME NEW d \in Daemons, Stop(d) PROVE SecretInv'
  BY <1>0, <1>17, DaemonGoesOn DEF Stop, secretVars, TypeOK, DaemonStages
<1>18. ASSUME NEW d \in Daemons, KillDaemon(d) PROVE SecretInv'
  <2>1. PICK s : Steps(d, s, "killed")
    BY <1>18 DEF KillDaemon
  <2>2. pipe' \in Daemons \union {NoDaemon}
    BY <1>0, <1>18 DEF KillDaemon, TypeOK
  <2> QED BY <1>0, <1>18, <2>1, <2>2, DaemonGoesOn DEF KillDaemon, secretVars, TypeOK, DaemonStages
<1>19. CASE UNCHANGED vars
  BY <1>0, <1>19, SecretsKept DEF vars, lockVars, TypeOK
<1> QED BY <1>1, <1>2, <1>3, <1>4, <1>6, <1>7, <1>8, <1>9, <1>10, <1>11, <1>12, <1>13, <1>14,
           <1>15, <1>16, <1>17, <1>18, <1>19 DEF Next, CbSteps, Boots

\* The state is well typed, and a daemon that binds the pipe has a secret.
THEOREM TypeCorrect == Spec => []TypeOK
<1>1. SecretInv => TypeOK
  BY DEF SecretInv
<1> QED BY <1>1, SecretInit, SecretStep, PTL DEF Spec

\* Every daemon that listens and every client hold the secret of the file, whatever race
\* the daemons that start may run and whoever is killed.
THEOREM SecretsAgree == Spec => []SecretAgreed
<1>1. SecretInv => SecretAgreed
  BY DEF SecretInv
<1> QED BY <1>1, SecretInit, SecretStep, PTL DEF Spec

-----------------------------------------------------------------------------
(* The spawn lock *)

LEMMA LockStep ==
  ASSUME TypeOK, LockInv, [Next]_vars
  PROVE  LockInv'
<1> DEFINE Kept == /\ \A a, b \in Cbs : cb'[a] = "unlink" /\ cb'[b] = "unlink" => a = b
                   /\ \A c \in Cbs : cb'[c] = "unlink" => lock' # NoCb /\ old'
                   /\ old' => lock' \in Cbs /\ cb'[lock'] = "killed"
                   /\ \A c \in Cbs : cb'[c] \in {"spawn", "polling"} => lock' = c
<1> SUFFICES ASSUME ~rivals' PROVE Kept
  BY DEF LockInv, Holders
<1>1. ASSUME NEW c \in Cbs, NEW from, NEW to, Goes(c, from, to)
      PROVE  /\ cb[c] = from /\ cb'[c] = to /\ ~rivals
             /\ \A d \in Cbs : d # c => cb'[d] = cb[d]
             /\ to = "unlink" => \A d \in Cbs : d # c => cb[d] # "unlink"
  BY <1>1 DEF Goes, TypeOK
<1>2. ASSUME ~rivals
      PROVE  /\ \A a, b \in Cbs : cb[a] = "unlink" /\ cb[b] = "unlink" => a = b
             /\ \A c \in Cbs : cb[c] = "unlink" => lock # NoCb /\ old
             /\ old => lock \in Cbs /\ cb[lock] = "killed"
             /\ \A c \in Cbs : cb[c] \in {"spawn", "polling"} => lock = c
  BY <1>2 DEF LockInv, Holders
\* A cb that goes elsewhere than to the removal or to the lock, while this stays.
<1>3. ASSUME NEW c \in Cbs, NEW from, NEW to, Goes(c, from, to), UNCHANGED <<lock, old>>,
             from # "killed", to # "unlink",
             to \in {"spawn", "polling"} => from \in {"spawn", "polling"}
      PROVE  Kept
  BY <1>1, <1>2, <1>3
<1>4. ASSUME NEW c \in Cbs, Probe(c) PROVE Kept
  BY <1>3, <1>4 DEF Probe
<1>5. ASSUME NEW c \in Cbs, OpenLock(c) PROVE Kept
  <2>1. CASE lock = NoCb /\ TakesLock(c) /\ (Goes(c, "open", "spawn") \/ Goes(c, "reopen", "spawn"))
    <3>1. cb'[c] = "spawn" /\ ~rivals /\ \A d \in Cbs : d # c => cb'[d] = cb[d]
      BY <1>1, <2>1
    <3>2. \A d \in Cbs : cb[d] \notin {"unlink", "spawn", "polling"}
      BY <1>2, <2>1, <3>1, NoCbAssumption
    <3> QED BY <2>1, <3>1, <3>2 DEF TakesLock
  <2>2. CASE UNCHANGED <<lock, old>> /\ (Goes(c, "open", "stat") \/ Goes(c, "reopen", "foreign"))
    BY <1>3, <2>2
  <2> QED BY <1>5, <2>1, <2>2 DEF OpenLock
<1>6. ASSUME NEW c \in Cbs, StatLock(c) PROVE Kept
  <2>1. UNCHANGED <<lock, old>>
    BY <1>6 DEF StatLock
  <2>2. CASE lock # NoCb /\ old
    <3>1. Goes(c, "stat", "unlink")
      BY <1>6, <2>2 DEF StatLock
    <3>2. /\ cb[c] = "stat" /\ cb'[c] = "unlink" /\ ~rivals
          /\ \A d \in Cbs : d # c => cb'[d] = cb[d] /\ cb[d] # "unlink"
      BY <1>1, <3>1
    <3> QED BY <1>2, <2>1, <2>2, <3>2
  <2>3. CASE ~(lock # NoCb /\ old)
    <3>1. Goes(c, "stat", "foreign")
      BY <1>6, <2>3 DEF StatLock
    <3> QED BY <1>3, <2>1, <3>1
  <2> QED BY <2>2, <2>3
<1>7. ASSUME NEW c \in Cbs, UnlinkStale(c) PROVE Kept
  <2>1. PICK to \in {"reopen", "foreign"} : Goes(c, "unlink", to)
    BY <1>7 DEF UnlinkStale
  <2>2. /\ cb[c] = "unlink" /\ cb'[c] \in {"reopen", "foreign"} /\ ~rivals
        /\ \A d \in Cbs : d # c => cb'[d] = cb[d]
    BY <1>1, <2>1
  <2>3. \A d \in Cbs : cb[d] \notin {"spawn", "polling"}
    BY <1>2, <2>2
  <2>4. \A d \in Cbs : cb'[d] \notin {"unlink", "spawn", "polling"}
    BY <1>2, <2>2, <2>3
  <2> QED BY <1>7, <2>4 DEF UnlinkStale
<1>8. ASSUME NEW c \in Cbs, SpawnDetached(c) PROVE Kept
  BY <1>3, <1>8 DEF SpawnDetached
<1>9. ASSUME NEW c \in Cbs, Finish(c) PROVE Kept
  <2>1. PICK s \in {"spawn", "polling", "foreign"} : Goes(c, s, "done")
    BY <1>9 DEF Finish
  <2>2. /\ cb[c] = s /\ cb'[c] = "done" /\ ~rivals
        /\ \A d \in Cbs : d # c => cb'[d] = cb[d]
    BY <1>1, <2>1
  <2>3. CASE cb[c] \in Releases
    <3>1. lock = c /\ lock' = NoCb /\ ~old'
      BY <1>2, <1>9, <2>2, <2>3 DEF Finish, Releases
    <3>2. ~old
      BY <1>2, <2>2, <2>3, <3>1 DEF Releases
    <3>3. \A d \in Cbs : cb'[d] \notin {"unlink", "spawn", "polling"}
      BY <1>2, <2>2, <3>1, <3>2
    <3> QED BY <3>1, <3>3
  <2>4. CASE cb[c] \notin Releases
    <3>1. lock' = lock /\ old' = (old /\ lock # NoCb)
      BY <1>9, <2>4 DEF Finish
    <3>2. old' => old
      BY <3>1
    <3>3. \A d \in Cbs : cb'[d] \in {"unlink", "spawn", "polling", "killed"} => cb'[d] = cb[d]
      BY <2>2
    <3>4. \A d \in Cbs : cb[d] = "killed" => cb'[d] = "killed"
      BY <2>2
    <3> QED BY <1>2, <2>2, <3>1, <3>2, <3>3, <3>4
  <2> QED BY <2>3, <2>4
<1>10. ASSUME NEW c \in Cbs, KillCb(c) PROVE Kept
  <2>1. PICK s \in CbStages \ {"idle", "done", "killed"} : Goes(c, s, "killed")
    BY <1>10 DEF KillCb
  <2> QED BY <1>3, <1>10, <2>1 DEF KillCb
<1>11. CASE LockAges
  BY <1>2, <1>11 DEF LockAges, TypeOK
<1>12. ASSUME UNCHANGED lockVars PROVE Kept
  BY <1>2, <1>12 DEF lockVars
<1>13. CASE McpSpawns \/ UNCHANGED vars
  BY <1>12, <1>13 DEF McpSpawns, vars
<1>14. CASE \E c \in Readers : ReadByClient(c)
  BY <1>12, <1>14 DEF ReadByClient
<1>15. CASE \E d \in Daemons : Boots(d) \/ Stop(d) \/ KillDaemon(d)
  BY <1>12, <1>15
     DEF Boots, CheckSecret, CreateSecret, WriteSecret, ReadSecret, Bind, Stop, KillDaemon
<1> QED BY <1>4, <1>5, <1>6, <1>7, <1>8, <1>9, <1>10, <1>11, <1>13, <1>14, <1>15
        DEF Next, CbSteps

\* The spawn lock excludes, whoever is killed and whatever is removed as stale: its holder
\* is alone and the file is the one it created, until two cbs remove a stale lock at once.
THEOREM LockExcludes == Spec => []HolderOwnsLock
<1>1. Init => LockInv
  BY DEF Init, LockInv, Holders
<1>2. LockInv => HolderOwnsLock
  BY DEF LockInv, HolderOwnsLock
<1>3. SecretInv => TypeOK
  BY DEF SecretInv
<1>4. SecretInv /\ LockInv /\ [Next]_vars => LockInv'
  BY <1>3, LockStep
<1> QED BY <1>1, <1>2, <1>4, SecretInit, SecretStep, PTL DEF Spec
=============================================================================
