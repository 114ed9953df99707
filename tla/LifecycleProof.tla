---------------------------- MODULE LifecycleProof ----------------------------
(***************************************************************************)
(* The safety properties of Lifecycle, for any set of terminals, any       *)
(* number of daemons and any limit of the history.                         *)
(***************************************************************************)
EXTENDS Lifecycle, FiniteSetTheorems, TLAPS

\* A daemon that has not loaded the history has no sessions, and who saves is up.
Booting ==
  /\ TypeOK
  /\ \A d \in Daemons : stage[d] \in {"none", "load"} =>
       \A c \in Cbs : role[d][c] = "none" /\ status[d][c] = "absent"
  /\ \A d \in Daemons : Blocked(d) => stage[d] \in {"bind", "serving", "closing"}

\* A connection of role cb has a live session, and only such a connection.
Served ==
  \A d \in Daemons : Up(d) => \A c \in Cbs : role[d][c] = "cb" <=> status[d][c] = "alive"

KnownInv == Booting /\ Served /\ HistoryKnowsLive

LEMMA EvictKeepsLive ==
  ASSUME NEW h \in History, NEW g \in Evict(h)
  PROVE  g \in History /\ Live(g) = Live(h)
BY DEF Evict

LEMMA NothingIsHistory == Nothing \in History
BY DEF Nothing, History

LEMMA NoDaemonIsNone == NoDaemon \notin Daemons
BY DEF NoDaemon, Daemons

LEMMA LoadedIsHistory == TypeOK => Loaded \in History
BY NothingIsHistory DEF Loaded, TypeOK

LEMMA NoneLiveAfterLoad ==
  ASSUME NEW h \in History
  PROVE  /\ AllEnded(h) \in History
         /\ \A c \in Cbs : AllEnded(h)[c] # "live"
         /\ Entries(AllEnded(h)) = Entries(h)
         /\ Live(h) = {} => AllEnded(h) = h
<1>1. AllEnded(h) \in History /\ \A c \in Cbs : AllEnded(h)[c] # "live"
  BY DEF AllEnded, History
<1>2. Entries(AllEnded(h)) = Entries(h)
  BY DEF AllEnded, Entries, History
<1>3. ASSUME Live(h) = {} PROVE AllEnded(h) = h
  <2>1. \A c \in Cbs : h[c] # "live"
    BY <1>3 DEF Live
  <2> QED BY <2>1 DEF AllEnded, History
<1> QED BY <1>1, <1>2, <1>3

-----------------------------------------------------------------------------
(* The history knows the live sessions *)

LEMMA KnownInit == Init => KnownInv
<1> SUFFICES ASSUME Init PROVE KnownInv
  OBVIOUS
<1>1. TypeOK
  <2>1. /\ stage \in [Daemons -> Stages]
        /\ \A d \in Daemons : stage[d] = "serving" <=> pipe = d
    BY NoDaemonIsNone DEF Init, Stages
  <2>2. history \in [Daemons -> History] /\ file \in History \union {Torn}
    BY NothingIsHistory DEF Init
  <2>3. /\ role \in [Daemons -> [Cbs -> {"none", "unknown", "cb"}]]
        /\ status \in [Daemons -> [Cbs -> {"absent", "alive", "dead"}]]
    BY DEF Init
  <2> QED BY <2>1, <2>2, <2>3 DEF Init, TypeOK
<1> QED BY <1>1 DEF Init, KnownInv, Booting, Served, HistoryKnowsLive, Up, Blocked

\* A step of persist() changes the disk only.
LEMMA PersistIsDisk ==
  ASSUME KnownInv, NEW d \in Daemons, Persist(d)
  PROVE  KnownInv'
<1>1. UNCHANGED <<stage, pipe, link, role, status, history, alone>>
  BY DEF Persist, OpenTmp, WriteTmp, RenameTmp, IoStep, connVars
<1>2. /\ io[d] # "none"
      /\ io' \in [Daemons -> {"none", "open", "write", "rename"}]
      /\ \A e \in Daemons : io'[e] # "none" => io[e] # "none"
  <2>1. PICK from \in {"open", "write", "rename"}, to \in {"write", "rename", "none"} :
          IoStep(d, from, to)
    BY DEF Persist, OpenTmp, WriteTmp, RenameTmp
  <2> QED BY <2>1 DEF KnownInv, Booting, TypeOK, IoStep
<1>3. ASSUME NEW old PROVE Written(d, old) \subseteq History \union {Torn}
  BY DEF Written, KnownInv, Booting, TypeOK
<1>4. /\ fd' \in [Daemons -> {"none", "tmp", "file", "gone"}]
      /\ tmp' \in SUBSET (History \union {Torn})
      /\ file' \in History \union {Torn}
  <2>0. TypeOK
    BY DEF KnownInv, Booting
  <2>1. CASE OpenTmp(d)
    BY <2>0, <2>1, NothingIsHistory DEF OpenTmp, TypeOK
  <2>2. CASE WriteTmp(d)
    <3>1. fd' \in [Daemons -> {"none", "tmp", "file", "gone"}]
      BY <2>0, <2>2 DEF WriteTmp, TypeOK
    <3>2. tmp' \in SUBSET (History \union {Torn}) /\ file' \in History \union {Torn}
      BY <2>0, <2>2, <1>3 DEF WriteTmp, TypeOK
    <3> QED BY <3>1, <3>2
  <2>3. CASE RenameTmp(d)
    BY <2>0, <2>3 DEF RenameTmp, TypeOK, Moved
  <2> QED BY <2>1, <2>2, <2>3 DEF Persist
<1>5. TypeOK'
  BY <1>1, <1>2, <1>4 DEF KnownInv, Booting, TypeOK
<1>6. Booting'
  BY <1>1, <1>2, <1>5 DEF KnownInv, Booting, Blocked
<1>7. Served' /\ HistoryKnowsLive'
  BY <1>1 DEF KnownInv, Served, HistoryKnowsLive, Up
<1> QED BY <1>6, <1>7 DEF KnownInv

\* If one entry is set, no other session becomes live or ceases to be.
LEMMA OneEntryChanges ==
  ASSUME TypeOK, NEW d \in Daemons, NEW c \in Cbs, NEW e \in {"live", "ended"},
         NEW H, H = [history[d] EXCEPT ![c] = e], NEW h \in Evict(H)
  PROVE  /\ h \in History
         /\ \A x \in Cbs : h[x] = "live" <=> IF x = c THEN e = "live" ELSE history[d][x] = "live"
<1>1. H \in History /\ \A x \in Cbs : H[x] = IF x = c THEN e ELSE history[d][x]
  BY DEF TypeOK, History
<1>2. h \in History /\ Live(h) = Live(H)
  BY <1>1, EvictKeepsLive
<1>3. \A x \in Cbs : h[x] = "live" <=> H[x] = "live"
  BY <1>2 DEF Live
<1> QED BY <1>1, <1>2, <1>3

LEMMA KnownStep == KnownInv /\ [Next]_vars => KnownInv'
<1> SUFFICES ASSUME KnownInv, [Next]_vars PROVE KnownInv'
  OBVIOUS
<1>0. TypeOK /\ Booting /\ Served /\ HistoryKnowsLive
  BY DEF KnownInv, Booting
<1>1. ASSUME NEW d \in Daemons, Boot(d) PROVE KnownInv'
  <2>1. UNCHANGED <<pipe, link, role, status, history, io, fd, tmp, file>>
    BY <1>1 DEF Boot, connVars, diskVars
  <2>2. stage' = [stage EXCEPT ![d] = "load"] /\ stage[d] = "none"
    BY <1>1 DEF Boot
  <2>3. alone' \in BOOLEAN
    BY <1>0, <1>1 DEF Boot, TypeOK
  <2>4. TypeOK'
    BY <1>0, <2>1, <2>2, <2>3 DEF TypeOK, Stages
  <2>5. Booting'
    BY <1>0, <2>1, <2>2, <2>4 DEF Booting, Blocked, TypeOK
  <2>6. Served' /\ HistoryKnowsLive'
    BY <1>0, <2>1, <2>2 DEF Served, HistoryKnowsLive, Up, TypeOK, Booting
  <2> QED BY <2>5, <2>6 DEF KnownInv
<1>2. ASSUME NEW d \in Daemons, Load(d) PROVE KnownInv'
  <2>1. UNCHANGED <<pipe, link, role, status, fd, tmp, file, alone>>
    BY <1>2 DEF Load, connVars
  <2>2. stage' = [stage EXCEPT ![d] = "bind"] /\ stage[d] = "load"
    BY <1>2 DEF Load
  <2>3. history' = [history EXCEPT ![d] = AllEnded(Loaded)]
    BY <1>2 DEF Load
  <2>4. io' = io \/ io' = [io EXCEPT ![d] = "open"]
    BY <1>2 DEF Load, StartsPersist
  <2>5. AllEnded(Loaded) \in History /\ \A c \in Cbs : AllEnded(Loaded)[c] # "live"
    BY <1>0, LoadedIsHistory, NoneLiveAfterLoad
  <2>6. TypeOK'
    <3>1. stage' \in [Daemons -> Stages] /\ io' \in [Daemons -> {"none", "open", "write", "rename"}]
      BY <1>0, <2>2, <2>4 DEF TypeOK, Stages
    <3>2. history' \in [Daemons -> History]
      BY <1>0, <2>3, <2>5 DEF TypeOK
    <3>3. \A e \in Daemons : stage'[e] = "serving" <=> pipe' = e
      BY <1>0, <2>1, <2>2 DEF TypeOK
    <3> QED BY <1>0, <2>1, <3>1, <3>2, <3>3 DEF TypeOK
  <2>7. Booting'
    BY <1>0, <2>1, <2>2, <2>4, <2>6 DEF Booting, Blocked, TypeOK
  <2>8. Served'
    BY <1>0, <2>1, <2>2 DEF Served, Up, TypeOK
  <2>9. HistoryKnowsLive'
    BY <1>0, <2>1, <2>2, <2>3, <2>5 DEF HistoryKnowsLive, TypeOK, Booting
  <2> QED BY <2>7, <2>8, <2>9 DEF KnownInv
<1>3. ASSUME NEW d \in Daemons, Bind(d) PROVE KnownInv'
  <2>1. UNCHANGED <<link, role, status, history, io, fd, tmp, file, alone>>
    BY <1>3 DEF Bind, connVars, diskVars
  <2>2. /\ stage[d] = "bind" /\ io[d] = "none"
        /\ \/ pipe = NoDaemon /\ pipe' = d /\ stage' = [stage EXCEPT ![d] = "serving"]
           \/ pipe # NoDaemon /\ pipe' = pipe /\ stage' = [stage EXCEPT ![d] = "gone"]
    BY <1>3 DEF Bind, Blocked
  <2>3. TypeOK'
    <3>1. stage' \in [Daemons -> Stages] /\ pipe' \in Daemons \union {NoDaemon}
      BY <1>0, <2>2 DEF TypeOK, Stages
    <3>2. \A e \in Daemons : stage'[e] = "serving" <=> pipe' = e
      BY <1>0, <2>2, NoDaemonIsNone DEF TypeOK
    <3> QED BY <1>0, <2>1, <3>1, <3>2 DEF TypeOK
  <2>4. Booting'
    <3>1. /\ \A e \in Daemons : stage'[e] \in {"none", "load"} => stage[e] \in {"none", "load"}
          /\ \A e \in Daemons : io[e] # "none" => stage'[e] = stage[e]
      BY <1>0, <2>2 DEF TypeOK
    <3> QED BY <1>0, <2>1, <2>3, <3>1 DEF Booting, Blocked
  <2>5. Served' /\ HistoryKnowsLive'
    <3>1. \A e \in Daemons :
            \/ stage'[e] = stage[e]
            \/ stage[e] = "bind" /\ stage'[e] \in {"serving", "gone"}
      BY <1>0, <2>2 DEF TypeOK
    <3> QED BY <1>0, <2>1, <3>1 DEF Served, HistoryKnowsLive, Up
  <2> QED BY <2>4, <2>5 DEF KnownInv
<1>4. ASSUME NEW d \in Daemons, Persist(d) PROVE KnownInv'
  BY <1>4, PersistIsDisk
<1>5. ASSUME NEW d \in Daemons, IdleShutdown(d) \/ Signal(d) \/ Exit(d) PROVE KnownInv'
  <2>1. UNCHANGED <<role, status, history, io, fd, tmp, file, alone>>
    BY <1>5 DEF IdleShutdown, Signal, Exit, connVars, diskVars
  <2>2. \/ /\ stage[d] = "serving" /\ stage' = [stage EXCEPT ![d] = "closing"]
           /\ pipe' = NoDaemon
        \/ /\ stage[d] = "closing" /\ stage' = [stage EXCEPT ![d] = "gone"]
           /\ pipe' = pipe /\ io[d] = "none"
    BY <1>5 DEF IdleShutdown, Signal, Exit, Closes, Blocked
  <2>3. link' \in [Cbs -> Daemons \union {NoDaemon}]
    <3>1. CASE IdleShutdown(d) \/ Exit(d)
      BY <1>0, <3>1 DEF IdleShutdown, Exit, connVars, TypeOK
    <3>2. CASE Signal(d)
      BY <1>0, <3>2 DEF Signal, TypeOK
    <3> QED BY <1>5, <3>1, <3>2
  <2>4. TypeOK'
    <3>1. stage' \in [Daemons -> Stages] /\ pipe' \in Daemons \union {NoDaemon}
      BY <1>0, <2>2 DEF TypeOK, Stages
    <3>2. \A e \in Daemons : stage'[e] = "serving" <=> pipe' = e
      BY <1>0, <2>2, NoDaemonIsNone DEF TypeOK
    <3> QED BY <1>0, <2>1, <2>3, <3>1, <3>2 DEF TypeOK
  <2>5. Booting'
    <3>1. /\ \A e \in Daemons : stage'[e] \in {"none", "load"} => stage[e] \in {"none", "load"}
          /\ \A e \in Daemons : io[e] # "none" => stage'[e] \in {stage[e], "closing"}
      BY <1>0, <2>2 DEF TypeOK
    <3> QED BY <1>0, <2>1, <2>4, <3>1 DEF Booting, Blocked
  <2>6. Served' /\ HistoryKnowsLive'
    BY <1>0, <2>1, <2>2 DEF Served, HistoryKnowsLive, Up, TypeOK
  <2> QED BY <2>5, <2>6 DEF KnownInv
<1>6. ASSUME NEW d \in Daemons, Kill(d) PROVE KnownInv'
  <2>1. UNCHANGED <<status, history, tmp, file, alone>>
    BY <1>6 DEF Kill
  <2>2. /\ stage[d] \notin {"none", "gone"} /\ stage' = [stage EXCEPT ![d] = "gone"]
        /\ pipe' = IF pipe = d THEN NoDaemon ELSE pipe
    BY <1>6 DEF Kill, Up
  <2>3. /\ role' = [role EXCEPT ![d] = [c \in Cbs |-> "none"]]
        /\ io' = [io EXCEPT ![d] = "none"]
        /\ fd' = [fd EXCEPT ![d] = "none"]
        /\ link' = [c \in Cbs |-> IF link[c] = d THEN NoDaemon ELSE link[c]]
    BY <1>6 DEF Kill
  <2>4. TypeOK'
    <3>1. stage' \in [Daemons -> Stages] /\ pipe' \in Daemons \union {NoDaemon}
      BY <1>0, <2>2 DEF TypeOK, Stages
    <3>2. \A e \in Daemons : stage'[e] = "serving" <=> pipe' = e
      BY <1>0, <2>2, NoDaemonIsNone DEF TypeOK
    <3>3. role' \in [Daemons -> [Cbs -> {"none", "unknown", "cb"}]]
      BY <1>0, <2>3 DEF TypeOK
    <3>4. /\ io' \in [Daemons -> {"none", "open", "write", "rename"}]
          /\ fd' \in [Daemons -> {"none", "tmp", "file", "gone"}]
          /\ link' \in [Cbs -> Daemons \union {NoDaemon}]
      BY <1>0, <2>3 DEF TypeOK
    <3> QED BY <1>0, <2>1, <3>1, <3>2, <3>3, <3>4 DEF TypeOK
  <2>5. Booting'
    BY <1>0, <2>1, <2>2, <2>3, <2>4 DEF Booting, Blocked, TypeOK
  <2>6. Served' /\ HistoryKnowsLive'
    BY <1>0, <2>1, <2>2, <2>3 DEF Served, HistoryKnowsLive, Up, TypeOK
  <2> QED BY <2>5, <2>6 DEF KnownInv
<1>7. ASSUME NEW d \in Daemons, NEW c \in Cbs, Hello(d, c) PROVE KnownInv'
  <2>1. UNCHANGED <<link, fd, tmp, file, alone>>
    BY <1>7 DEF Hello
  <2>2. /\ stage[d] \in {"serving", "closing"}
        /\ \/ stage[d] = "serving" /\ stage' = [stage EXCEPT ![d] = "closing"] /\ pipe' = NoDaemon
           \/ stage' = stage /\ pipe' = pipe
    BY <1>7 DEF Hello, Handles, Closes
  <2>3. /\ role' = [role EXCEPT ![d][c] = "cb"]
        /\ status' = [status EXCEPT ![d][c] = "alive"]
        /\ io' = [io EXCEPT ![d] = "open"]
    BY <1>7 DEF Hello, StartsPersist
  <2>4. PICK h \in Evict([history[d] EXCEPT ![c] = "live"]) : history' = [history EXCEPT ![d] = h]
    BY <1>7 DEF Hello
  <2>5. h \in History /\ \A x \in Cbs : h[x] = "live" <=> status'[d][x] = "alive"
    <3>0. PICK H : H = [history[d] EXCEPT ![c] = "live"] /\ h \in Evict(H)
      BY <2>4
    <3>1. h \in History
          /\ \A x \in Cbs : h[x] = "live" <=> (x = c \/ history[d][x] = "live")
      BY <1>0, <3>0, OneEntryChanges
    <3>2. \A x \in Cbs : history[d][x] = "live" <=> status[d][x] = "alive"
      BY <1>0, <2>2 DEF HistoryKnowsLive
    <3>3. \A x \in Cbs : status'[d][x] = IF x = c THEN "alive" ELSE status[d][x]
      BY <1>0, <2>3 DEF TypeOK
    <3> QED BY <3>1, <3>2, <3>3
  <2>6. TypeOK'
    <3>1. stage' \in [Daemons -> Stages] /\ pipe' \in Daemons \union {NoDaemon}
      BY <1>0, <2>2 DEF TypeOK, Stages
    <3>2. \A e \in Daemons : stage'[e] = "serving" <=> pipe' = e
      BY <1>0, <2>2, NoDaemonIsNone DEF TypeOK
    <3>3. role' \in [Daemons -> [Cbs -> {"none", "unknown", "cb"}]]
      BY <1>0, <2>3 DEF TypeOK
    <3>4. status' \in [Daemons -> [Cbs -> {"absent", "alive", "dead"}]]
      BY <1>0, <2>3 DEF TypeOK
    <3>5. io' \in [Daemons -> {"none", "open", "write", "rename"}]
      BY <1>0, <2>3 DEF TypeOK
    <3>6. history' \in [Daemons -> History]
      BY <1>0, <2>4, <2>5 DEF TypeOK
    <3> QED BY <1>0, <2>1, <3>1, <3>2, <3>3, <3>4, <3>5, <3>6 DEF TypeOK
  <2>7. Booting'
    BY <1>0, <2>2, <2>3, <2>6 DEF Booting, Blocked, TypeOK
  <2>8. Served'
    BY <1>0, <2>2, <2>3 DEF Served, Up, TypeOK
  <2>9. HistoryKnowsLive'
    BY <1>0, <2>2, <2>3, <2>4, <2>5 DEF HistoryKnowsLive, TypeOK
  <2> QED BY <2>7, <2>8, <2>9 DEF KnownInv
<1>8. ASSUME NEW d \in Daemons, NEW c \in Cbs, HandleClose(d, c) PROVE KnownInv'
  <2>1. UNCHANGED <<stage, pipe, link, fd, tmp, file, alone>>
    BY <1>8 DEF HandleClose
  <2>2. stage[d] \in {"serving", "closing"} /\ role' = [role EXCEPT ![d][c] = "none"]
    BY <1>8 DEF HandleClose, Handles
  <2>3. role' \in [Daemons -> [Cbs -> {"none", "unknown", "cb"}]]
    BY <1>0, <2>2 DEF TypeOK
  <2>4. CASE role[d][c] # "cb"
    <3>1. UNCHANGED <<status, history, io>>
      BY <1>8, <2>4 DEF HandleClose
    <3>2. TypeOK'
      BY <1>0, <2>1, <2>3, <3>1 DEF TypeOK
    <3>3. Booting'
      BY <1>0, <2>1, <2>2, <3>1, <3>2 DEF Booting, Blocked, TypeOK
    <3>4. Served'
      BY <1>0, <2>1, <2>2, <2>4, <3>1 DEF Served, Up, TypeOK
    <3>5. HistoryKnowsLive'
      BY <1>0, <2>1, <3>1 DEF HistoryKnowsLive
    <3> QED BY <3>3, <3>4, <3>5 DEF KnownInv
  <2>5. CASE role[d][c] = "cb"
    <3>1. status[d][c] = "alive"
      BY <1>0, <2>2, <2>5 DEF Served, Up
    <3>2. history[d][c] = "live"
      BY <1>0, <2>2, <3>1 DEF HistoryKnowsLive
    <3>3. status' = [status EXCEPT ![d][c] = "dead"] /\ io' = [io EXCEPT ![d] = "open"]
      BY <1>8, <2>5, <3>2 DEF HandleClose, StartsPersist
    <3>4. PICK h \in Evict([history[d] EXCEPT ![c] = "ended"]) :
            history' = [history EXCEPT ![d] = h]
      BY <1>8, <2>5, <3>2 DEF HandleClose
    <3>5. h \in History /\ \A x \in Cbs : h[x] = "live" <=> status'[d][x] = "alive"
      <4>0. PICK H : H = [history[d] EXCEPT ![c] = "ended"] /\ h \in Evict(H)
        BY <3>4
      <4>1. h \in History
            /\ \A x \in Cbs : h[x] = "live" <=> (x # c /\ history[d][x] = "live")
        BY <1>0, <4>0, OneEntryChanges
      <4>2. \A x \in Cbs : history[d][x] = "live" <=> status[d][x] = "alive"
        BY <1>0, <2>2 DEF HistoryKnowsLive
      <4>3. \A x \in Cbs : status'[d][x] = IF x = c THEN "dead" ELSE status[d][x]
        BY <1>0, <3>3 DEF TypeOK
      <4> QED BY <4>1, <4>2, <4>3
    <3>6. TypeOK'
      <4>1. status' \in [Daemons -> [Cbs -> {"absent", "alive", "dead"}]]
        BY <1>0, <3>3 DEF TypeOK
      <4>2. io' \in [Daemons -> {"none", "open", "write", "rename"}]
        BY <1>0, <3>3 DEF TypeOK
      <4>3. history' \in [Daemons -> History]
        BY <1>0, <3>4, <3>5 DEF TypeOK
      <4> QED BY <1>0, <2>1, <2>3, <4>1, <4>2, <4>3 DEF TypeOK
    <3>7. Booting'
      BY <1>0, <2>1, <2>2, <3>3, <3>6 DEF Booting, Blocked, TypeOK
    <3>8. Served'
      BY <1>0, <2>1, <2>2, <3>3 DEF Served, Up, TypeOK
    <3>9. HistoryKnowsLive'
      BY <1>0, <2>1, <3>3, <3>4, <3>5 DEF HistoryKnowsLive, TypeOK
    <3> QED BY <3>7, <3>8, <3>9 DEF KnownInv
  <2> QED BY <2>4, <2>5
<1>9. ASSUME NEW d \in Daemons, NEW c \in Cbs, SweepDead(d, c) PROVE KnownInv'
  <2>1. UNCHANGED <<stage, pipe, link, role, history, io, fd, tmp, file, alone>>
    BY <1>9 DEF SweepDead, diskVars
  <2>2. status[d][c] = "dead" /\ status' = [status EXCEPT ![d][c] = "absent"]
    BY <1>9 DEF SweepDead
  <2>3. status' \in [Daemons -> [Cbs -> {"absent", "alive", "dead"}]]
    BY <1>0, <2>2 DEF TypeOK
  <2>4. TypeOK'
    BY <1>0, <2>1, <2>3 DEF TypeOK
  <2>5. Booting'
    BY <1>0, <2>1, <2>2, <2>4 DEF Booting, Blocked, TypeOK
  <2>6. Served' /\ HistoryKnowsLive'
    BY <1>0, <2>1, <2>2 DEF Served, HistoryKnowsLive, Up, TypeOK
  <2> QED BY <2>5, <2>6 DEF KnownInv
<1>10. ASSUME NEW c \in Cbs, Connect(c) PROVE KnownInv'
  <2>1. UNCHANGED <<stage, pipe, status, history, io, fd, tmp, file, alone>>
    BY <1>10 DEF Connect, diskVars
  <2>2. /\ pipe \in Daemons /\ role[pipe][c] = "none"
        /\ role' = [role EXCEPT ![pipe][c] = "unknown"]
        /\ link' = [link EXCEPT ![c] = pipe]
    BY <1>0, <1>10 DEF Connect, TypeOK
  <2>3. role' \in [Daemons -> [Cbs -> {"none", "unknown", "cb"}]]
    BY <1>0, <2>2 DEF TypeOK
  <2>4. TypeOK'
    BY <1>0, <2>1, <2>2, <2>3 DEF TypeOK
  <2>5. stage[pipe] = "serving"
    BY <1>0, <2>2 DEF TypeOK
  <2>6. Booting'
    BY <1>0, <2>1, <2>2, <2>4, <2>5 DEF Booting, Blocked, TypeOK
  <2>7. Served'
    BY <1>0, <2>1, <2>2 DEF Served, Up, TypeOK
  <2>8. HistoryKnowsLive'
    BY <1>0, <2>1 DEF HistoryKnowsLive
  <2> QED BY <2>6, <2>7, <2>8 DEF KnownInv
<1>11. ASSUME NEW c \in Cbs, Lose(c) PROVE KnownInv'
  <2>1. UNCHANGED <<stage, pipe, role, status, history, io, fd, tmp, file, alone>>
    BY <1>11 DEF Lose, diskVars
  <2>2. link' \in [Cbs -> Daemons \union {NoDaemon}]
    BY <1>0, <1>11 DEF Lose, TypeOK
  <2>3. TypeOK'
    BY <1>0, <2>1, <2>2 DEF TypeOK
  <2> QED BY <1>0, <2>1, <2>3 DEF KnownInv, Booting, Served, HistoryKnowsLive, Up, Blocked
<1>12. CASE UNCHANGED vars
  <2>1. UNCHANGED <<stage, pipe, link, role, status, history, io, fd, tmp, file, alone>>
    BY <1>12 DEF vars, connVars, diskVars
  <2>2. TypeOK'
    BY <1>0, <2>1 DEF TypeOK
  <2> QED BY <1>0, <2>1, <2>2 DEF KnownInv, Booting, Served, HistoryKnowsLive, Up, Blocked
<1> QED BY <1>1, <1>2, <1>3, <1>4, <1>5, <1>6, <1>7, <1>8, <1>9, <1>10, <1>11, <1>12 DEF Next

\* The state is well typed, and only the daemon that serves listens.
THEOREM TypeCorrect == Spec => []TypeOK
<1>1. KnownInv => TypeOK
  BY DEF KnownInv, Booting
<1> QED BY <1>1, KnownInit, KnownStep, PTL DEF Spec

\* A daemon never evicts a live session from the history nor keeps a dead one as live,
\* whatever an earlier daemon left in the file and whatever another one does to it.
THEOREM HistoryKnows == Spec => []HistoryKnowsLive
<1>1. KnownInv => HistoryKnowsLive
  BY DEF KnownInv
<1> QED BY <1>1, KnownInit, KnownStep, PTL DEF Spec

-----------------------------------------------------------------------------
(* The file of a daemon that is alone *)

\* What is in h is in g, unless there is no room for it.
Covered(h, g) == Entries(h) \subseteq Entries(g) \/ Cardinality(Entries(g)) >= MaxEntries

\* Between two system calls of persist() the file is the one before or the one after.
Saved(d) ==
  /\ io[d] = "none" => file = history[d]
  /\ io[d] = "write" => fd[d] = "tmp" /\ tmp = {Nothing}
  /\ io[d] = "rename" => tmp = {history[d]}
  /\ Covered(file, history[d])

Running(d) == stage[d] \in {"bind", "serving", "closing"}

FileInv ==
  alone =>
    /\ \A d, e \in Daemons : Up(d) /\ Up(e) => d = e
    /\ file \in History
    /\ \A d \in Daemons : Running(d) => Saved(d)

LEMMA EvictFillsUp ==
  ASSUME NEW h \in History, NEW g \in Evict(h)
  PROVE  Covered(h, g)
<1>1. CASE Cardinality(Entries(h)) <= MaxEntries
  BY <1>1 DEF Evict, Covered
<1>2. CASE ~(Cardinality(Entries(h)) <= MaxEntries)
  <2>1. Live(g) = Live(h) /\ Cardinality(Entries(g) \ Live(g)) = Room(h)
    BY <1>2 DEF Evict
  <2>2. IsFiniteSet(Entries(g)) /\ IsFiniteSet(Live(g))
    BY CbsAssumption, FS_Subset DEF Entries, Live
  <2>3. Entries(g) \cap Live(g) = Live(g)
    BY DEF Entries, Live
  <2>4. Cardinality(Entries(g) \ Live(g)) = Cardinality(Entries(g)) - Cardinality(Live(g))
    BY <2>2, <2>3, FS_Difference
  <2>5. Cardinality(Entries(g)) \in Nat /\ Cardinality(Live(g)) \in Nat
    BY <2>2, FS_CardinalityType
  <2> QED BY <2>1, <2>4, <2>5, BoundAssumption DEF Room, Covered
<1> QED BY <1>1, <1>2

\* An event forgets nothing but what is evicted.
LEMMA EventsAreCovered ==
  ASSUME NEW h \in History, NEW c \in Cbs, NEW e \in {"live", "ended"},
         NEW H, H = [h EXCEPT ![c] = e], NEW g \in Evict(H)
  PROVE  Covered(h, g)
<1>1. H \in History /\ Entries(h) \subseteq Entries(H)
  BY DEF History, Entries
<1> QED BY <1>1, EvictFillsUp DEF Covered

LEMMA SameIsCovered == \A h : Covered(h, h)
BY DEF Covered

LEMMA FileInit == Init => FileInv
BY NothingIsHistory DEF Init, FileInv, Running, Up

\* A step that changes neither the disk nor a history and lets nobody come up.
LEMMA FileUntouched ==
  ASSUME FileInv, UNCHANGED <<history, io, file, tmp, alone>>,
         \A d \in Daemons : Running(d)' => Running(d) /\ UNCHANGED fd[d],
         \A d \in Daemons : Up(d)' => Up(d)
  PROVE  FileInv'
<1>1. \A d \in Daemons : Running(d)' => (Saved(d) => Saved(d)')
  BY DEF Saved, Covered
<1> QED BY <1>1 DEF FileInv

LEMMA PersistKeepsFile ==
  ASSUME KnownInv, FileInv, NEW d \in Daemons, Persist(d), alone'
  PROVE  FileInv' /\ Covered(file, file')
<1>1. UNCHANGED <<stage, history, alone>>
  BY DEF Persist, OpenTmp, WriteTmp, RenameTmp, IoStep
<1>2. io[d] # "none" /\ Running(d)
  BY DEF Persist, OpenTmp, WriteTmp, RenameTmp, IoStep, Running, KnownInv, Booting, Blocked
<1>3. /\ \A e \in Daemons : Up(e) => e = d
      /\ file \in History
      /\ Saved(d)
  BY <1>1, <1>2 DEF FileInv, Running, Up
<1>4. history[d] \in History
  BY DEF KnownInv, Booting, TypeOK
<1>5. /\ io \in [Daemons -> {"none", "open", "write", "rename"}]
      /\ fd \in [Daemons -> {"none", "tmp", "file", "gone"}]
  BY DEF KnownInv, Booting, TypeOK
<1>6. \A e \in Daemons : Running(e)' => e = d
  BY <1>1, <1>3 DEF Running, Up
<1>7. /\ file' \in History
      /\ Saved(d)'
      /\ Covered(file, file')
  <2>1. CASE OpenTmp(d)
    <3>1. /\ io'[d] = "write" /\ file' = file /\ tmp' = {Nothing}
          /\ fd'[d] = "tmp"
      BY <2>1, <1>5 DEF OpenTmp, IoStep
    <3>2. Saved(d)'
      BY <3>1, <1>1, <1>3 DEF Saved, Covered
    <3> QED BY <3>1, <3>2, <1>3, SameIsCovered
  <2>2. CASE WriteTmp(d)
    <3>1. io[d] = "write" /\ io'[d] = "rename"
      BY <2>2, <1>5 DEF WriteTmp, IoStep
    <3>2. fd[d] = "tmp" /\ tmp = {Nothing}
      BY <3>1, <1>3 DEF Saved
    <3>3. tmp' = {history[d]} /\ file' = file
      BY <2>2, <3>2 DEF WriteTmp, Written
    <3>4. Saved(d)'
      BY <3>1, <3>3, <1>1, <1>3 DEF Saved, Covered
    <3> QED BY <3>3, <3>4, <1>3, SameIsCovered
  <2>3. CASE RenameTmp(d)
    <3>1. io[d] = "rename" /\ io'[d] = "none"
      BY <2>3, <1>5 DEF RenameTmp, IoStep
    <3>2. tmp = {history[d]} /\ Covered(file, history[d])
      BY <3>1, <1>3 DEF Saved
    <3>3. file' = history[d]
      BY <2>3, <3>2 DEF RenameTmp
    <3>4. Saved(d)'
      BY <3>1, <3>3, <1>1 DEF Saved, Covered
    <3> QED BY <3>2, <3>3, <3>4, <1>4
  <2> QED BY <2>1, <2>2, <2>3 DEF Persist
<1> QED BY <1>1, <1>3, <1>6, <1>7 DEF FileInv, Up

\* An event that a daemon handles, alone, begins to save what it made of the history.
LEMMA EventStartsSaving ==
  ASSUME KnownInv, FileInv, NEW d \in Daemons, NEW c \in Cbs, alone', Running(d), ~Blocked(d),
         NEW e \in {"live", "ended"}, NEW H, H = [history[d] EXCEPT ![c] = e],
         NEW h \in Evict(H), history' = [history EXCEPT ![d] = h], StartsPersist(d),
         UNCHANGED <<fd, tmp, file, alone>>, \A x \in Daemons : Up(x)' => Up(x)
  PROVE  FileInv'
<1>1. /\ \A x \in Daemons : Up(x) => x = d
      /\ file \in History /\ file = history[d]
  BY DEF FileInv, Running, Up, Blocked, Saved
<1>2. history[d] \in History /\ history'[d] = h /\ io'[d] = "open"
  BY DEF KnownInv, Booting, TypeOK, StartsPersist
<1>3. Covered(file, history'[d])
  BY <1>1, <1>2, EventsAreCovered
<1>4. Saved(d)'
  BY <1>2, <1>3 DEF Saved, Covered
<1>5. \A x \in Daemons : Running(x)' => x = d
  BY <1>1 DEF Running, Up
<1> QED BY <1>1, <1>4, <1>5 DEF FileInv

LEMMA FileStep ==
  KnownInv /\ FileInv /\ [Next]_vars => FileInv' /\ (alone' => Covered(file, file'))
<1> SUFFICES ASSUME KnownInv, FileInv, [Next]_vars
             PROVE  FileInv' /\ (alone' => Covered(file, file'))
  OBVIOUS
<1>0. TypeOK /\ Booting
  BY DEF KnownInv, Booting
<1>1. ASSUME NEW d \in Daemons, Boot(d) PROVE FileInv' /\ file' = file
  <2>1. UNCHANGED <<history, io, fd, tmp, file>>
    BY <1>1 DEF Boot, diskVars
  <2>2. /\ stage' = [stage EXCEPT ![d] = "load"] /\ stage[d] = "none"
        /\ alone' => alone /\ \A e \in Daemons : ~Up(e)
    BY <1>1 DEF Boot
  <2>3. ASSUME alone' PROVE \A e \in Daemons : ~Running(e)' /\ (Up(e)' => e = d)
    BY <1>0, <2>2, <2>3 DEF Running, Up, TypeOK
  <2> QED BY <2>1, <2>2, <2>3 DEF FileInv
<1>2. ASSUME NEW d \in Daemons, Load(d) PROVE FileInv' /\ file' = file
  <2>1. UNCHANGED <<fd, tmp, file, alone>>
    BY <1>2 DEF Load
  <2>2. stage' = [stage EXCEPT ![d] = "bind"] /\ stage[d] = "load"
    BY <1>2 DEF Load
  <2> SUFFICES ASSUME alone PROVE FileInv'
    BY <2>1 DEF FileInv
  <2>3. (\A e \in Daemons : Up(e) => e = d) /\ file \in History
    BY <2>2 DEF FileInv, Up
  <2>4. \A e \in Daemons : Up(e)' => e = d
    BY <1>0, <2>2, <2>3 DEF Up, TypeOK
  <2>5. \A e \in Daemons : Running(e)' => e = d
    BY <2>4 DEF Running, Up
  <2>6. Loaded = file
    BY <2>3, TornAssumption DEF Loaded
  <2>7. history'[d] = AllEnded(file)
    BY <1>0, <1>2, <2>6 DEF Load, TypeOK
  <2>8. Covered(file, history'[d])
    BY <2>3, <2>7, NoneLiveAfterLoad DEF Covered
  <2>9. io'[d] = "open" \/ (io'[d] = "none" /\ file = history'[d])
    <3>1. io[d] = "none"
      BY <1>0, <2>2 DEF Booting, Blocked
    <3>2. CASE Live(file) # {}
      BY <1>0, <1>2, <2>6, <3>2 DEF Load, StartsPersist, TypeOK
    <3>3. CASE Live(file) = {}
      BY <1>2, <2>3, <2>6, <2>7, <3>1, <3>3, NoneLiveAfterLoad DEF Load
    <3> QED BY <3>2, <3>3
  <2>10. Saved(d)'
    BY <2>1, <2>8, <2>9 DEF Saved, Covered
  <2> QED BY <2>1, <2>3, <2>4, <2>5, <2>10 DEF FileInv
<1>3. ASSUME NEW d \in Daemons, Bind(d) PROVE FileInv' /\ file' = file
  <2>1. UNCHANGED <<history, io, fd, tmp, file, alone>>
    BY <1>3 DEF Bind, diskVars
  <2>2. /\ stage[d] = "bind"
        /\ \/ stage' = [stage EXCEPT ![d] = "serving"]
           \/ stage' = [stage EXCEPT ![d] = "gone"]
    BY <1>3 DEF Bind
  <2>3. \A e \in Daemons : (Running(e)' => Running(e)) /\ (Up(e)' => Up(e))
    BY <1>0, <2>2 DEF Running, Up, TypeOK
  <2> QED BY <2>1, <2>3, FileUntouched
<1>4. ASSUME NEW d \in Daemons, Persist(d) PROVE FileInv' /\ (alone' => Covered(file, file'))
  BY <1>4, PersistKeepsFile DEF FileInv
<1>5. ASSUME NEW d \in Daemons, IdleShutdown(d) \/ Signal(d) \/ Exit(d)
      PROVE  FileInv' /\ file' = file
  <2>1. UNCHANGED <<history, io, fd, tmp, file, alone>>
    BY <1>5 DEF IdleShutdown, Signal, Exit, diskVars
  <2>2. \/ stage[d] = "serving" /\ stage' = [stage EXCEPT ![d] = "closing"]
        \/ stage' = [stage EXCEPT ![d] = "gone"]
    BY <1>5 DEF IdleShutdown, Signal, Exit, Closes
  <2>3. \A e \in Daemons : (Running(e)' => Running(e)) /\ (Up(e)' => Up(e))
    BY <1>0, <2>2 DEF Running, Up, TypeOK
  <2> QED BY <2>1, <2>3, FileUntouched
<1>6. ASSUME NEW d \in Daemons, Kill(d) PROVE FileInv' /\ file' = file
  <2>1. UNCHANGED <<history, tmp, file, alone>>
    BY <1>6 DEF Kill
  <2>2. /\ stage' = [stage EXCEPT ![d] = "gone"]
        /\ io' = [io EXCEPT ![d] = "none"]
        /\ fd' = [fd EXCEPT ![d] = "none"]
    BY <1>6 DEF Kill
  <2>3. \A e \in Daemons :
          /\ Up(e)' => Up(e)
          /\ Running(e)' => Running(e) /\ io'[e] = io[e] /\ fd'[e] = fd[e]
    BY <1>0, <2>2 DEF Running, Up, TypeOK
  <2>4. \A e \in Daemons : Running(e)' => (Saved(e) => Saved(e)')
    BY <2>1, <2>3 DEF Saved, Covered
  <2> QED BY <2>1, <2>3, <2>4 DEF FileInv
<1>7. ASSUME NEW d \in Daemons, NEW c \in Cbs, Hello(d, c) PROVE FileInv' /\ file' = file
  <2>1. UNCHANGED <<fd, tmp, file, alone>> /\ Running(d) /\ ~Blocked(d) /\ StartsPersist(d)
    BY <1>7 DEF Hello, Handles, Running
  <2>2. \A e \in Daemons : Up(e)' => Up(e)
    BY <1>0, <1>7 DEF Hello, Closes, Up, TypeOK
  <2>3. PICK H, h : /\ H = [history[d] EXCEPT ![c] = "live"] /\ h \in Evict(H)
                    /\ history' = [history EXCEPT ![d] = h]
    BY <1>7 DEF Hello
  <2>4. alone' => FileInv'
    BY <2>1, <2>2, <2>3, EventStartsSaving
  <2> QED BY <2>1, <2>4 DEF FileInv
<1>8. ASSUME NEW d \in Daemons, NEW c \in Cbs, HandleClose(d, c) PROVE FileInv' /\ file' = file
  <2>1. UNCHANGED <<stage, fd, tmp, file, alone>> /\ Running(d) /\ ~Blocked(d)
    BY <1>8 DEF HandleClose, Handles, Running
  <2>2. CASE UNCHANGED <<history, io>>
    BY <2>1, <2>2, FileUntouched DEF Running, Up
  <2>3. CASE StartsPersist(d) /\ \E h \in Evict([history[d] EXCEPT ![c] = "ended"]) :
               history' = [history EXCEPT ![d] = h]
    <3>1. PICK H, h : /\ H = [history[d] EXCEPT ![c] = "ended"] /\ h \in Evict(H)
                      /\ history' = [history EXCEPT ![d] = h]
      BY <2>3
    <3>2. \A e \in Daemons : Up(e)' => Up(e)
      BY <2>1 DEF Up
    <3>3. alone' => FileInv'
      BY <2>1, <2>3, <3>1, <3>2, EventStartsSaving
    <3> QED BY <2>1, <3>3 DEF FileInv
  <2> QED BY <1>8, <2>2, <2>3 DEF HandleClose
<1>9. ASSUME NEW c \in Cbs, \/ \E d \in Daemons : SweepDead(d, c)
                            \/ Connect(c)
                            \/ Lose(c)
      PROVE  FileInv' /\ file' = file
  <2>1. UNCHANGED <<stage, history, io, fd, tmp, file, alone>>
    BY <1>9 DEF SweepDead, Connect, Lose, diskVars
  <2> QED BY <2>1, FileUntouched DEF Running, Up
<1>10. CASE UNCHANGED vars
  <2>1. UNCHANGED <<stage, history, io, fd, tmp, file, alone>>
    BY <1>10 DEF vars, diskVars
  <2>2. FileInv'
    BY <2>1, FileUntouched DEF Running, Up
  <2> QED BY <2>1, <2>2, SameIsCovered
<1> QED BY <1>1, <1>2, <1>3, <1>4, <1>5, <1>6, <1>7, <1>8, <1>9, <1>10, SameIsCovered DEF Next

\* A daemon that has no other beside it saves all it knows with each event, and whenever it
\* is killed the file can be read: persist() replaces the file in one step.
THEOREM FileIsFollowed == Spec => []FileFollows
<1>1. KnownInv /\ FileInv => FileFollows
  <2> SUFFICES ASSUME KnownInv, FileInv, alone PROVE FileFollows
    BY DEF FileFollows
  <2>1. file # Torn
    BY TornAssumption DEF FileInv
  <2>2. ASSUME NEW d \in Daemons, stage[d] \in {"bind", "serving", "closing"}, ~Blocked(d)
        PROVE  file = history[d]
    BY <2>2 DEF FileInv, Running, Saved, Blocked
  <2> QED BY <2>1, <2>2 DEF FileFollows
<1> QED BY <1>1, KnownInit, KnownStep, FileInit, FileStep, PTL DEF Spec

\* As long as no two daemons overlap a session leaves the file by eviction only, also when
\* a daemon is killed while it saves and the next one starts from what it left.
THEOREM EvictionForgets == Spec => OnlyEvictionForgets
<1> DEFINE A == alone' => \/ Entries(file) \subseteq Entries(file')
                          \/ Cardinality(Entries(file')) >= MaxEntries
<1>1. KnownInv /\ FileInv /\ [Next]_vars => [A]_vars
  BY FileStep DEF Covered
<1> QED BY <1>1, KnownInit, KnownStep, FileInit, FileStep, PTL DEF Spec, OnlyEvictionForgets
=============================================================================
