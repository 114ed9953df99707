---------------------------- MODULE SessionsProof ----------------------------
(* Theorems about Sessions, for every set of cbs and every bound.           *)
EXTENDS Sessions, TLAPS, FiniteSetTheorems, FunctionTheorems,
        SequenceTheorems, WellFoundedInduction

(***************************************************************************)
(* resolveLabel() always finds a suffix: at most one session per ULID is   *)
(* registered, so with more suffixes than ULIDs one of them is free, and   *)
(* the "pathological fallback" of the code is never taken.                 *)
(***************************************************************************)
LEMMA SomeSuffixIsFree ==
  ASSUME NEW reg, NEW p \in Cbs
  PROVE  \E i \in 1..MaxSuffix : ~Taken(reg, LabelAt[p][i])
<1>1. SUFFICES ASSUME \A i \in 1..MaxSuffix : Taken(reg, LabelAt[p][i])
               PROVE  FALSE
  OBVIOUS
<1> DEFINE holder == [i \in 1..MaxSuffix |->
                        CHOOSE q \in Cbs : label[reg[q]] = Label(LabelAt[p][i])]
<1>2. \A i \in 1..MaxSuffix :
        holder[i] \in Cbs /\ label[reg[holder[i]]] = Label(LabelAt[p][i])
  <2> TAKE i \in 1..MaxSuffix
  <2>1. \E q \in Cbs : label[reg[q]] = Label(LabelAt[p][i])
    BY <1>1 DEF Taken
  <2> QED BY <2>1
<1>3. IsFiniteSet(1..MaxSuffix) /\ Cardinality(1..MaxSuffix) = MaxSuffix
  <2>1. Cardinality(Cbs) \in Nat
    BY CbsAssumption, FS_CardinalityType
  <2> QED BY <2>1, LabelsAssumption, FS_Interval
<1>4. holder \in [1..MaxSuffix -> Cbs]
  BY <1>2
<1>5. PICK i, j \in 1..MaxSuffix : i # j /\ holder[i] = holder[j]
  <2> HIDE DEF holder
  <2> QED BY <1>3, <1>4, FS_PigeonHole, CbsAssumption, LabelsAssumption
<1>6. LabelAt[p][i] = LabelAt[p][j]
  BY <1>2, <1>5 DEF Label
<1> QED BY <1>5, <1>6, LabelsAssumption

\* A nonempty set of naturals has a least element.
LEMMA LeastNatural ==
  ASSUME NEW S \in SUBSET Nat, S # {}
  PROVE  \E m \in S : \A k \in S : m <= k
<1>1. PICK m \in S : \A k \in S : ~(<<k, m>> \in OpToRel(<, Nat))
  BY NatLessThanWellFounded, WFMin
<1>2. ASSUME NEW k \in S PROVE m <= k
  <2>1. ~(k < m)
    BY <1>1 DEF OpToRel
  <2> QED BY <2>1
<1> QED BY <1>2

LEMMA SuffixIsFree ==
  ASSUME NEW reg, NEW p \in Cbs
  PROVE  /\ Suffix(reg, p) \in 1..MaxSuffix
         /\ ~Taken(reg, LabelAt[p][Suffix(reg, p)])
<1> DEFINE free == {i \in 1..MaxSuffix : ~Taken(reg, LabelAt[p][i])}
<1>1. free \in SUBSET Nat /\ free # {}
  BY SomeSuffixIsFree
<1>2. PICK i \in free : \A j \in free : i <= j
  BY <1>1, LeastNatural
<1>3. \A j \in 1..(i - 1) : Taken(reg, LabelAt[p][j])
  <2> TAKE j \in 1..(i - 1)
  <2>1. j \in 1..MaxSuffix /\ ~(i <= j)
    BY LabelsAssumption
  <2> QED BY <1>2, <2>1
<1>4. \E k \in 1..MaxSuffix : /\ ~Taken(reg, LabelAt[p][k])
                              /\ \A j \in 1..(k - 1) : Taken(reg, LabelAt[p][j])
  BY <1>2, <1>3
<1> QED BY <1>4 DEF Suffix

-----------------------------------------------------------------------------
(* Type correctness *)

LEMMA FramesAreTyped ==
  /\ Pong \in ServerFrames
  /\ Bye \in ServerFrames
  /\ \A b \in BOOLEAN : Hello(b) \in ServerFrames
BY DEF ServerFrames, Hello

LEMMA WrittenType ==
  ASSUME TypeOK, NEW c \in Conns, NEW f \in ServerFrames
  PROVE  Written(c, f) \in Seq(ServerFrames)
BY DEF TypeOK, Written

LEMMA DestroyType ==
  ASSUME TypeOK, NEW D, Destroy(D)
  PROVE  /\ sEnd' \in [Conns -> {"unused", "open", "destroyed", "closed"}]
         /\ toServer' \in [Conns -> Seq(ServerFrames)]
         /\ toClient' \in [Conns -> Seq(ClientFrames)]
BY DEF TypeOK, Destroy

LEMMA MarkDeadType ==
  ASSUME TypeOK, NEW S, MarkDead(S)
  PROVE  /\ status' \in [Conns -> {"none", "alive", "dead"}]
         /\ pipe' \in [Conns -> Conns \union {None}]
         /\ record' \in [Cbs -> {"none", "live", "ended"}]
BY DEF TypeOK, MarkDead

LEMMA BuryType ==
  ASSUME TypeOK, NEW S, NEW D, Bury(S, D)
  PROVE  TypeOK'
BY DestroyType, MarkDeadType DEF TypeOK, Bury, cbVars

\* What can be read was written by a cb: the connection has been opened.
LEMMA ReadableHasPeer ==
  ASSUME TypeOK, UnopenedUntouched, OpenedHavePeer, NEW c \in Conns, Readable(c)
  PROVE  peer[c] \in Cbs
BY BoundsAssumption DEF TypeOK, UnopenedUntouched, OpenedHavePeer, Readable, Conns

LEMMA TypeOKStep ==
  TypeOK /\ UnopenedUntouched /\ OpenedHavePeer /\ [Next]_vars => TypeOK'
<1> SUFFICES ASSUME TypeOK, UnopenedUntouched, OpenedHavePeer, [Next]_vars PROVE TypeOK'
  OBVIOUS
<1> USE DEF cbVars, netVars, srvVars
<1>1. ASSUME NEW p \in Cbs, CbStep(p) PROVE TypeOK'
  <2>1. CASE Connect(p)
    <3>1. nextConn + 1 \in 1..(MaxConns + 1)
      BY <2>1, BoundsAssumption DEF TypeOK, Connect, Conns
    <3> QED BY <2>1, <3>1 DEF TypeOK, Connect
  <2>2. CASE OnConnect(p)
    <3>1. Hello(isReconnect[p]) \in ServerFrames
      BY FramesAreTyped DEF TypeOK
    <3>2. CASE sock[p] \in Conns
      <4>1. Written(sock[p], Hello(isReconnect[p])) \in Seq(ServerFrames)
        BY <3>1, <3>2, WrittenType
      <4> QED BY <2>2, <4>1 DEF TypeOK, OnConnect
    <3>3. CASE sock[p] \notin Conns
      BY <2>2, <3>3 DEF TypeOK, OnConnect
    <3> QED BY <3>2, <3>3
  <2>3. CASE OnPing(p)
    BY <2>3, FramesAreTyped, WrittenType DEF TypeOK, OnPing, Inbound
  <2>4. CASE OnAuthFailed(p)
    BY <2>4 DEF TypeOK, OnAuthFailed, Inbound, PipeShutdown
  <2>5. CASE OnOtherError(p)
    BY <2>5 DEF TypeOK, OnOtherError, Inbound
  <2>6. CASE OnClose(p)
    BY <2>6 DEF TypeOK, OnClose
  <2>7. CASE OnExit(p)
    BY <2>7, FramesAreTyped, WrittenType DEF TypeOK, OnExit
  <2>8. CASE Exit(p)
    BY <2>8 DEF TypeOK, Exit, PipeShutdown
  <2> QED BY <1>1, <2>1, <2>2, <2>3, <2>4, <2>5, <2>6, <2>7, <2>8 DEF CbStep
<1>2. ASSUME NEW p \in Cbs, CbFault(p) PROVE TypeOK'
  <2>1. CASE ChildDies(p)
    BY <2>1 DEF TypeOK, ChildDies
  <2>2. CASE Crash(p)
    BY <2>2 DEF TypeOK, Crash, PipeShutdown
  <2>3. CASE PingWatchdog(p)
    BY <2>3 DEF TypeOK, PingWatchdog
  <2> QED BY <1>2, <2>1, <2>2, <2>3 DEF CbFault
<1>3. ASSUME NEW p \in Cbs, InjectProbe(p) PROVE TypeOK'
  BY <1>3, BuryType DEF InjectProbe
<1>4. ASSUME NEW c \in Conns, DaemonStep(c) PROVE TypeOK'
  <2>1. CASE RefuseSecret(c) \/ RefuseLabel(c)
    <3>1. PICK error \in ClientFrames : Refuse(c, error)
      BY <2>1 DEF RefuseSecret, RefuseLabel, ClientFrames
    <3>2. <<error>> \in Seq(ClientFrames)
      BY <3>1
    <3>3. PICK reply \in {<<>>, <<error>>} : toClient' = [toClient EXCEPT ![c] = reply]
      BY <3>1 DEF Refuse
    <3>4. reply \in Seq(ClientFrames)
      <4>1. reply = <<>> \/ reply = <<error>>
        BY <3>3
      <4>2. <<>> \in Seq(ClientFrames)
        OBVIOUS
      <4> QED BY <3>2, <4>1, <4>2
    <3> QED BY <3>1, <3>3, <3>4 DEF TypeOK, Refuse
  <2>2. CASE Resume(c)
    <3> DEFINE o == registry[peer[c]]
    <3>1. o \in Conns
      BY <2>2, ReadableHasPeer DEF TypeOK, Resume, HelloAccepted, HelloFirst, CanResume
    <3>2. Tail(toServer[c]) \in Seq(ServerFrames)
      BY <2>2 DEF TypeOK, Resume, HelloAccepted, HelloFirst, Readable
    <3> HIDE DEF o
    <3>3. /\ pipe' \in [Conns -> Conns \union {None}]
          /\ missed' \in [Conns -> 0..MissLimit]
          /\ bound' \in [Conns -> Conns \union {None}]
          /\ cbConns' \subseteq Conns
      BY <2>2, <3>1, BoundsAssumption DEF TypeOK, Resume, MissedAfterResume, o
    <3>4. /\ sEnd' \in [Conns -> {"unused", "open", "destroyed", "closed"}]
          /\ toServer' \in [Conns -> Seq(ServerFrames)]
          /\ toClient' \in [Conns -> Seq(ClientFrames)]
      BY <2>2, <3>2 DEF TypeOK, Resume
    <3> QED BY <2>2, <3>3, <3>4 DEF TypeOK, Resume
  <2>3. CASE Register(c)
    <3> DEFINE p == peer[c]
               reg == RegistryForNew(c)
               i == Suffix(reg, p)
               name == LabelAt[p][i]
    <3>1. Readable(c) /\ p \in Cbs
      BY <2>3, ReadableHasPeer DEF Register, HelloAccepted, HelloFirst
    <3>2. reg \in [Cbs -> Conns \union {None}]
      BY DEF TypeOK, RegistryForNew
    <3>3. i \in 1..MaxSuffix
      BY <3>1, SuffixIsFree
    <3>4. name \in Labels
      BY <3>1, <3>3 DEF Labels
    <3>5. /\ label' = [o \in Conns |-> IF o = c THEN Label(name)
                                     ELSE IF Collides(reg, o, name) THEN [name |-> name, tag |-> o]
                                     ELSE label[o]]
          /\ registry' = [reg EXCEPT ![p] = c]
          /\ record' = [record EXCEPT ![p] = "live"]
      BY <2>3 DEF Register
    <3>6. Tail(toServer[c]) \in Seq(ServerFrames)
      BY <3>1 DEF TypeOK, Readable
    <3> HIDE DEF p, reg, i, name
    <3>7. label' \in [Conns -> AnyLabel]
      BY <3>4, <3>5 DEF TypeOK, AnyLabel, Label
    <3>8. registry' \in [Cbs -> Conns \union {None}] /\ record' \in [Cbs -> {"none", "live", "ended"}]
      BY <3>1, <3>2, <3>5 DEF TypeOK
    <3>9. /\ status' \in [Conns -> {"none", "alive", "dead"}]
          /\ pipe' \in [Conns -> Conns \union {None}]
          /\ missed' \in [Conns -> 0..MissLimit]
          /\ bound' \in [Conns -> Conns \union {None}]
          /\ cbConns' \subseteq Conns
          /\ toServer' \in [Conns -> Seq(ServerFrames)]
      BY <2>3, <3>6, BoundsAssumption DEF TypeOK, Register
    <3> QED BY <2>3, <3>7, <3>8, <3>9 DEF TypeOK, Register
  <2>4. CASE OnPong(c)
    BY <2>4, BoundsAssumption DEF TypeOK, OnPong, Readable
  <2>5. CASE OnBye(c)
    BY <2>5, BuryType DEF OnBye
  <2>6. CASE Heartbeat(c)
    BY <2>6, BoundsAssumption DEF TypeOK, Heartbeat, PingsLeft, ClientFrames
  <2>7. CASE HeartbeatLost(c)
    BY <2>7, BuryType DEF HeartbeatLost
  <2>8. CASE HandleClose(c)
    BY <2>8, MarkDeadType DEF TypeOK, HandleClose
  <2> QED BY <1>4, <2>1, <2>2, <2>3, <2>4, <2>5, <2>6, <2>7, <2>8 DEF DaemonStep
<1>5. ASSUME NEW c \in Conns, HandshakeTimeout(c) PROVE TypeOK'
  BY <1>5, DestroyType DEF TypeOK, HandshakeTimeout
<1>6. ASSUME NEW c \in Conns, PipeBreak(c) PROVE TypeOK'
  BY <1>6 DEF TypeOK, PipeBreak
<1>7. ASSUME DaemonTimer PROVE TypeOK'
  <2>1. CASE PidPoll
    BY <2>1, BuryType DEF PidPoll
  <2>2. CASE SweepDead
    BY <2>2 DEF TypeOK, SweepDead
  <2> QED BY <1>7, <2>1, <2>2 DEF DaemonTimer
<1>8. CASE UNCHANGED vars
  BY <1>8 DEF TypeOK, vars
<1> QED BY <1>1, <1>2, <1>3, <1>4, <1>5, <1>6, <1>7, <1>8 DEF Next

-----------------------------------------------------------------------------
(* Connections: what is not opened is untouched, what is opened has a peer *)

ConnsInv ==
  /\ TypeOK
  /\ UnopenedUntouched
  /\ OpenedHavePeer
  /\ SocketsAreOwn

LEMMA SocketIsOpened ==
  ASSUME ConnsInv, NEW p \in Cbs, sock[p] # None
  PROVE  sock[p] \in Conns /\ sock[p] < nextConn /\ peer[sock[p]] = p
<1>1. sock[p] \in Conns /\ peer[sock[p]] = p
  BY DEF ConnsInv, TypeOK, SocketsAreOwn
<1>2. ~(sock[p] >= nextConn)
  BY <1>1, CbsAssumption DEF ConnsInv, UnopenedUntouched
<1> QED BY <1>1, <1>2, BoundsAssumption DEF ConnsInv, TypeOK, Conns

\* Steps that open nothing keep the invariant if what they change is opened.
LEMMA ConnsInvKept ==
  ASSUME ConnsInv, TypeOK', UNCHANGED <<nextConn, peer>>,
         \A p \in Cbs : sock'[p] \in {sock[p], None},
         \A c \in Conns : c >= nextConn =>
           UNCHANGED <<cEnd[c], sEnd[c], bound[c], toServer[c]>>
  PROVE  ConnsInv'
<1>1. UnopenedUntouched'
  BY DEF ConnsInv, UnopenedUntouched
<1>2. OpenedHavePeer'
  BY DEF ConnsInv, OpenedHavePeer
<1>3. SocketsAreOwn'
  BY DEF ConnsInv, SocketsAreOwn
<1> QED BY <1>1, <1>2, <1>3 DEF ConnsInv

LEMMA ConnsInvStep == ConnsInv /\ [Next]_vars => ConnsInv'
<1> SUFFICES ASSUME ConnsInv, [Next]_vars PROVE ConnsInv'
  OBVIOUS
<1> USE DEF cbVars, netVars, srvVars
<1>a. TypeOK /\ TypeOK'
  BY TypeOKStep DEF ConnsInv
<1>b. nextConn \in Nat /\ \A c \in Conns : c \in Nat /\ c # None
  BY <1>a, BoundsAssumption DEF TypeOK, Conns, None
<1>c. \A c \in Conns : c >= nextConn => /\ cEnd[c] = "unused"
                                        /\ sEnd[c] = "unused"
                                        /\ bound[c] = None
                                        /\ toServer[c] = <<>>
  BY DEF ConnsInv, UnopenedUntouched
<1>1. ASSUME NEW p \in Cbs, Connect(p) PROVE ConnsInv'
  <2>1. nextConn \in Conns
    BY <1>1 DEF Connect
  <2>2. UnopenedUntouched'
    BY <1>a, <1>b, <1>1, <2>1 DEF ConnsInv, TypeOK, UnopenedUntouched, Connect
  <2>3. OpenedHavePeer'
    BY <1>a, <1>b, <1>1, <2>1 DEF ConnsInv, TypeOK, OpenedHavePeer, Connect
  <2>4. SocketsAreOwn'
    <3>1. \A q \in Cbs : sock[q] # None => sock[q] # nextConn
      BY <1>b, SocketIsOpened
    <3> QED BY <1>a, <1>b, <1>1, <2>1, <3>1 DEF ConnsInv, TypeOK, SocketsAreOwn, Connect, None
  <2> QED BY <1>a, <2>2, <2>3, <2>4 DEF ConnsInv
<1>2. ASSUME NEW p \in Cbs, OnConnect(p) PROVE ConnsInv'
  <2>1. \A c \in Conns : c >= nextConn => toServer'[c] = toServer[c]
    BY <1>a, <1>c, <1>2 DEF OnConnect, Written, TypeOK
  <2> QED BY <1>a, <1>2, <2>1, ConnsInvKept DEF OnConnect
<1>3. ASSUME NEW p \in Cbs, OnExit(p) PROVE ConnsInv'
  <2>1. \A c \in Conns : c >= nextConn => toServer'[c] = toServer[c]
    BY <1>a, <1>c, <1>3 DEF OnExit, Written, TypeOK
  <2> QED BY <1>a, <1>3, <2>1, ConnsInvKept DEF OnExit
<1>4. ASSUME NEW p \in Cbs, OnPing(p) PROVE ConnsInv'
  <2>1. \A c \in Conns : c >= nextConn => toServer'[c] = toServer[c]
    BY <1>a, <1>c, <1>4 DEF OnPing, Written, TypeOK
  <2> QED BY <1>a, <1>4, <2>1, ConnsInvKept DEF OnPing, Inbound
<1>5. ASSUME NEW p \in Cbs PROVE \A c \in Conns : c >= nextConn => c # sock[p]
  BY <1>b, SocketIsOpened
<1>6. ASSUME NEW p \in Cbs, PipeShutdown(p), TypeOK', UNCHANGED <<nextConn, peer, sEnd, bound, toServer>>
      PROVE  ConnsInv'
  <2>1. \A q \in Cbs : sock'[q] \in {sock[q], None}
    BY <1>a, <1>6 DEF TypeOK, PipeShutdown
  <2>2. \A c \in Conns : c >= nextConn => cEnd'[c] = cEnd[c]
    BY <1>5, <1>6 DEF PipeShutdown
  <2> QED BY <1>6, <2>1, <2>2, ConnsInvKept
<1>7. ASSUME NEW p \in Cbs, OnAuthFailed(p) PROVE ConnsInv'
  BY <1>a, <1>6, <1>7 DEF OnAuthFailed
<1>8. ASSUME NEW p \in Cbs, OnOtherError(p) PROVE ConnsInv'
  BY <1>a, <1>8, ConnsInvKept DEF OnOtherError
<1>9. ASSUME NEW p \in Cbs, OnClose(p) PROVE ConnsInv'
  <2>1. \A c \in Conns : c >= nextConn => cEnd'[c] = cEnd[c]
    BY <1>a, <1>5, <1>9 DEF OnClose, TypeOK
  <2>2. \A q \in Cbs : sock'[q] \in {sock[q], None}
    BY <1>a, <1>9 DEF OnClose, TypeOK
  <2> QED BY <1>a, <1>9, <2>1, <2>2, ConnsInvKept DEF OnClose
<1>10. ASSUME NEW p \in Cbs, Exit(p) PROVE ConnsInv'
  BY <1>a, <1>6, <1>10 DEF Exit
<1>11. ASSUME NEW p \in Cbs, Crash(p) PROVE ConnsInv'
  BY <1>a, <1>6, <1>11 DEF Crash
<1>12. ASSUME NEW p \in Cbs, ChildDies(p) PROVE ConnsInv'
  BY <1>a, <1>12, ConnsInvKept DEF ChildDies
<1>13. ASSUME NEW p \in Cbs, PingWatchdog(p) PROVE ConnsInv'
  <2>1. \A c \in Conns : c >= nextConn => cEnd'[c] = cEnd[c]
    BY <1>a, <1>5, <1>13 DEF PingWatchdog, TypeOK
  <2> QED BY <1>a, <1>13, <2>1, ConnsInvKept DEF PingWatchdog
<1>14. ASSUME NEW S, NEW D, Bury(S, D) PROVE ConnsInv'
  <2>1. \A c \in Conns : c >= nextConn => sEnd'[c] = sEnd[c] /\ toServer'[c] = toServer[c]
    BY <1>c, <1>14 DEF Bury, Destroy
  <2> QED BY <1>a, <1>14, <2>1, ConnsInvKept DEF Bury
<1>15. ASSUME NEW c \in Conns, Readable(c) PROVE \A d \in Conns : d >= nextConn => d # c
  BY <1>c, <1>15 DEF Readable
<1>16. ASSUME NEW c \in Conns, RefuseSecret(c) \/ RefuseLabel(c) PROVE ConnsInv'
  <2>1. PICK error : Readable(c) /\ Refuse(c, error)
    BY <1>16 DEF RefuseSecret, RefuseLabel, HelloFirst
  <2>2. \A d \in Conns : d >= nextConn => sEnd'[d] = sEnd[d] /\ toServer'[d] = toServer[d]
    BY <1>a, <1>15, <2>1 DEF Refuse, TypeOK
  <2> QED BY <1>a, <2>1, <2>2, ConnsInvKept DEF Refuse
<1>17. ASSUME NEW c \in Conns, Resume(c) PROVE ConnsInv'
  <2>1. Readable(c)
    BY <1>17 DEF Resume, HelloAccepted, HelloFirst
  <2>2. \A d \in Conns : d >= nextConn => bound'[d] = bound[d]
    BY <1>a, <1>15, <1>17, <2>1 DEF Resume, TypeOK
  <2>3. \A d \in Conns : d >= nextConn => sEnd'[d] = sEnd[d] /\ toServer'[d] = toServer[d]
    BY <1>c, <1>15, <1>17, <2>1 DEF Resume
  <2> QED BY <1>a, <1>17, <2>2, <2>3, ConnsInvKept DEF Resume
<1>18. ASSUME NEW c \in Conns, Register(c) PROVE ConnsInv'
  <2>1. Readable(c)
    BY <1>18 DEF Register, HelloAccepted, HelloFirst
  <2>2. \A d \in Conns : d >= nextConn => bound'[d] = bound[d] /\ toServer'[d] = toServer[d]
    BY <1>a, <1>15, <1>18, <2>1 DEF Register, TypeOK
  <2> QED BY <1>a, <1>18, <2>2, ConnsInvKept DEF Register
<1>19. ASSUME NEW c \in Conns, OnPong(c) PROVE ConnsInv'
  <2>1. \A d \in Conns : d >= nextConn => toServer'[d] = toServer[d]
    BY <1>a, <1>15, <1>19 DEF OnPong, TypeOK
  <2> QED BY <1>a, <1>19, <2>1, ConnsInvKept DEF OnPong
<1>20. ASSUME NEW c \in Conns, Heartbeat(c) PROVE ConnsInv'
  BY <1>a, <1>20, ConnsInvKept DEF Heartbeat
<1>21. ASSUME NEW c \in Conns, PipeBreak(c) PROVE ConnsInv'
  <2>1. \A d \in Conns : d >= nextConn =>
          UNCHANGED <<cEnd[d], sEnd[d], toServer[d]>>
    BY <1>a, <1>c, <1>21 DEF PipeBreak, TypeOK
  <2> QED BY <1>a, <1>21, <2>1, ConnsInvKept DEF PipeBreak
<1>22. ASSUME NEW c \in Conns, HandleClose(c) PROVE ConnsInv'
  <2>1. \A d \in Conns : d >= nextConn => sEnd'[d] = sEnd[d]
    BY <1>a, <1>c, <1>22 DEF HandleClose, TypeOK
  <2> QED BY <1>a, <1>22, <2>1, ConnsInvKept DEF HandleClose
<1>23. ASSUME NEW c \in Conns, HandshakeTimeout(c) PROVE ConnsInv'
  <2>1. \A d \in Conns : d >= nextConn => sEnd'[d] = sEnd[d] /\ toServer'[d] = toServer[d]
    BY <1>c, <1>23 DEF HandshakeTimeout, Destroy
  <2> QED BY <1>a, <1>23, <2>1, ConnsInvKept DEF HandshakeTimeout
<1>24. ASSUME SweepDead PROVE ConnsInv'
  BY <1>a, <1>24, ConnsInvKept DEF SweepDead
<1>25. CASE UNCHANGED vars
  BY <1>a, <1>25, ConnsInvKept DEF vars
<1> QED
  BY <1>1, <1>2, <1>3, <1>4, <1>7, <1>8, <1>9, <1>10, <1>11, <1>12, <1>13, <1>14, <1>16,
     <1>17, <1>18, <1>19, <1>20, <1>21, <1>22, <1>23, <1>24, <1>25
  DEF Next, CbStep, CbFault, DaemonStep, DaemonTimer, InjectProbe, PidPoll, OnBye, HeartbeatLost

LEMMA ConnsInvInit == Init => ConnsInv
<1> SUFFICES ASSUME Init PROVE ConnsInv
  OBVIOUS
<1>1. TypeOK
  <2>1. NoLabel \in AnyLabel
    BY DEF NoLabel, Label, AnyLabel
  <2>2. <<>> \in Seq(ServerFrames) /\ <<>> \in Seq(ClientFrames)
    OBVIOUS
  <2>3. 1 \in 1..(MaxConns + 1) /\ 0 \in 0..MissLimit
    BY BoundsAssumption
  <2> QED BY <2>1, <2>2, <2>3 DEF Init, TypeOK
<1>2. UnopenedUntouched
  BY DEF Init, UnopenedUntouched
<1>3. OpenedHavePeer
  BY DEF Init, OpenedHavePeer, Conns
<1>4. SocketsAreOwn
  BY DEF Init, SocketsAreOwn
<1> QED BY <1>1, <1>2, <1>3, <1>4 DEF ConnsInv

\* Every variable keeps its type, in every behaviour of cbs and daemon: the
\* theorem the others rest on, since Readable, Suffix and the maps between
\* connections and sessions only make sense on typed states.
THEOREM TypeCorrect == Spec => []TypeOK
<1>1. ConnsInv => TypeOK
  BY DEF ConnsInv
<1> QED BY <1>1, ConnsInvInit, ConnsInvStep, PTL DEF Spec

-----------------------------------------------------------------------------
(* Pipes: each live session and its one connection point at each other *)

(***************************************************************************)
(* LiveSessionHasPipe and OpenConnFeedsItsSession hold each other up: a    *)
(* close finds the session of its connection because the session's pipe    *)
(* is that connection, and a resume leaves no second open connection       *)
(* because the one it detaches is the only one.  What the two need to know *)
(* of the registry and of the ids is in the other parts.                   *)
(***************************************************************************)
PipesInv ==
  /\ ConnsInv
  /\ BoundToOwnSession
  /\ CreatorStaysBound
  /\ RegistryHoldsOwnSessions
  /\ LiveSessionHasPipe
  /\ OpenConnFeedsItsSession

\* A step that neither binds nor buries, and at most destroys server ends.
LEMMA PipesInvKept ==
  ASSUME PipesInv, ConnsInv', UNCHANGED <<peer, bound, cbConns, status, pipe>>,
         \A p \in Cbs : registry'[p] \in {registry[p], None},
         \A c \in Conns : \/ sEnd'[c] = sEnd[c]
                          \/ sEnd[c] = "open" /\ sEnd'[c] = "destroyed"
  PROVE  PipesInv'
<1>1. BoundToOwnSession'
  BY DEF PipesInv, BoundToOwnSession
<1>2. CreatorStaysBound'
  BY DEF PipesInv, CreatorStaysBound
<1>3. RegistryHoldsOwnSessions'
  BY DEF PipesInv, RegistryHoldsOwnSessions
<1>4. \A o \in Conns : pipe[o] \in Conns \union {None}
  BY DEF PipesInv, ConnsInv, TypeOK
<1>5. LiveSessionHasPipe'
  <2>1. ASSUME NEW o \in Conns, IsAlive(o) PROVE pipe[o] \in Conns
    BY <2>1 DEF PipesInv, LiveSessionHasPipe, ConnsInv, TypeOK
  <2> QED BY <2>1 DEF PipesInv, LiveSessionHasPipe, IsAlive
<1>6. OpenConnFeedsItsSession'
  BY DEF PipesInv, OpenConnFeedsItsSession, IsAlive
<1> QED BY <1>1, <1>2, <1>3, <1>5, <1>6 DEF PipesInv

LEMMA PipesInvConnect ==
  ASSUME PipesInv, ConnsInv', NEW p \in Cbs, Connect(p)
  PROVE  PipesInv'
<1> USE DEF srvVars
<1>1. nextConn \in Conns /\ bound[nextConn] = None
  BY BoundsAssumption DEF Connect, PipesInv, ConnsInv, UnopenedUntouched, Conns
<1>2. \A c \in Conns : bound[c] # None => c # nextConn /\ bound[c] # nextConn
  BY <1>1 DEF PipesInv, BoundToOwnSession, CreatorStaysBound, ConnsInv, TypeOK
<1>3. \A q \in Cbs : registry[q] # None => registry[q] # nextConn
  BY <1>1 DEF PipesInv, RegistryHoldsOwnSessions, CreatorStaysBound
<1>4. BoundToOwnSession'
  BY <1>1, <1>2 DEF Connect, PipesInv, ConnsInv, TypeOK, BoundToOwnSession
<1>5. CreatorStaysBound'
  BY DEF Connect, PipesInv, CreatorStaysBound
<1>6. RegistryHoldsOwnSessions'
  BY <1>1, <1>3 DEF Connect, PipesInv, ConnsInv, TypeOK, RegistryHoldsOwnSessions
<1>7. LiveSessionHasPipe'
  BY <1>1 DEF Connect, PipesInv, ConnsInv, TypeOK, LiveSessionHasPipe, IsAlive
<1>8. OpenConnFeedsItsSession'
  <2> SUFFICES ASSUME NEW c \in Conns, sEnd'[c] = "open", bound[c] # None
               PROVE  /\ IsAlive(bound[c])
                      /\ pipe[bound[c]] = c
                      /\ peer'[bound[c]] = peer'[c]
    BY DEF Connect, OpenConnFeedsItsSession, IsAlive
  <2>1. sEnd[c] = "open"
    BY <1>1, <1>2 DEF Connect, PipesInv, ConnsInv, TypeOK
  <2>2. peer'[bound[c]] = peer[bound[c]] /\ peer'[c] = peer[c]
    BY <1>2 DEF Connect, PipesInv, ConnsInv, TypeOK
  <2> QED BY <2>1, <2>2 DEF PipesInv, OpenConnFeedsItsSession
<1> QED BY <1>4, <1>5, <1>6, <1>7, <1>8 DEF PipesInv

LEMMA PipesInvBury ==
  ASSUME PipesInv, ConnsInv', NEW S, NEW D, \A o \in S : status[o] # "none", Bury(S, D)
  PROVE  PipesInv'
<1>1. /\ status' = [o \in Conns |-> IF o \in S THEN "dead" ELSE status[o]]
      /\ pipe' = [o \in Conns |-> IF o \in S THEN None ELSE pipe[o]]
      /\ sEnd' = [c \in Conns |-> IF c \in Pipes(S) \union D /\ sEnd[c] = "open"
                                  THEN "destroyed" ELSE sEnd[c]]
  BY DEF Bury, MarkDead, Destroy
<1>2. UNCHANGED <<peer, bound, cbConns, registry>>
  BY DEF Bury
<1>3. BoundToOwnSession'
  BY <1>1, <1>2 DEF PipesInv, ConnsInv, TypeOK, BoundToOwnSession
<1>4. CreatorStaysBound'
  BY <1>1, <1>2 DEF PipesInv, CreatorStaysBound
<1>5. RegistryHoldsOwnSessions'
  BY <1>1, <1>2 DEF PipesInv, ConnsInv, TypeOK, RegistryHoldsOwnSessions
<1>6. LiveSessionHasPipe'
  <2> SUFFICES ASSUME NEW o \in Conns, IsAlive(o)'
               PROVE  /\ pipe'[o] \in cbConns'
                      /\ bound'[pipe'[o]] = o
                      /\ sEnd'[pipe'[o]] \in {"open", "destroyed"}
    BY DEF LiveSessionHasPipe
  <2>1. o \notin S /\ IsAlive(o) /\ pipe'[o] = pipe[o]
    BY <1>1 DEF IsAlive
  <2>2. pipe[o] \in cbConns /\ bound[pipe[o]] = o /\ sEnd[pipe[o]] \in {"open", "destroyed"}
    BY <2>1 DEF PipesInv, LiveSessionHasPipe
  <2>3. pipe[o] \in Conns
    BY <2>2 DEF PipesInv, ConnsInv, TypeOK
  <2> QED BY <1>1, <1>2, <2>1, <2>2, <2>3
<1>7. OpenConnFeedsItsSession'
  <2> SUFFICES ASSUME NEW c \in Conns, sEnd'[c] = "open", bound[c] # None
               PROVE  /\ IsAlive(bound[c])'
                      /\ pipe'[bound[c]] = c
                      /\ peer[bound[c]] = peer[c]
    BY <1>2 DEF OpenConnFeedsItsSession
  <2>1. sEnd[c] = "open" /\ c \notin Pipes(S)
    BY <1>1
  <2>2. IsAlive(bound[c]) /\ pipe[bound[c]] = c /\ peer[bound[c]] = peer[c]
    BY <2>1 DEF PipesInv, OpenConnFeedsItsSession
  <2>3. bound[c] \in Conns /\ bound[c] \notin S
    BY <2>1, <2>2 DEF Pipes, PipesInv, ConnsInv, TypeOK
  <2> QED BY <1>1, <1>2, <2>2, <2>3 DEF IsAlive
<1> QED BY <1>3, <1>4, <1>5, <1>6, <1>7 DEF PipesInv

LEMMA PipesInvHandleClose ==
  ASSUME PipesInv, ConnsInv', NEW c \in Conns, HandleClose(c)
  PROVE  PipesInv'
<1> DEFINE S == ClosedSession(c)
<1>1. /\ status' = [o \in Conns |-> IF o \in S THEN "dead" ELSE status[o]]
      /\ pipe' = [o \in Conns |-> IF o \in S THEN None ELSE pipe[o]]
      /\ sEnd' = [sEnd EXCEPT ![c] = "closed"]
      /\ cbConns' = cbConns \ {c}
      /\ UNCHANGED <<peer, bound, registry>>
  BY DEF HandleClose, MarkDead
<1>2. TypeOK /\ \A o \in S : IsAlive(o)
  BY DEF ClosedSession, PipesInv, ConnsInv
<1>3. \A o \in Conns : IsAlive(o) /\ pipe[o] = c => o \in S
  BY CbsAssumption DEF ClosedSession, PipesInv, LiveSessionHasPipe, Conns, None
<1> HIDE DEF S
<1>4. BoundToOwnSession'
  BY <1>1, <1>2 DEF PipesInv, TypeOK, BoundToOwnSession
<1>5. CreatorStaysBound'
  BY <1>1, <1>2 DEF PipesInv, CreatorStaysBound, IsAlive
<1>6. RegistryHoldsOwnSessions'
  BY <1>1, <1>2 DEF PipesInv, TypeOK, RegistryHoldsOwnSessions
<1>7. LiveSessionHasPipe'
  <2> SUFFICES ASSUME NEW o \in Conns, IsAlive(o)'
               PROVE  /\ pipe'[o] \in cbConns'
                      /\ bound'[pipe'[o]] = o
                      /\ sEnd'[pipe'[o]] \in {"open", "destroyed"}
    BY DEF LiveSessionHasPipe
  <2>1. o \notin S /\ IsAlive(o) /\ pipe'[o] = pipe[o] /\ pipe[o] # c
    BY <1>1, <1>3 DEF IsAlive
  <2>2. pipe[o] \in cbConns /\ bound[pipe[o]] = o /\ sEnd[pipe[o]] \in {"open", "destroyed"}
    BY <2>1 DEF PipesInv, LiveSessionHasPipe
  <2> QED BY <1>1, <1>2, <2>1, <2>2 DEF TypeOK
<1>8. OpenConnFeedsItsSession'
  <2> SUFFICES ASSUME NEW d \in Conns, sEnd'[d] = "open", bound[d] # None
               PROVE  /\ IsAlive(bound[d])'
                      /\ pipe'[bound[d]] = d
                      /\ peer[bound[d]] = peer[d]
    BY <1>1 DEF OpenConnFeedsItsSession
  <2>1. sEnd[d] = "open" /\ d # c
    BY <1>1, <1>2 DEF TypeOK
  <2>2. IsAlive(bound[d]) /\ pipe[bound[d]] = d /\ peer[bound[d]] = peer[d]
    BY <2>1 DEF PipesInv, OpenConnFeedsItsSession
  <2>3. bound[d] \in Conns /\ bound[d] \notin S
    BY <1>2, <2>1, <2>2 DEF ClosedSession, TypeOK, S
  <2> QED BY <1>1, <2>2, <2>3 DEF IsAlive
<1> QED BY <1>4, <1>5, <1>6, <1>7, <1>8 DEF PipesInv

\* The session a hello is the first frame of does not exist yet.
LEMMA HelloIsUnbound ==
  ASSUME PipesInv, NEW c \in Conns, HelloFirst(c)
  PROVE  /\ peer[c] \in Cbs
         /\ bound[c] = None
         /\ status[c] = "none"
         /\ sEnd[c] = "open"
         /\ \A o \in Conns : IsAlive(o) => pipe[o] # c /\ pipe[o] \in Conns
<1>1. TypeOK /\ Readable(c) /\ bound[c] = None
  BY DEF HelloFirst, PipesInv, ConnsInv
<1>2. peer[c] \in Cbs
  BY <1>1, ReadableHasPeer DEF PipesInv, ConnsInv
<1>3. c # None
  BY BoundsAssumption DEF Conns, None
<1>4. status[c] = "none"
  BY <1>1, <1>3 DEF PipesInv, CreatorStaysBound
<1>5. \A o \in Conns : o # None
  BY BoundsAssumption DEF Conns, None
<1> QED BY <1>1, <1>2, <1>4, <1>5 DEF Readable, PipesInv, LiveSessionHasPipe, TypeOK

LEMMA PipesInvResume ==
  ASSUME PipesInv, ConnsInv', NEW c \in Conns, Resume(c)
  PROVE  PipesInv'
<1> DEFINE o == registry[peer[c]]
           old == Superseded(o, c)
<1>1. /\ pipe' = [pipe EXCEPT ![o] = c]
      /\ bound' = [bound EXCEPT ![c] = o]
      /\ cbConns' = (cbConns \ old) \union {c}
      /\ sEnd' = [d \in Conns |-> IF d \in old /\ sEnd[d] = "open" THEN "destroyed" ELSE sEnd[d]]
      /\ UNCHANGED <<peer, registry, status>>
  BY DEF Resume
<1>2. TypeOK /\ HelloFirst(c)
  BY DEF Resume, HelloAccepted, PipesInv, ConnsInv
<1>3. /\ peer[c] \in Cbs
      /\ bound[c] = None
      /\ status[c] = "none"
      /\ sEnd[c] = "open"
      /\ \A x \in Conns : IsAlive(x) => pipe[x] # c /\ pipe[x] \in Conns
  BY <1>2, HelloIsUnbound
<1>4. /\ o \in Conns
      /\ o # None
      /\ IsAlive(o)
      /\ peer[o] = peer[c]
  BY <1>2, <1>3 DEF Resume, CanResume, PipesInv, RegistryHoldsOwnSessions, TypeOK
<1>5. c \notin old /\ \A x \in Conns : IsAlive(x) /\ pipe[x] \in old => x = o
  <2>1. old = {pipe[o]}
    BY <1>3, <1>4, BoundsAssumption DEF Superseded, Conns, None
  <2>2. \A x \in Conns : IsAlive(x) => bound[pipe[x]] = x
    BY DEF PipesInv, LiveSessionHasPipe
  <2> QED BY <1>3, <1>4, <2>1, <2>2
<1>6. pipe[o] \in old
  BY <1>3, <1>4, BoundsAssumption DEF Superseded, Conns, None
<1> HIDE DEF o, old
<1>7. BoundToOwnSession'
  BY <1>1, <1>2, <1>4 DEF PipesInv, TypeOK, BoundToOwnSession, IsAlive
<1>8. CreatorStaysBound'
  BY <1>1, <1>2, <1>3 DEF PipesInv, TypeOK, CreatorStaysBound
<1>9. RegistryHoldsOwnSessions'
  BY <1>1 DEF PipesInv, RegistryHoldsOwnSessions
<1>10. LiveSessionHasPipe'
  <2> SUFFICES ASSUME NEW x \in Conns, IsAlive(x)
               PROVE  /\ pipe'[x] \in cbConns'
                      /\ bound'[pipe'[x]] = x
                      /\ sEnd'[pipe'[x]] \in {"open", "destroyed"}
    BY <1>1 DEF LiveSessionHasPipe, IsAlive
  <2>1. CASE x = o
    BY <1>1, <1>2, <1>3, <1>4, <1>5, <2>1 DEF TypeOK
  <2>2. CASE x # o
    <3>1. /\ pipe'[x] = pipe[x]
          /\ pipe[x] # c
          /\ pipe[x] \in Conns
          /\ pipe[x] \notin old
      BY <1>1, <1>2, <1>3, <1>5, <2>2 DEF TypeOK
    <3>2. pipe[x] \in cbConns /\ bound[pipe[x]] = x /\ sEnd[pipe[x]] \in {"open", "destroyed"}
      BY DEF PipesInv, LiveSessionHasPipe
    <3> QED BY <1>1, <1>2, <3>1, <3>2 DEF TypeOK
  <2> QED BY <2>1, <2>2
<1>11. OpenConnFeedsItsSession'
  <2> SUFFICES ASSUME NEW d \in Conns, sEnd'[d] = "open", bound'[d] # None
               PROVE  /\ IsAlive(bound'[d])
                      /\ pipe'[bound'[d]] = d
                      /\ peer[bound'[d]] = peer[d]
    BY <1>1 DEF OpenConnFeedsItsSession, IsAlive
  <2>1. CASE d = c
    BY <1>1, <1>2, <1>4, <2>1 DEF TypeOK
  <2>2. CASE d # c
    <3>1. bound'[d] = bound[d] /\ sEnd[d] = "open" /\ d \notin old
      BY <1>1, <1>2, <2>2 DEF TypeOK
    <3>2. IsAlive(bound[d]) /\ pipe[bound[d]] = d /\ peer[bound[d]] = peer[d]
      BY <3>1 DEF PipesInv, OpenConnFeedsItsSession
    <3>3. bound[d] # o
      BY <1>6, <3>1, <3>2
    <3> QED BY <1>1, <1>2, <3>1, <3>2, <3>3 DEF TypeOK
  <2> QED BY <2>1, <2>2
<1> QED BY <1>7, <1>8, <1>9, <1>10, <1>11 DEF PipesInv

LEMMA PipesInvRegister ==
  ASSUME PipesInv, ConnsInv', NEW c \in Conns, Register(c)
  PROVE  PipesInv'
<1> DEFINE reg == RegistryForNew(c)
<1>1. /\ registry' = [reg EXCEPT ![peer[c]] = c]
      /\ status' = [status EXCEPT ![c] = "alive"]
      /\ pipe' = [pipe EXCEPT ![c] = c]
      /\ bound' = [bound EXCEPT ![c] = c]
      /\ cbConns' = cbConns \union {c}
      /\ UNCHANGED <<peer, sEnd>>
  BY DEF Register
<1>2. TypeOK /\ HelloFirst(c)
  BY DEF Register, HelloAccepted, PipesInv, ConnsInv
<1>3. /\ peer[c] \in Cbs
      /\ bound[c] = None
      /\ status[c] = "none"
      /\ sEnd[c] = "open"
      /\ \A x \in Conns : IsAlive(x) => pipe[x] # c /\ pipe[x] \in Conns
  BY <1>2, HelloIsUnbound
<1>4. reg \in [Cbs -> Conns \union {None}] /\ \A p \in Cbs : reg[p] \in {registry[p], None}
  BY <1>2 DEF RegistryForNew, TypeOK
<1> HIDE DEF reg
<1>5. BoundToOwnSession'
  BY <1>1, <1>2 DEF PipesInv, TypeOK, BoundToOwnSession
<1>6. CreatorStaysBound'
  BY <1>1, <1>2 DEF PipesInv, TypeOK, CreatorStaysBound
<1>7. RegistryHoldsOwnSessions'
  BY <1>1, <1>2, <1>3, <1>4 DEF PipesInv, TypeOK, RegistryHoldsOwnSessions
<1>8. LiveSessionHasPipe'
  <2> SUFFICES ASSUME NEW x \in Conns, IsAlive(x)'
               PROVE  /\ pipe'[x] \in cbConns'
                      /\ bound'[pipe'[x]] = x
                      /\ sEnd'[pipe'[x]] \in {"open", "destroyed"}
    BY DEF LiveSessionHasPipe
  <2>1. CASE x = c
    BY <1>1, <1>2, <1>3, <2>1 DEF TypeOK
  <2>2. CASE x # c
    <3>1. IsAlive(x) /\ pipe'[x] = pipe[x] /\ pipe[x] # c /\ pipe[x] \in Conns
      BY <1>1, <1>2, <1>3, <2>2 DEF TypeOK, IsAlive
    <3>2. pipe[x] \in cbConns /\ bound[pipe[x]] = x /\ sEnd[pipe[x]] \in {"open", "destroyed"}
      BY <3>1 DEF PipesInv, LiveSessionHasPipe
    <3> QED BY <1>1, <1>2, <3>1, <3>2 DEF TypeOK
  <2> QED BY <2>1, <2>2
<1>9. OpenConnFeedsItsSession'
  <2> SUFFICES ASSUME NEW d \in Conns, sEnd[d] = "open", bound'[d] # None
               PROVE  /\ status'[bound'[d]] = "alive"
                      /\ pipe'[bound'[d]] = d
                      /\ peer[bound'[d]] = peer[d]
    BY <1>1 DEF OpenConnFeedsItsSession, IsAlive
  <2>1. CASE d = c
    BY <1>1, <1>2, <2>1 DEF TypeOK, IsAlive
  <2>2. CASE d # c
    <3>1. bound'[d] = bound[d]
      BY <1>1, <1>2, <2>2 DEF TypeOK
    <3>2. IsAlive(bound[d]) /\ pipe[bound[d]] = d /\ peer[bound[d]] = peer[d]
      BY <3>1 DEF PipesInv, OpenConnFeedsItsSession
    <3>3. bound[d] \in Conns /\ bound[d] # c
      BY <1>2, <1>3, <3>1, <3>2 DEF IsAlive, TypeOK
    <3> QED BY <1>1, <1>2, <3>1, <3>2, <3>3 DEF TypeOK, IsAlive
  <2> QED BY <2>1, <2>2
<1> QED BY <1>5, <1>6, <1>7, <1>8, <1>9 DEF PipesInv

LEMMA PipesInvStep == PipesInv /\ [Next]_vars => PipesInv'
<1> SUFFICES ASSUME PipesInv, [Next]_vars PROVE PipesInv'
  OBVIOUS
<1> USE DEF cbVars, netVars, srvVars
<1>a. TypeOK /\ ConnsInv'
  BY ConnsInvStep DEF PipesInv, ConnsInv
<1>1. ASSUME NEW p \in Cbs, CbStep(p) PROVE PipesInv'
  <2>1. CASE Connect(p)
    BY <1>a, <2>1, PipesInvConnect
  <2>2. CASE OnConnect(p)
    BY <1>a, <2>2, PipesInvKept DEF OnConnect
  <2>3. CASE OnPing(p)
    BY <1>a, <2>3, PipesInvKept DEF OnPing
  <2>4. CASE OnAuthFailed(p)
    BY <1>a, <2>4, PipesInvKept DEF OnAuthFailed
  <2>5. CASE OnOtherError(p)
    BY <1>a, <2>5, PipesInvKept DEF OnOtherError
  <2>6. CASE OnClose(p)
    BY <1>a, <2>6, PipesInvKept DEF OnClose
  <2>7. CASE OnExit(p)
    BY <1>a, <2>7, PipesInvKept DEF OnExit
  <2>8. CASE Exit(p)
    BY <1>a, <2>8, PipesInvKept DEF Exit
  <2> QED BY <1>1, <2>1, <2>2, <2>3, <2>4, <2>5, <2>6, <2>7, <2>8 DEF CbStep
<1>2. ASSUME NEW p \in Cbs, CbFault(p) PROVE PipesInv'
  <2>1. CASE ChildDies(p)
    BY <1>a, <2>1, PipesInvKept DEF ChildDies
  <2>2. CASE Crash(p)
    BY <1>a, <2>2, PipesInvKept DEF Crash
  <2>3. CASE PingWatchdog(p)
    BY <1>a, <2>3, PipesInvKept DEF PingWatchdog
  <2> QED BY <1>2, <2>1, <2>2, <2>3 DEF CbFault
<1>3. ASSUME NEW S, NEW D, Bury(S, D), \A o \in S : IsAlive(o) PROVE PipesInv'
  BY <1>a, <1>3, PipesInvBury DEF IsAlive
<1>4. ASSUME NEW p \in Cbs, InjectProbe(p) PROVE PipesInv'
  <2>1. \A o \in {registry[p]} : IsAlive(o)
    BY <1>4 DEF InjectProbe, PidGone
  <2> QED BY <1>3, <1>4, <2>1 DEF InjectProbe
<1>5. ASSUME NEW c \in Conns, DaemonStep(c) PROVE PipesInv'
  <2>1. ASSUME sEnd[c] = "open", bound[c] # None PROVE IsAlive(bound[c])
    BY <2>1 DEF PipesInv, OpenConnFeedsItsSession
  <2>2. CASE RefuseSecret(c) \/ RefuseLabel(c)
    <3>1. PICK error : HelloFirst(c) /\ Refuse(c, error)
      BY <2>2 DEF RefuseSecret, RefuseLabel
    <3> QED BY <1>a, <3>1, PipesInvKept DEF Refuse, HelloFirst, Readable, TypeOK
  <2>3. CASE Resume(c)
    BY <1>a, <2>3, PipesInvResume
  <2>4. CASE Register(c)
    BY <1>a, <2>4, PipesInvRegister
  <2>5. CASE OnPong(c)
    BY <1>a, <2>5, PipesInvKept DEF OnPong
  <2>6. CASE OnBye(c)
    <3>1. \A o \in {bound[c]} : IsAlive(o)
      BY <2>1, <2>6 DEF OnBye, Readable
    <3> QED BY <1>3, <2>6, <3>1 DEF OnBye
  <2>7. CASE Heartbeat(c)
    BY <1>a, <2>7, PipesInvKept DEF Heartbeat
  <2>8. CASE HeartbeatLost(c)
    <3>1. \A o \in {bound[c]} : IsAlive(o)
      BY <2>1, <2>8 DEF HeartbeatLost
    <3> QED BY <1>3, <2>8, <3>1 DEF HeartbeatLost
  <2>9. CASE HandleClose(c)
    BY <1>a, <2>9, PipesInvHandleClose
  <2> QED BY <1>5, <2>2, <2>3, <2>4, <2>5, <2>6, <2>7, <2>8, <2>9 DEF DaemonStep
<1>6. ASSUME NEW c \in Conns, HandshakeTimeout(c) PROVE PipesInv'
  BY <1>a, <1>6, PipesInvKept DEF HandshakeTimeout, Destroy
<1>7. ASSUME NEW c \in Conns, PipeBreak(c) PROVE PipesInv'
  BY <1>a, <1>7, PipesInvKept DEF PipeBreak, TypeOK
<1>8. ASSUME DaemonTimer PROVE PipesInv'
  <2>1. CASE PidPoll
    <3>1. \A o \in PidGone : IsAlive(o)
      BY DEF PidGone
    <3> QED BY <1>3, <2>1, <3>1 DEF PidPoll
  <2>2. CASE SweepDead
    BY <1>a, <2>2, PipesInvKept DEF SweepDead
  <2> QED BY <1>8, <2>1, <2>2 DEF DaemonTimer
<1>9. CASE UNCHANGED vars
  BY <1>a, <1>9, PipesInvKept DEF vars
<1> QED BY <1>1, <1>2, <1>4, <1>5, <1>6, <1>7, <1>8, <1>9 DEF Next

LEMMA PipesInvInit == Init => PipesInv
BY ConnsInvInit
DEF Init, PipesInv, BoundToOwnSession, CreatorStaysBound, RegistryHoldsOwnSessions,
    LiveSessionHasPipe, OpenConnFeedsItsSession, IsAlive

LEMMA PipesInvAlways == Spec => []PipesInv
BY PipesInvInit, PipesInvStep, PTL DEF Spec

\* A live session has, at every moment, a connection whose close finds it again:
\* no order of resumes, byes, losses and late closes leaves a session alive that
\* nothing can ever mark dead.
THEOREM LivePipe == Spec => []LiveSessionHasPipe
<1>1. PipesInv => LiveSessionHasPipe
  BY DEF PipesInv
<1> QED BY <1>1, PipesInvAlways, PTL

\* What arrives on an open cb connection is for the live session that answers on
\* it: frames of a superseded or dead connection reach no session.
THEOREM OneFeedingConnection == Spec => []OpenConnFeedsItsSession
<1>1. PipesInv => OpenConnFeedsItsSession
  BY DEF PipesInv
<1> QED BY <1>1, PipesInvAlways, PTL

-----------------------------------------------------------------------------
(* Labels: a name is free among the living, and the dead give theirs up *)

(***************************************************************************)
(* Two registered sessions never share a label: a new name is free among   *)
(* the live ones (SuffixIsFree), the dead ones that hold it are renamed to *)
(* tags of their own, and a tagged session is never renamed again nor      *)
(* comes back to life (TagsNameTheDead).                                   *)
(***************************************************************************)
LabelsInv ==
  /\ PipesInv
  /\ TagsNameTheDead
  /\ LabelsUnambiguous

LEMMA LabelsInvKept ==
  ASSUME LabelsInv, PipesInv', UNCHANGED label,
         \A p \in Cbs : registry'[p] \in {registry[p], None},
         \A o \in Conns : status[o] = "dead" => status'[o] = "dead"
  PROVE  LabelsInv'
<1>1. TagsNameTheDead'
  BY DEF LabelsInv, TagsNameTheDead
<1>2. Registered' \subseteq Registered
  BY DEF Registered
<1>3. LabelsUnambiguous'
  BY <1>2 DEF LabelsInv, LabelsUnambiguous
<1> QED BY <1>1, <1>3 DEF LabelsInv

LEMMA LabelsInvBury ==
  ASSUME LabelsInv, PipesInv', NEW S, NEW D, Bury(S, D)
  PROVE  LabelsInv'
BY LabelsInvKept DEF Bury, MarkDead

LEMMA LabelsInvRegister ==
  ASSUME LabelsInv, PipesInv', NEW c \in Conns, Register(c)
  PROVE  LabelsInv'
<1> DEFINE p == peer[c]
           reg == RegistryForNew(c)
           name == LabelAt[p][Suffix(reg, p)]
<1>1. /\ label' = [o \in Conns |-> IF o = c THEN Label(name)
                                   ELSE IF Collides(reg, o, name) THEN [name |-> name, tag |-> o]
                                   ELSE label[o]]
      /\ registry' = [reg EXCEPT ![p] = c]
      /\ status' = [status EXCEPT ![c] = "alive"]
  BY DEF Register
<1>2. TypeOK /\ HelloFirst(c)
  BY DEF Register, HelloAccepted, LabelsInv, PipesInv, ConnsInv
<1>3. p \in Cbs /\ status[c] = "none"
  BY <1>2, HelloIsUnbound DEF LabelsInv
<1>4. ~Taken(reg, name)
  BY <1>3, SuffixIsFree
<1>5. reg \in [Cbs -> Conns \union {None}] /\ \A q \in Cbs : reg[q] \in {registry[q], None}
  BY <1>2 DEF RegistryForNew, TypeOK
<1> HIDE DEF p, reg, name
<1>6. TagsNameTheDead'
  <2> SUFFICES ASSUME NEW o \in Conns, label'[o].tag # None
               PROVE  label'[o].tag = o /\ status'[o] = "dead"
    BY DEF TagsNameTheDead
  <2>1. o # c
    BY <1>1 DEF Label
  <2>2. status'[o] = status[o]
    BY <1>1, <1>2, <2>1 DEF TypeOK
  <2>3. CASE Collides(reg, o, name)
    BY <1>1, <2>1, <2>2, <2>3 DEF Collides
  <2>4. CASE ~Collides(reg, o, name)
    <3>1. label'[o] = label[o]
      BY <1>1, <2>1, <2>4
    <3> QED BY <2>2, <3>1 DEF LabelsInv, TagsNameTheDead
  <2> QED BY <2>3, <2>4
\* A registered session other than the new one was registered before, and exists.
<1>7. \A o \in Registered' \ {c} : /\ o \in Registered
                                   /\ o \in Conns
                                   /\ status[o] \in {"alive", "dead"}
                                   /\ \E q \in Cbs : reg[q] = o
  <2> TAKE o \in Registered' \ {c}
  <2>1. PICK q \in Cbs : registry'[q] = o /\ o # None
    BY DEF Registered
  <2>2. reg[q] = o /\ registry[q] = o
    BY <1>1, <1>3, <1>5, <2>1
  <2>3. status[o] # "none" /\ o \in Conns
    BY <1>2, <2>1, <2>2 DEF LabelsInv, PipesInv, RegistryHoldsOwnSessions, TypeOK
  <2> QED BY <1>2, <2>1, <2>2, <2>3 DEF Registered, TypeOK
<1>8. \A o \in Registered' \ {c} : label'[o] # Label(name)
  <2> TAKE o \in Registered' \ {c}
  <2>1. o \in Conns /\ o # c /\ o # None /\ (IsAlive(o) \/ status[o] = "dead")
    BY <1>7 DEF IsAlive, Registered
  <2>2. CASE Collides(reg, o, name)
    <3>1. label'[o] = [name |-> name, tag |-> o]
      BY <1>1, <2>1, <2>2
    <3> QED BY <2>1, <3>1 DEF Label
  <2>3. CASE ~Collides(reg, o, name)
    <3>1. label'[o] = label[o]
      BY <1>1, <2>1, <2>3
    <3>2. CASE IsAlive(o)
      BY <1>4, <1>7, <2>1, <3>1, <3>2 DEF Taken
    <3>3. CASE status[o] = "dead"
      BY <1>7, <2>3, <3>1, <3>3 DEF Collides
    <3> QED BY <2>1, <3>2, <3>3
  <2> QED BY <2>2, <2>3
<1>9. ASSUME NEW o1 \in Registered' \ {c}, NEW o2 \in Registered' \ {c}, o1 # o2
      PROVE  label'[o1] # label'[o2]
  <2>1. /\ o1 \in Conns /\ o1 # c /\ o1 # None
        /\ o2 \in Conns /\ o2 # c /\ o2 # None
        /\ label[o1] # label[o2]
    BY <1>7, <1>9 DEF LabelsInv, LabelsUnambiguous, Registered
  <2>2. \A o \in {o1, o2} : \/ label'[o] = [name |-> name, tag |-> o]
                            \/ label'[o] = label[o]
    BY <1>1, <2>1
  <2>3. \A o \in {o1, o2} : label[o].tag # None => label[o].tag = o
    BY <2>1 DEF LabelsInv, TagsNameTheDead
  <2> QED BY <1>9, <2>1, <2>2, <2>3
<1>10. LabelsUnambiguous'
  <2>1. label'[c] = Label(name)
    BY <1>1
  <2> QED BY <1>8, <1>9, <2>1 DEF LabelsUnambiguous
<1> QED BY <1>6, <1>10 DEF LabelsInv

LEMMA LabelsInvStep == LabelsInv /\ [Next]_vars => LabelsInv'
<1> SUFFICES ASSUME LabelsInv, [Next]_vars PROVE LabelsInv'
  OBVIOUS
<1> USE DEF cbVars, netVars, srvVars
<1>a. PipesInv'
  BY PipesInvStep DEF LabelsInv
<1>1. ASSUME NEW p \in Cbs, CbStep(p) \/ CbFault(p) PROVE LabelsInv'
  <2>1. UNCHANGED srvVars
    BY <1>1 DEF CbStep, CbFault, Connect, OnConnect, OnPing, OnAuthFailed, OnOtherError,
                OnClose, OnExit, Exit, ChildDies, Crash, PingWatchdog
  <2> QED BY <1>a, <2>1, LabelsInvKept
<1>2. ASSUME NEW p \in Cbs, InjectProbe(p) PROVE LabelsInv'
  BY <1>a, <1>2, LabelsInvBury DEF InjectProbe
<1>3. ASSUME NEW c \in Conns, DaemonStep(c) PROVE LabelsInv'
  <2>1. CASE RefuseSecret(c) \/ RefuseLabel(c)
    BY <1>a, <2>1, LabelsInvKept DEF RefuseSecret, RefuseLabel, Refuse
  <2>2. CASE Resume(c)
    BY <1>a, <2>2, LabelsInvKept DEF Resume
  <2>3. CASE Register(c)
    BY <1>a, <2>3, LabelsInvRegister
  <2>4. CASE OnPong(c)
    BY <1>a, <2>4, LabelsInvKept DEF OnPong
  <2>5. CASE OnBye(c) \/ HeartbeatLost(c)
    BY <1>a, <2>5, LabelsInvBury DEF OnBye, HeartbeatLost
  <2>6. CASE Heartbeat(c)
    BY <1>a, <2>6, LabelsInvKept DEF Heartbeat
  <2>7. CASE HandleClose(c)
    BY <1>a, <2>7, LabelsInvKept DEF HandleClose, MarkDead
  <2> QED BY <1>3, <2>1, <2>2, <2>3, <2>4, <2>5, <2>6, <2>7 DEF DaemonStep
<1>4. ASSUME NEW c \in Conns, HandshakeTimeout(c) \/ PipeBreak(c) PROVE LabelsInv'
  BY <1>a, <1>4, LabelsInvKept DEF HandshakeTimeout, PipeBreak
<1>5. ASSUME DaemonTimer PROVE LabelsInv'
  <2>1. CASE PidPoll
    BY <1>a, <2>1, LabelsInvBury DEF PidPoll
  <2>2. CASE SweepDead
    BY <1>a, <2>2, LabelsInvKept DEF SweepDead
  <2> QED BY <1>5, <2>1, <2>2 DEF DaemonTimer
<1>6. CASE UNCHANGED vars
  BY <1>a, <1>6, LabelsInvKept DEF vars
<1> QED BY <1>1, <1>2, <1>3, <1>4, <1>5, <1>6 DEF Next

LEMMA LabelsInvInit == Init => LabelsInv
<1>1. Init => TagsNameTheDead
  <2>1. NoLabel.tag = None
    BY DEF NoLabel, Label
  <2> QED BY <2>1 DEF Init, TagsNameTheDead
<1>2. Init => LabelsUnambiguous
  <2>1. Init => Registered = {}
    BY DEF Init, Registered
  <2> QED BY <2>1 DEF LabelsUnambiguous
<1> QED BY <1>1, <1>2, PipesInvInit DEF LabelsInv

\* The labels bridge_list shows are pairwise different, so a master that asks for
\* one by its full label is never told "ambiguous" nor led to a namesake, however
\* many terminals share a directory and however often they come and go.
THEOREM LabelsStayUnambiguous == Spec => []LabelsUnambiguous
<1>1. LabelsInv => LabelsUnambiguous
  BY DEF LabelsInv
<1> QED BY <1>1, LabelsInvInit, LabelsInvStep, PTL DEF Spec

-----------------------------------------------------------------------------
(***************************************************************************)
(* A healthy session is never marked dead.  The proof counts: the missed   *)
(* pongs of a session are pings of its present pipe that are unanswered,   *)
(* so the heartbeat cannot give up on a pipe that leaves fewer than        *)
(* MissLimit of them, and no other path of the daemon buries the session   *)
(* of an open pipe whose child runs.                                       *)
(***************************************************************************)

-----------------------------------------------------------------------------
(* Counting frames in flight *)

LEMMA InFlightType ==
  ASSUME NEW S, NEW s \in Seq(S), NEW f
  PROVE  /\ InFlight(s, f) \in Nat
         /\ IsFiniteSet({i \in 1..Len(s) : s[i] = f})
<1>1. IsFiniteSet(1..Len(s))
  BY FS_Interval, LenProperties
<1>2. {i \in 1..Len(s) : s[i] = f} \in SUBSET (1..Len(s))
  OBVIOUS
<1>3. IsFiniteSet({i \in 1..Len(s) : s[i] = f})
  BY <1>1, <1>2, FS_Subset
<1> QED BY <1>3, FS_CardinalityType DEF InFlight

LEMMA InFlightEmpty ==
  ASSUME NEW f
  PROVE  InFlight(<<>>, f) = 0
<1>1. {i \in 1..Len(<<>>) : <<>>[i] = f} = {}
  OBVIOUS
<1> QED BY <1>1, FS_EmptySet DEF InFlight

LEMMA InFlightAppend ==
  ASSUME NEW S, NEW s \in Seq(S), NEW g \in S, NEW f
  PROVE  InFlight(Append(s, g), f) = IF g = f THEN InFlight(s, f) + 1 ELSE InFlight(s, f)
<1> DEFINE A == {i \in 1..Len(s) : s[i] = f}
           B == {i \in 1..Len(Append(s, g)) : Append(s, g)[i] = f}
<1>1. Len(s) \in Nat /\ Len(Append(s, g)) = Len(s) + 1
  BY AppendProperties, LenProperties
<1>2. /\ \A i \in 1..Len(s) : Append(s, g)[i] = s[i]
      /\ Append(s, g)[Len(s) + 1] = g
  BY AppendProperties
<1>3. IsFiniteSet(A)
  BY InFlightType
<1>4. CASE g = f
  <2>1. B = A \cup {Len(s) + 1} /\ Len(s) + 1 \notin A
    BY <1>1, <1>2, <1>4
  <2> QED BY <1>3, <1>4, <2>1, FS_AddElement DEF InFlight
<1>5. CASE g # f
  <2>1. B = A
    BY <1>1, <1>2, <1>5
  <2> QED BY <1>5, <2>1 DEF InFlight
<1> QED BY <1>4, <1>5

LEMMA InFlightTail ==
  ASSUME NEW S, NEW s \in Seq(S), s # <<>>, NEW f
  PROVE  InFlight(Tail(s), f) = IF Head(s) = f THEN InFlight(s, f) - 1 ELSE InFlight(s, f)
<1> DEFINE A == {i \in 1..Len(s) : s[i] = f}
           R == A \ {1}
           T == {i \in 1..Len(Tail(s)) : Tail(s)[i] = f}
           shift == [i \in T |-> i + 1]
<1>1. Len(s) \in Nat \ {0} /\ Len(Tail(s)) = Len(s) - 1 /\ Head(s) = s[1]
  BY HeadTailProperties, LenProperties
<1>2. \A i \in 1..Len(Tail(s)) : Tail(s)[i] = s[i + 1]
  BY HeadTailProperties
<1>3. IsFiniteSet(A)
  BY InFlightType
<1>4. Tail(s) \in Seq(S)
  BY HeadTailProperties
<1>5. IsFiniteSet(T)
  BY <1>4, InFlightType
<1>6. ExistsBijection(T, R)
  <2>1. \A i \in T : i \in Nat /\ i + 1 \in R
    BY <1>1, <1>2
  <2>2. shift \in [T -> R]
    BY <2>1
  <2>3. \A i, j \in T : shift[i] = shift[j] => i = j
    BY <2>1
  <2>4. \A k \in R : \E i \in T : shift[i] = k
    <3> TAKE k \in R
    <3>1. k - 1 \in T /\ (k - 1) + 1 = k
      BY <1>1, <1>2
    <3> QED BY <3>1
  <2>5. shift \in Bijection(T, R)
    <3> HIDE DEF shift, T, R
    <3> QED BY <2>2, <2>3, <2>4, Fun_IsBij
  <2> QED BY <2>5 DEF ExistsBijection
<1>7. Cardinality(R) = Cardinality(T)
  <2> HIDE DEF T, R
  <2> QED BY <1>5, <1>6, FS_Bijection
<1>8. Cardinality(R) = IF 1 \in A THEN Cardinality(A) - 1 ELSE Cardinality(A)
  <2> HIDE DEF A
  <2> QED BY <1>3, FS_RemoveElement
<1>9. 1 \in A <=> Head(s) = f
  BY <1>1
<1> QED BY <1>7, <1>8, <1>9 DEF InFlight

\* Distinct frames are distinct values.
LEMMA FramesDiffer ==
  Bye # Pong /\ \A b : Hello(b) # Pong /\ Hello(b) # Bye
<1>1. Bye.t = "bye" /\ Pong.t = "pong" /\ \A b : Hello(b).t = "hello"
  BY DEF Bye, Pong, Hello
<1> QED BY <1>1

-----------------------------------------------------------------------------
(* Where the frames on their way to the daemon come from *)

\* Frame f is the one cb p writes in this step.
Writes(p, f) ==
  \/ OnConnect(p) /\ f = Hello(isReconnect[p])
  \/ OnPing(p) /\ f = Pong
  \/ OnExit(p) /\ f = Bye

LEMMA SentNoLonger ==
  ASSUME TypeOK, NEW c \in Conns, NEW f, Sent(c, f)',
         \/ toServer'[c] = toServer[c]
         \/ toServer'[c] = <<>>
         \/ toServer[c] # <<>> /\ toServer'[c] = Tail(toServer[c])
  PROVE  Sent(c, f)
<1>1. toServer[c] \in Seq(ServerFrames)
  BY DEF TypeOK
<1>2. CASE toServer'[c] = toServer[c]
  BY <1>2 DEF Sent
<1>3. CASE toServer'[c] = <<>>
  BY <1>3 DEF Sent
<1>4. CASE toServer[c] # <<>> /\ toServer'[c] = Tail(toServer[c])
  <2>1. PICK i \in 1..Len(toServer'[c]) : toServer'[c][i] = f
    BY DEF Sent
  <2>2. toServer[c][i + 1] = f /\ i + 1 \in 1..Len(toServer[c])
    BY <1>1, <1>4, <2>1, HeadTailProperties, LenProperties
  <2> QED BY <2>2 DEF Sent
<1> QED BY <1>2, <1>3, <1>4

LEMMA SentNewly ==
  ASSUME TypeOK, NEW c \in Conns, NEW f, Sent(c, f)', NEW s, NEW g \in ServerFrames,
         toServer' = [toServer EXCEPT ![s] = Written(s, g)]
  PROVE  Sent(c, f) \/ (c = s /\ f = g)
<1>1. toServer[c] \in Seq(ServerFrames)
  BY DEF TypeOK
<1>2. CASE toServer'[c] = toServer[c]
  BY <1>1, <1>2, SentNoLonger
<1>3. CASE c = s /\ toServer'[c] = Append(toServer[c], g)
  <2>1. PICK i \in 1..Len(toServer'[c]) : toServer'[c][i] = f
    BY DEF Sent
  <2>2. CASE i \in 1..Len(toServer[c])
    <3>1. toServer[c][i] = f
      BY <1>1, <1>3, <2>1, <2>2, AppendProperties
    <3> QED BY <2>2, <3>1 DEF Sent
  <2>3. CASE i \notin 1..Len(toServer[c])
    <3>1. i = Len(toServer[c]) + 1
      BY <1>1, <1>3, <2>1, <2>3, AppendProperties, LenProperties
    <3> QED BY <1>1, <1>3, <2>1, <3>1, AppendProperties
  <2> QED BY <2>2, <2>3
<1>4. CASE c # s
  BY <1>2, <1>4 DEF TypeOK
<1>5. CASE c = s
  <2>1. toServer'[c] \in {toServer[c], Append(toServer[c], g)}
    BY <1>5 DEF Written, TypeOK
  <2> QED BY <1>2, <1>3, <1>5, <2>1
<1> QED BY <1>4, <1>5

\* Only cbs write frames, each on its own socket, and nothing reorders them into
\* new ones: a frame in flight was in flight before or is being written.
LEMMA FrameOrigin ==
  ASSUME TypeOK, [Next]_vars, NEW c \in Conns, NEW f, Sent(c, f)'
  PROVE  Sent(c, f) \/ \E p \in Cbs : c = sock[p] /\ Writes(p, f)
<1> USE DEF cbVars, netVars, srvVars
<1>1. ASSUME NEW p \in Cbs, OnConnect(p)
      PROVE  Sent(c, f) \/ (c = sock[p] /\ Writes(p, f))
  <2>1. Hello(isReconnect[p]) \in ServerFrames
    BY FramesAreTyped DEF TypeOK
  <2> QED BY <1>1, <2>1, SentNewly DEF OnConnect, Writes
<1>2. ASSUME NEW p \in Cbs, OnPing(p)
      PROVE  Sent(c, f) \/ (c = sock[p] /\ Writes(p, f))
  <2>1. CASE toServer' = [toServer EXCEPT ![sock[p]] = Written(sock[p], Pong)]
    BY <1>2, <2>1, FramesAreTyped, SentNewly DEF Writes
  <2>2. CASE toServer' = [toServer EXCEPT ![sock[p]] = toServer[sock[p]]]
    <3>1. toServer'[c] = toServer[c]
      BY <2>2 DEF TypeOK
    <3> QED BY <3>1, SentNoLonger
  <2> QED BY <1>2, <2>1, <2>2 DEF OnPing
<1>3. ASSUME NEW p \in Cbs, OnExit(p)
      PROVE  Sent(c, f) \/ (c = sock[p] /\ Writes(p, f))
  <2>1. CASE toServer' = [toServer EXCEPT ![sock[p]] = Written(sock[p], Bye)]
    BY <1>3, <2>1, FramesAreTyped, SentNewly DEF Writes
  <2>2. CASE toServer' = toServer
    BY <2>2, SentNoLonger
  <2> QED BY <1>3, <2>1, <2>2 DEF OnExit
<1>4. ASSUME NEW S, NEW D, Bury(S, D) PROVE Sent(c, f)
  BY <1>4, SentNoLonger DEF Bury, Destroy
<1>5. ASSUME NEW d \in Conns, RefuseSecret(d) \/ RefuseLabel(d) PROVE Sent(c, f)
  <2>1. toServer' = [toServer EXCEPT ![d] = <<>>]
    BY <1>5 DEF RefuseSecret, RefuseLabel, Refuse
  <2> QED BY <2>1, SentNoLonger DEF TypeOK
<1>6. ASSUME NEW d \in Conns, Resume(d) PROVE Sent(c, f)
  BY <1>6, SentNoLonger DEF Resume, HelloAccepted, HelloFirst, Readable
<1>7. ASSUME NEW d \in Conns, Register(d) \/ OnPong(d) PROVE Sent(c, f)
  <2>1. toServer[d] # <<>> /\ toServer' = [toServer EXCEPT ![d] = Tail(@)]
    BY <1>7 DEF Register, OnPong, HelloAccepted, HelloFirst, Readable
  <2> QED BY <2>1, SentNoLonger DEF TypeOK
<1>8. ASSUME NEW d \in Conns, HandshakeTimeout(d) PROVE Sent(c, f)
  BY <1>8, SentNoLonger DEF HandshakeTimeout, Destroy
<1>9. ASSUME NEW d \in Conns, PipeBreak(d) PROVE Sent(c, f)
  BY <1>9, SentNoLonger DEF PipeBreak, TypeOK
<1>10. ASSUME UNCHANGED toServer PROVE Sent(c, f)
  BY <1>10, SentNoLonger
<1>11. ASSUME NEW p \in Cbs,
              \/ Connect(p) \/ OnAuthFailed(p) \/ OnOtherError(p) \/ OnClose(p) \/ Exit(p)
              \/ CbFault(p)
       PROVE  UNCHANGED toServer
  BY <1>11 DEF Connect, OnAuthFailed, OnOtherError, OnClose, Exit, CbFault, ChildDies, Crash,
               PingWatchdog
<1>12. ASSUME NEW d \in Conns, Heartbeat(d) \/ HandleClose(d) PROVE UNCHANGED toServer
  BY <1>12 DEF Heartbeat, HandleClose
<1>13. ASSUME SweepDead \/ UNCHANGED vars PROVE UNCHANGED toServer
  BY <1>13 DEF SweepDead, vars
<1> QED
  BY <1>1, <1>2, <1>3, <1>4, <1>5, <1>6, <1>7, <1>8, <1>9, <1>10, <1>11, <1>12, <1>13
  DEF Next, CbStep, DaemonStep, DaemonTimer, InjectProbe, PidPoll, OnBye, HeartbeatLost

\* What is on its way was written on an opened connection.
LEMMA SentIsOpened ==
  ASSUME ConnsInv, NEW c \in Conns, NEW f, Sent(c, f)
  PROVE  c < nextConn /\ peer[c] \in Cbs
<1>1. toServer[c] # <<>>
  BY DEF Sent
<1>2. ~(c >= nextConn) /\ c \in Nat /\ nextConn \in Nat
  BY <1>1, BoundsAssumption DEF ConnsInv, TypeOK, UnopenedUntouched, Conns
<1> QED BY <1>2 DEF ConnsInv, OpenedHavePeer

\* An opened connection keeps its peer, and a child that has exited stays so.
LEMMA PeersStay ==
  ASSUME ConnsInv, [Next]_vars
  PROVE  /\ \A c \in Conns : c < nextConn => peer'[c] = peer[c]
         /\ \A p \in Cbs : ~PidAlive(p) => ~PidAlive(p)'
         /\ \A c \in Conns : peer'[c] # peer[c] => c = nextConn /\ UNCHANGED toServer
<1> USE DEF cbVars, netVars, srvVars
<1>1. TypeOK /\ nextConn \in Nat
  BY BoundsAssumption DEF ConnsInv, TypeOK
<1>2. ASSUME NEW p \in Cbs, Connect(p)
      PROVE  peer' = [peer EXCEPT ![nextConn] = p] /\ UNCHANGED <<child, toServer>>
  BY <1>2 DEF Connect
<1>3. ASSUME NEW p \in Cbs, ChildDies(p)
      PROVE  peer' = peer /\ child' = [child EXCEPT ![p] = "exited"]
  BY <1>3 DEF ChildDies
<1>4. \/ \E p \in Cbs : Connect(p) \/ ChildDies(p)
      \/ UNCHANGED <<child, peer>>
  BY DEF Next, CbStep, CbFault, DaemonStep, DaemonTimer, OnConnect, OnPing, OnAuthFailed,
         OnOtherError, OnClose, OnExit, Exit, Crash, PingWatchdog, InjectProbe, Bury,
         RefuseSecret, RefuseLabel, Refuse, Resume, Register, OnPong, OnBye, Heartbeat,
         HeartbeatLost, HandleClose, HandshakeTimeout, PipeBreak, PidPoll, SweepDead, vars
<1> QED BY <1>1, <1>2, <1>3, <1>4 DEF TypeOK, PidAlive

-----------------------------------------------------------------------------
(* A bye in flight means the child has exited *)

ExitInv == PipesInv /\ ByeMeansExit

LEMMA ExitInvStep == ExitInv /\ [Next]_vars => ExitInv'
<1> SUFFICES ASSUME ExitInv, [Next]_vars PROVE ExitInv'
  OBVIOUS
<1>1. PipesInv' /\ ConnsInv /\ TypeOK
  BY PipesInvStep DEF ExitInv, PipesInv, ConnsInv
<1>2. ASSUME NEW c \in Conns, Sent(c, Bye)' PROVE ~PidAlive(peer[c])'
  <2>1. c < nextConn /\ peer[c] \in Cbs /\ ~PidAlive(peer[c])
    <3>1. CASE Sent(c, Bye)
      BY <1>1, <3>1, SentIsOpened DEF ExitInv, ByeMeansExit
    <3>2. CASE \E p \in Cbs : c = sock[p] /\ Writes(p, Bye)
      <4>1. PICK p \in Cbs : c = sock[p] /\ OnExit(p)
        BY <3>2, FramesDiffer DEF Writes
      <4>2. c # None
        BY BoundsAssumption DEF Conns, None
      <4> QED BY <1>1, <4>1, <4>2, SocketIsOpened DEF OnExit
    <3> QED BY <1>1, <1>2, <3>1, <3>2, FrameOrigin
  <2>2. peer'[c] = peer[c]
    BY <1>1, <2>1, PeersStay
  <2> QED BY <1>1, <2>1, <2>2, PeersStay DEF PidAlive
<1> QED BY <1>1, <1>2 DEF ExitInv, ByeMeansExit

-----------------------------------------------------------------------------
(* Missed pongs are unanswered pings *)

UnansweredPings(o) ==
  IsAlive(o) /\ sEnd[pipe[o]] = "open" /\ cEnd[pipe[o]] = "open" =>
    missed[o] <= Unanswered(pipe[o])

HealthInv == ExitInv /\ MissedPongsAccounted

LEMMA AccountsAgree == MissedPongsAccounted <=> \A o \in Conns : UnansweredPings(o)
BY DEF MissedPongsAccounted, UnansweredPings

LEMMA UnansweredType ==
  ASSUME TypeOK, NEW c \in Conns
  PROVE  /\ InFlight(toClient[c], "ping") \in Nat
         /\ InFlight(toServer[c], Pong) \in Nat
BY InFlightType DEF TypeOK

\* The session of an alive session's pipe is that session, and the pipe is a connection.
LEMMA PipeIsConn ==
  ASSUME PipesInv, NEW o \in Conns, IsAlive(o)
  PROVE  pipe[o] \in Conns /\ bound[pipe[o]] = o /\ o # None
BY BoundsAssumption DEF PipesInv, LiveSessionHasPipe, ConnsInv, TypeOK, Conns, None

\* Nothing to count: the session, its pipe and the frames on it stay as they are,
\* unless one of the pipe's ends is gone after the step.
LEMMA AccountKept ==
  ASSUME HealthInv, NEW o \in Conns,
         status'[o] = "alive" => status[o] = "alive" /\ pipe'[o] = pipe[o],
         missed'[o] = missed[o],
         status'[o] = "alive" /\ sEnd'[pipe[o]] = "open" /\ cEnd'[pipe[o]] = "open" =>
           UNCHANGED <<sEnd[pipe[o]], cEnd[pipe[o]], toClient[pipe[o]], toServer[pipe[o]]>>
  PROVE  UnansweredPings(o)'
<1>1. UnansweredPings(o)
  BY AccountsAgree DEF HealthInv
<1> QED BY <1>1 DEF UnansweredPings, IsAlive, Unanswered

\* The cb writes a frame that is no pong.
LEMMA AccountWritten ==
  ASSUME HealthInv, NEW o \in Conns, NEW p \in Cbs, NEW f \in ServerFrames, f # Pong,
         UNCHANGED <<status, pipe, missed, sEnd, cEnd, toClient>>,
         toServer' = [toServer EXCEPT ![sock[p]] = Written(sock[p], f)]
  PROVE  UnansweredPings(o)'
<1>1. UnansweredPings(o) /\ TypeOK
  BY AccountsAgree DEF HealthInv, ExitInv, PipesInv, ConnsInv
<1>2. SUFFICES ASSUME IsAlive(o) PROVE UnansweredPings(o)'
  BY DEF UnansweredPings, IsAlive
<1>3. pipe[o] \in Conns
  BY <1>2, PipeIsConn DEF HealthInv, ExitInv
<1>4. toServer'[pipe[o]] \in {toServer[pipe[o]], Append(toServer[pipe[o]], f)}
  BY <1>1, <1>3 DEF TypeOK, Written
<1>5. toServer[pipe[o]] \in Seq(ServerFrames)
  BY <1>1, <1>3 DEF TypeOK
<1>6. InFlight(toServer'[pipe[o]], Pong) = InFlight(toServer[pipe[o]], Pong)
  <2>1. InFlight(Append(toServer[pipe[o]], f), Pong) = InFlight(toServer[pipe[o]], Pong)
    BY <1>5, InFlightAppend
  <2> QED BY <1>4, <2>1
<1> QED BY <1>1, <1>6 DEF UnansweredPings, IsAlive, Unanswered

LEMMA AccountOnPing ==
  ASSUME HealthInv, NEW o \in Conns, NEW p \in Cbs, OnPing(p)
  PROVE  UnansweredPings(o)'
<1> DEFINE s == sock[p]
<1>1. UnansweredPings(o) /\ TypeOK
  BY AccountsAgree DEF HealthInv, ExitInv, PipesInv, ConnsInv
<1>2. /\ s \in Conns
      /\ toClient[s] # <<>>
      /\ Head(toClient[s]) = "ping"
      /\ toClient' = [toClient EXCEPT ![s] = Tail(toClient[s])]
      /\ toServer' = [toServer EXCEPT ![s] =
                        IF InFlight(toServer[s], Pong) < MissLimit
                        THEN Written(s, Pong) ELSE toServer[s]]
      /\ UNCHANGED <<sEnd, cEnd, status, pipe, missed>>
  BY <1>1 DEF OnPing, Inbound, TypeOK, cbVars, srvVars
<1> HIDE DEF s
<1>3. CASE pipe[o] # s
  BY <1>1, <1>2, <1>3, AccountKept DEF TypeOK
<1>4. CASE pipe[o] = s /\ IsAlive(o) /\ sEnd[s] = "open" /\ cEnd[s] = "open"
  <2>1. /\ toClient[s] \in Seq(ClientFrames)
        /\ toServer[s] \in Seq(ServerFrames)
        /\ missed[o] \in 0..MissLimit
        /\ MissLimit \in Nat
    BY <1>1, <1>2, BoundsAssumption DEF TypeOK
  <2>2. InFlight(toClient'[s], "ping") = InFlight(toClient[s], "ping") - 1
    <3>1. toClient'[s] = Tail(toClient[s])
      BY <1>1, <1>2 DEF TypeOK
    <3> QED BY <1>2, <2>1, <3>1, InFlightTail
  <2>3. \/ InFlight(toServer'[s], Pong) = InFlight(toServer[s], Pong) + 1
        \/ InFlight(toServer'[s], Pong) \in Nat /\ InFlight(toServer'[s], Pong) >= MissLimit
    <3>1. CASE InFlight(toServer[s], Pong) < MissLimit
      <4>1. toServer'[s] = Append(toServer[s], Pong)
        BY <1>1, <1>2, <1>4, <3>1 DEF TypeOK, Written
      <4> QED BY <2>1, <4>1, FramesAreTyped, InFlightAppend
    <3>2. CASE ~(InFlight(toServer[s], Pong) < MissLimit)
      <4>1. toServer'[s] = toServer[s]
        BY <1>1, <1>2, <3>2 DEF TypeOK
      <4> QED BY <1>1, <1>2, <2>1, <3>2, <4>1, UnansweredType
    <3> QED BY <3>1, <3>2
  <2>4. missed[o] <= InFlight(toClient[s], "ping") + InFlight(toServer[s], Pong)
    BY <1>1, <1>4 DEF UnansweredPings, Unanswered
  <2>5. /\ InFlight(toClient[s], "ping") \in Nat
        /\ InFlight(toServer[s], Pong) \in Nat
        /\ InFlight(toClient'[s], "ping") \in Nat
    <3>1. toClient'[s] \in Seq(ClientFrames)
      BY <1>1, <1>2, <2>1, HeadTailProperties DEF TypeOK
    <3> QED BY <1>1, <1>2, <3>1, UnansweredType, InFlightType
  <2>6. missed[o] <= InFlight(toClient'[s], "ping") + InFlight(toServer'[s], Pong)
    BY <2>1, <2>2, <2>3, <2>4, <2>5
  <2> QED BY <1>2, <1>4, <2>6 DEF UnansweredPings, Unanswered
<1>5. CASE ~(IsAlive(o) /\ sEnd[pipe[o]] = "open" /\ cEnd[pipe[o]] = "open")
  BY <1>2, <1>5 DEF UnansweredPings, IsAlive
<1> QED BY <1>3, <1>4, <1>5

LEMMA AccountHeartbeat ==
  ASSUME HealthInv, NEW o \in Conns, NEW c \in Conns, Heartbeat(c)
  PROVE  UnansweredPings(o)'
<1>1. UnansweredPings(o) /\ TypeOK
  BY AccountsAgree DEF HealthInv, ExitInv, PipesInv, ConnsInv
<1>2. /\ bound[c] \in Conns
      /\ pipe[bound[c]] = c
      /\ missed[bound[c]] < MissLimit
      /\ missed' = [missed EXCEPT ![bound[c]] = @ + 1]
      /\ UNCHANGED <<sEnd, cEnd, toServer, status, pipe>>
  BY <1>1 DEF Heartbeat, PingsLeft, HealthInv, ExitInv, PipesInv, OpenConnFeedsItsSession, TypeOK
<1>3. SUFFICES ASSUME IsAlive(o), sEnd[pipe[o]] = "open", cEnd[pipe[o]] = "open"
               PROVE  missed'[o] <= Unanswered(pipe[o])'
  BY <1>2 DEF UnansweredPings, IsAlive
<1>4. pipe[o] \in Conns /\ bound[pipe[o]] = o
  BY <1>3, PipeIsConn DEF HealthInv, ExitInv
<1>5. missed[o] <= Unanswered(pipe[o])
  BY <1>1, <1>3 DEF UnansweredPings
<1>6. CASE o # bound[c]
  <2>1. pipe[o] # c /\ missed'[o] = missed[o]
    BY <1>1, <1>2, <1>4, <1>6 DEF TypeOK
  <2>2. toClient'[pipe[o]] = toClient[pipe[o]]
    BY <1>1, <1>4, <2>1 DEF Heartbeat, TypeOK
  <2> QED BY <1>2, <1>5, <2>1, <2>2 DEF Unanswered
<1>7. CASE o = bound[c]
  <2>1. pipe[o] = c /\ missed'[o] = missed[o] + 1 /\ missed[o] \in 0..MissLimit
    BY <1>1, <1>2, <1>7 DEF TypeOK
  <2>2. toClient[c] \in Seq(ClientFrames) /\ "ping" \in ClientFrames
    BY <1>1 DEF TypeOK, ClientFrames
  <2>3. \/ InFlight(toClient'[c], "ping") = InFlight(toClient[c], "ping") + 1
        \/ toClient'[c] = toClient[c] /\ InFlight(toClient[c], "ping") >= MissLimit
    <3>1. CASE InFlight(toClient[c], "ping") < MissLimit
      <4>1. toClient'[c] = Append(toClient[c], "ping")
        BY <1>1, <1>3, <2>1, <3>1 DEF Heartbeat, TypeOK
      <4> QED BY <2>2, <4>1, InFlightAppend
    <3>2. CASE ~(InFlight(toClient[c], "ping") < MissLimit)
      BY <1>1, <3>2, UnansweredType, BoundsAssumption DEF Heartbeat
    <3> QED BY <3>1, <3>2
  <2> QED BY <1>1, <1>2, <1>5, <2>1, <2>3, UnansweredType, BoundsAssumption DEF Unanswered
<1> QED BY <1>6, <1>7

LEMMA AccountBury ==
  ASSUME HealthInv, NEW o \in Conns, NEW S, NEW D, Bury(S, D)
  PROVE  UnansweredPings(o)'
<1>1. /\ status' = [x \in Conns |-> IF x \in S THEN "dead" ELSE status[x]]
      /\ pipe' = [x \in Conns |-> IF x \in S THEN None ELSE pipe[x]]
      /\ Destroy(Pipes(S) \union D)
      /\ UNCHANGED <<cEnd, missed>>
  BY DEF Bury, MarkDead
<1>2. ASSUME status'[o] = "alive" PROVE status[o] = "alive" /\ pipe'[o] = pipe[o] /\ pipe[o] \in Conns
  <2>1. o \notin S /\ status[o] = "alive" /\ pipe'[o] = pipe[o]
    BY <1>1, <1>2
  <2> QED BY <2>1, PipeIsConn DEF IsAlive, HealthInv, ExitInv
<1>3. ASSUME status'[o] = "alive", sEnd'[pipe[o]] = "open"
      PROVE  UNCHANGED <<sEnd[pipe[o]], toClient[pipe[o]], toServer[pipe[o]]>>
  BY <1>1, <1>2, <1>3 DEF Destroy
<1> QED BY <1>1, <1>2, <1>3, AccountKept

\* With no pong missed there is nothing to account for.
LEMMA AccountZero ==
  ASSUME TypeOK', NEW o \in Conns, missed'[o] = 0, pipe'[o] \in Conns
  PROVE  UnansweredPings(o)'
<1>1. toClient'[pipe'[o]] \in Seq(ClientFrames) /\ toServer'[pipe'[o]] \in Seq(ServerFrames)
  BY DEF TypeOK
<1>2. InFlight(toClient'[pipe'[o]], "ping") \in Nat /\ InFlight(toServer'[pipe'[o]], Pong) \in Nat
  BY <1>1, InFlightType
<1> QED BY <1>2 DEF UnansweredPings, Unanswered

LEMMA AccountResume ==
  ASSUME HealthInv, TypeOK', NEW o \in Conns, NEW c \in Conns, Resume(c)
  PROVE  UnansweredPings(o)'
<1> DEFINE prior == registry[peer[c]]
           old   == Superseded(prior, c)
<1>1. TypeOK /\ PipesInv
  BY DEF HealthInv, ExitInv, PipesInv, ConnsInv
<1>2. \A x \in Conns : IsAlive(x) => pipe[x] # c /\ pipe[x] \in Conns
  BY <1>1, HelloIsUnbound DEF Resume, HelloAccepted
<1>3. /\ pipe' = [pipe EXCEPT ![prior] = c]
      /\ missed' = [missed EXCEPT ![prior] = 0]
      /\ sEnd' = [d \in Conns |-> IF d \in old /\ sEnd[d] = "open" THEN "destroyed" ELSE sEnd[d]]
      /\ toServer' = [d \in Conns |-> IF d = c THEN Tail(toServer[c])
                                      ELSE IF d \in old THEN <<>> ELSE toServer[d]]
      /\ toClient' = [d \in Conns |-> IF d \in old THEN <<>> ELSE toClient[d]]
      /\ UNCHANGED <<cEnd, status>>
  BY DEF Resume, MissedAfterResume
<1> HIDE DEF prior, old
<1>4. CASE o = prior
  <2>1. missed'[o] = 0 /\ pipe'[o] = c
    BY <1>1, <1>3, <1>4 DEF TypeOK
  <2> QED BY <2>1, AccountZero
<1>5. CASE o # prior
  <2>1. missed'[o] = missed[o] /\ pipe'[o] = pipe[o] /\ status'[o] = status[o]
    BY <1>1, <1>3, <1>5 DEF TypeOK
  <2>2. ASSUME status[o] = "alive", sEnd'[pipe[o]] = "open"
        PROVE  UNCHANGED <<sEnd[pipe[o]], toClient[pipe[o]], toServer[pipe[o]]>>
    <3>1. pipe[o] \in Conns /\ pipe[o] # c
      BY <1>2, <2>2 DEF IsAlive
    <3>2. sEnd[pipe[o]] \in {"open", "destroyed"}
      BY <1>1, <2>2 DEF PipesInv, LiveSessionHasPipe, IsAlive
    <3>3. pipe[o] \notin old /\ sEnd[pipe[o]] = "open"
      BY <1>3, <2>2, <3>1, <3>2
    <3>4. toServer'[pipe[o]] = toServer[pipe[o]] /\ toClient'[pipe[o]] = toClient[pipe[o]]
      BY <1>3, <3>1, <3>3
    <3> QED BY <2>1, <2>2, <3>3, <3>4
  <2> QED BY <1>3, <2>1, <2>2, AccountKept
<1> QED BY <1>4, <1>5

LEMMA AccountRegister ==
  ASSUME HealthInv, TypeOK', NEW o \in Conns, NEW c \in Conns, Register(c)
  PROVE  UnansweredPings(o)'
<1>1. TypeOK /\ PipesInv
  BY DEF HealthInv, ExitInv, PipesInv, ConnsInv
<1>2. \A x \in Conns : IsAlive(x) => pipe[x] # c /\ pipe[x] \in Conns
  BY <1>1, HelloIsUnbound DEF Register, HelloAccepted
<1>3. CASE o = c
  <2>1. missed'[o] = 0 /\ pipe'[o] = c
    BY <1>1, <1>3 DEF Register, TypeOK
  <2> QED BY <2>1, AccountZero
<1>4. CASE o # c
  <2>1. missed'[o] = missed[o] /\ pipe'[o] = pipe[o] /\ status'[o] = status[o]
    BY <1>1, <1>4 DEF Register, TypeOK
  <2>2. ASSUME status[o] = "alive" PROVE toServer'[pipe[o]] = toServer[pipe[o]]
    BY <1>1, <1>2, <2>2 DEF Register, TypeOK, IsAlive
  <2>3. sEnd' = sEnd /\ cEnd' = cEnd /\ toClient' = toClient
    BY DEF Register
  <2>4. status'[o] = "alive" => UNCHANGED <<sEnd[pipe[o]], cEnd[pipe[o]], toClient[pipe[o]], toServer[pipe[o]]>>
    BY <2>1, <2>2, <2>3
  <2> QED BY <2>1, <2>4, AccountKept
<1> QED BY <1>3, <1>4

LEMMA HealthInvStep == HealthInv /\ [Next]_vars => HealthInv'
<1> SUFFICES ASSUME HealthInv, [Next]_vars PROVE HealthInv'
  OBVIOUS
<1> USE DEF cbVars, netVars, srvVars
<1>a. TypeOK /\ PipesInv /\ ExitInv'
  BY ExitInvStep DEF HealthInv, ExitInv, PipesInv, ConnsInv
<1>b. TypeOK'
  BY <1>a DEF ExitInv, PipesInv, ConnsInv
<1> SUFFICES ASSUME NEW o \in Conns PROVE UnansweredPings(o)'
  <2>1. MissedPongsAccounted' <=> \A o \in Conns : UnansweredPings(o)'
    BY DEF MissedPongsAccounted, UnansweredPings
  <2> QED BY <1>a, <2>1 DEF HealthInv
<1>c. IsAlive(o) => pipe[o] \in Conns /\ bound[pipe[o]] = o /\ o # None
  BY <1>a, PipeIsConn
<1>1. ASSUME NEW p \in Cbs, Connect(p) PROVE UnansweredPings(o)'
  <2>1. bound[nextConn] = None
    BY <1>1, BoundsAssumption DEF Connect, HealthInv, ExitInv, PipesInv, ConnsInv, UnopenedUntouched, Conns
  <2>2. status[o] = "alive" => pipe[o] # nextConn
    BY <1>c, <2>1 DEF IsAlive
  <2> QED BY <1>a, <1>1, <1>c, <2>2, AccountKept DEF Connect, TypeOK, IsAlive
<1>2. ASSUME NEW p \in Cbs, OnConnect(p) PROVE UnansweredPings(o)'
  <2>1. Hello(isReconnect[p]) \in ServerFrames /\ Hello(isReconnect[p]) # Pong
    BY <1>a, FramesAreTyped, FramesDiffer DEF TypeOK
  <2> QED BY <1>2, <2>1, AccountWritten DEF OnConnect
<1>3. ASSUME NEW p \in Cbs, OnExit(p) PROVE UnansweredPings(o)'
  <2>1. CASE toServer' = toServer
    BY <1>3, <2>1, AccountKept DEF OnExit
  <2>2. CASE toServer' = [toServer EXCEPT ![sock[p]] = Written(sock[p], Bye)]
    BY <1>3, <2>2, FramesAreTyped, FramesDiffer, AccountWritten DEF OnExit
  <2> QED BY <1>3, <2>1, <2>2 DEF OnExit
<1>4. ASSUME NEW p \in Cbs, OnPing(p) PROVE UnansweredPings(o)'
  BY <1>4, AccountOnPing
<1>5. ASSUME NEW p \in Cbs, PipeShutdown(p), UNCHANGED <<sEnd, toServer, status, pipe, missed>>,
             \A c \in Conns : c # sock[p] => toClient'[c] = toClient[c]
      PROVE  UnansweredPings(o)'
  BY <1>5, <1>c, AccountKept DEF PipeShutdown, IsAlive
<1>6. ASSUME NEW p \in Cbs, OnAuthFailed(p) PROVE UnansweredPings(o)'
  BY <1>a, <1>5, <1>6 DEF OnAuthFailed, Inbound, TypeOK
<1>7. ASSUME NEW p \in Cbs, Exit(p) \/ Crash(p) PROVE UnansweredPings(o)'
  <2>1. /\ PipeShutdown(p)
        /\ UNCHANGED <<sEnd, toServer, status, pipe, missed>>
        /\ toClient' = toClient
    BY <1>7 DEF Exit, Crash
  <2>2. \A c \in Conns : c # sock[p] => toClient'[c] = toClient[c]
    BY <2>1
  <2> QED BY <1>5, <2>1, <2>2
<1>8. ASSUME NEW p \in Cbs, OnOtherError(p) PROVE UnansweredPings(o)'
  <2>1. /\ sock[p] \in Conns
        /\ toClient[sock[p]] \in Seq(ClientFrames)
        /\ toClient[sock[p]] # <<>>
        /\ Head(toClient[sock[p]]) # "ping"
        /\ toClient' = [toClient EXCEPT ![sock[p]] = Tail(toClient[sock[p]])]
        /\ UNCHANGED <<sEnd, cEnd, toServer, status, pipe, missed>>
    BY <1>a, <1>8 DEF OnOtherError, Inbound, TypeOK
  <2>2. \A c \in Conns : InFlight(toClient'[c], "ping") = InFlight(toClient[c], "ping")
    <3>1. InFlight(Tail(toClient[sock[p]]), "ping") = InFlight(toClient[sock[p]], "ping")
      BY <2>1, InFlightTail
    <3> QED BY <1>a, <2>1, <3>1 DEF TypeOK
  <2>3. UnansweredPings(o)
    BY AccountsAgree DEF HealthInv
  <2> QED BY <1>c, <2>1, <2>2, <2>3 DEF UnansweredPings, IsAlive, Unanswered
<1>9. ASSUME NEW p \in Cbs, OnClose(p) PROVE UnansweredPings(o)'
  BY <1>a, <1>9, <1>c, AccountKept DEF OnClose, TypeOK, IsAlive
<1>10. ASSUME NEW p \in Cbs, ChildDies(p) PROVE UnansweredPings(o)'
  BY <1>10, AccountKept DEF ChildDies
<1>11. ASSUME NEW p \in Cbs, PingWatchdog(p) PROVE UnansweredPings(o)'
  BY <1>a, <1>11, <1>c, AccountKept DEF PingWatchdog, TypeOK, IsAlive
<1>12. ASSUME NEW S, NEW D, Bury(S, D) PROVE UnansweredPings(o)'
  BY <1>12, AccountBury
<1>13. ASSUME NEW c \in Conns, RefuseSecret(c) \/ RefuseLabel(c) PROVE UnansweredPings(o)'
  <2>1. PICK error : Refuse(c, error)
    BY <1>13 DEF RefuseSecret, RefuseLabel
  <2> QED BY <1>a, <1>c, <2>1, AccountKept DEF Refuse, TypeOK, IsAlive
<1>14. ASSUME NEW c \in Conns, Resume(c) \/ Register(c) PROVE UnansweredPings(o)'
  BY <1>b, <1>14, AccountResume, AccountRegister
<1>15. ASSUME NEW c \in Conns, OnPong(c) PROVE UnansweredPings(o)'
  <2>1. CASE o = bound[c]
    <3>1. missed'[o] = 0 /\ UNCHANGED <<status, pipe>>
      BY <1>a, <1>15, <2>1 DEF OnPong, TypeOK
    <3>2. IsAlive(o) => InFlight(toClient[pipe[o]], "ping")' \in Nat /\ InFlight(toServer[pipe[o]], Pong)' \in Nat
      BY <1>b, <1>c, <3>1, InFlightType DEF TypeOK
    <3> QED BY <3>1, <3>2 DEF UnansweredPings, Unanswered, IsAlive
  <2>2. CASE o # bound[c]
    BY <1>a, <1>15, <1>c, <2>2, AccountKept DEF OnPong, TypeOK, IsAlive
  <2> QED BY <2>1, <2>2
<1>16. ASSUME NEW c \in Conns, Heartbeat(c) PROVE UnansweredPings(o)'
  BY <1>16, AccountHeartbeat
<1>17. ASSUME NEW c \in Conns, HandleClose(c) PROVE UnansweredPings(o)'
  <2>1. status'[o] = "alive" => status[o] = "alive" /\ pipe'[o] = pipe[o]
    BY <1>17 DEF HandleClose, MarkDead
  <2> QED BY <1>a, <1>17, <1>c, <2>1, AccountKept DEF HandleClose, TypeOK, IsAlive
<1>18. ASSUME NEW c \in Conns, HandshakeTimeout(c) PROVE UnansweredPings(o)'
  BY <1>18, <1>c, AccountKept DEF HandshakeTimeout, Destroy, IsAlive
<1>19. ASSUME NEW c \in Conns, PipeBreak(c) PROVE UnansweredPings(o)'
  BY <1>a, <1>19, <1>c, AccountKept DEF PipeBreak, TypeOK, IsAlive
<1>20. ASSUME SweepDead \/ UNCHANGED vars PROVE UnansweredPings(o)'
  BY <1>20, AccountKept DEF SweepDead, vars
<1> QED
  BY <1>1, <1>2, <1>3, <1>4, <1>6, <1>7, <1>8, <1>9, <1>10, <1>11, <1>12, <1>13, <1>14, <1>15,
     <1>16, <1>17, <1>18, <1>19, <1>20
  DEF Next, CbStep, CbFault, DaemonStep, DaemonTimer, InjectProbe, PidPoll, OnBye, HeartbeatLost

LEMMA HealthInvInit == Init => HealthInv
BY PipesInvInit
DEF Init, HealthInv, ExitInv, ByeMeansExit, Sent, MissedPongsAccounted, IsAlive

LEMMA HealthInvAlways == Spec => []HealthInv
BY HealthInvInit, HealthInvStep, PTL DEF Spec

\* The misses counted against a session are unanswered pings of the pipe it has
\* now: none is left over from a pipe it was resumed from, and none is counted
\* that the cb has answered, whatever was merged, lost or read late.
THEOREM MissesAreAccounted == Spec => []MissedPongsAccounted
<1>1. HealthInv => MissedPongsAccounted
  BY DEF HealthInv
<1> QED BY <1>1, HealthInvAlways, PTL

-----------------------------------------------------------------------------
(* Healthy sessions *)

\* What the daemon may bury in one step: a session whose bye, lost heartbeat,
\* vanished pid or close it has seen.
LEMMA HealthyKept ==
  ASSUME HealthInv, [Next]_vars, NEW o \in Conns, Healthy(o)
  PROVE  IsAlive(o)'
<1> USE DEF cbVars, netVars, srvVars
<1>1. /\ TypeOK /\ PipesInv
      /\ pipe[o] \in Conns /\ bound[pipe[o]] = o /\ o # None
      /\ missed[o] < MissLimit
  <2>1. TypeOK /\ PipesInv
    BY DEF HealthInv, ExitInv, PipesInv, ConnsInv
  <2>2. pipe[o] \in Conns /\ bound[pipe[o]] = o /\ o # None
    BY <2>1, PipeIsConn DEF Healthy
  <2>3. missed[o] <= Unanswered(pipe[o])
    BY DEF Healthy, HealthInv, MissedPongsAccounted
  <2>4. missed[o] \in Nat /\ Unanswered(pipe[o]) \in Nat /\ MissLimit \in Nat
    BY <2>1, <2>2, UnansweredType, BoundsAssumption DEF TypeOK, Unanswered
  <2> QED BY <2>1, <2>2, <2>3, <2>4 DEF Healthy
<1>2. ASSUME status' = status PROVE IsAlive(o)'
  BY <1>2 DEF Healthy, IsAlive
<1>3. ASSUME NEW S, MarkDead(S), o \notin S PROVE IsAlive(o)'
  BY <1>3 DEF MarkDead, Healthy, IsAlive
<1>4. ASSUME NEW p \in Cbs, CbStep(p) \/ CbFault(p) PROVE IsAlive(o)'
  <2>1. status' = status
    BY <1>4 DEF CbStep, CbFault, Connect, OnConnect, OnPing, OnAuthFailed, OnOtherError,
                OnClose, OnExit, Exit, ChildDies, Crash, PingWatchdog
  <2> QED BY <1>2, <2>1
<1>5. ASSUME NEW p \in Cbs, InjectProbe(p) PROVE IsAlive(o)'
  <2>1. o \notin {registry[p]}
    BY <1>5 DEF InjectProbe, PidGone, Healthy
  <2> QED BY <1>3, <1>5, <2>1 DEF InjectProbe, Bury
<1>6. ASSUME NEW c \in Conns, OnBye(c) PROVE IsAlive(o)'
  <2>1. CASE o = bound[c]
    <3>1. sEnd[c] = "open" /\ bound[c] # None /\ toServer[c] # <<>>
      BY <1>6 DEF OnBye, Readable
    <3>2. peer[o] = peer[c]
      BY <1>1, <2>1, <3>1 DEF PipesInv, OpenConnFeedsItsSession
    <3>3. Frame(c) = Bye /\ Frame(c) = toServer[c][1] /\ 1 \in 1..Len(toServer[c])
      <4>1. toServer[c] \in Seq(ServerFrames) /\ toServer[c] # <<>>
        BY <1>1, <3>1 DEF TypeOK
      <4>2. Frame(c) \in ServerFrames /\ Frame(c) = toServer[c][1] /\ 1 \in 1..Len(toServer[c])
        BY <4>1 DEF Frame
      <4>3. Frame(c).t = "bye"
        BY <1>6 DEF OnBye
      <4>4. Pong.t = "pong" /\ \A b : Hello(b).t = "hello"
        BY DEF Pong, Hello
      <4> QED BY <4>2, <4>3, <4>4 DEF ServerFrames
    <3>4. ~PidAlive(peer[c])
      BY <3>3 DEF HealthInv, ExitInv, ByeMeansExit, Sent
    <3> QED BY <3>2, <3>4 DEF Healthy
  <2>2. CASE o # bound[c]
    BY <1>3, <1>6, <2>2 DEF OnBye, Bury
  <2> QED BY <2>1, <2>2
<1>7. ASSUME NEW c \in Conns, HeartbeatLost(c) PROVE IsAlive(o)'
  <2>1. o \notin {bound[c]}
    BY <1>1, <1>7 DEF HeartbeatLost, PingsLeft
  <2> QED BY <1>3, <1>7, <2>1 DEF HeartbeatLost, Bury
<1>8. ASSUME NEW c \in Conns, HandleClose(c) PROVE IsAlive(o)'
  <2>1. o \notin ClosedSession(c)
    <3>1. ~(sEnd[c] = "open" /\ cEnd[c] = "open")
      BY <1>8 DEF HandleClose
    <3> QED BY <3>1 DEF ClosedSession, Healthy
  <2> QED BY <1>3, <1>8, <2>1 DEF HandleClose
<1>9. ASSUME NEW c \in Conns, Register(c) PROVE IsAlive(o)'
  BY <1>1, <1>9 DEF Register, TypeOK, Healthy, IsAlive
<1>10. ASSUME NEW c \in Conns,
              \/ RefuseSecret(c) \/ RefuseLabel(c) \/ Resume(c) \/ OnPong(c) \/ Heartbeat(c)
              \/ HandshakeTimeout(c) \/ PipeBreak(c)
       PROVE  IsAlive(o)'
  <2>1. status' = status
    BY <1>10 DEF RefuseSecret, RefuseLabel, Refuse, Resume, OnPong, Heartbeat,
                 HandshakeTimeout, PipeBreak
  <2> QED BY <1>2, <2>1
<1>11. ASSUME PidPoll PROVE IsAlive(o)'
  <2>1. o \notin PidGone
    BY DEF PidGone, Healthy
  <2> QED BY <1>3, <1>11, <2>1 DEF PidPoll, Bury
<1>12. ASSUME SweepDead \/ UNCHANGED vars PROVE IsAlive(o)'
  BY <1>2, <1>12 DEF SweepDead, vars
<1> QED BY <1>4, <1>5, <1>6, <1>7, <1>8, <1>9, <1>10, <1>11, <1>12
        DEF Next, DaemonStep, DaemonTimer

\* A session whose pipe is up, whose child runs and which answers its pings is
\* never marked dead, by no late close, stale timer, probe or heartbeat.
THEOREM HealthySessionsSurvive == Spec => HealthySessionSurvives
<1>1. HealthInv /\ [Next]_vars => [\A o \in Conns : Healthy(o) => IsAlive(o)']_vars
  BY HealthyKept
<1> QED BY <1>1, HealthInvAlways, PTL DEF Spec, HealthySessionSurvives

-----------------------------------------------------------------------------
(***************************************************************************)
(* The registry as a directory: the live session of a running child is     *)
(* what its ULID leads to, is replaced by no hello, and is what watchers   *)
(* and sessions.json were last told.                                       *)
(*                                                                         *)
(* A hello that resumes cannot displace a live session: the guard of the   *)
(* resume branch is that there is one.  A hello that does not ask to       *)
(* resume is not guarded at all; it displaces nothing because a cb sends   *)
(* it once, on its first connection, and later connections are not read    *)
(* before that one.                                                        *)
(***************************************************************************)

FreshInv ==
  /\ PipesInv
  /\ FirstConnIsOnly
  /\ FreshHelloOnFirstConn
  /\ FreshHelloComesFirst

LEMMA FreshFacts ==
  ASSUME FreshInv
  PROVE  /\ TypeOK /\ ConnsInv /\ PipesInv
         /\ nextConn \in Nat
         /\ \A c \in Conns : c \in Nat /\ c # None
<1>1. TypeOK /\ ConnsInv /\ PipesInv
  BY DEF FreshInv, PipesInv, ConnsInv
<1>2. nextConn \in Nat
  BY <1>1, BoundsAssumption DEF TypeOK
<1>3. \A c \in Conns : c \in Nat /\ c # None
  BY BoundsAssumption DEF Conns, None
<1> QED BY <1>1, <1>2, <1>3

LEMMA FirstConnStep == FreshInv /\ [Next]_vars => FirstConnIsOnly'
<1> SUFFICES ASSUME FreshInv, [Next]_vars PROVE FirstConnIsOnly'
  OBVIOUS
<1> USE DEF cbVars, netVars, srvVars
<1>a. TypeOK /\ \A c \in Conns : c # None
  BY FreshFacts
<1>1. SUFFICES ASSUME NEW q \in Cbs, ~isReconnect'[q], link'[q] # "down",
                      NEW c \in Conns, peer'[c] = q
               PROVE  c = sock'[q] /\ link'[q] # "idle"
  BY DEF FirstConnIsOnly
<1>2. ~isReconnect[q] /\ link[q] # "down" /\ peer[c] = q => c = sock[q] /\ link[q] # "idle"
  BY DEF FreshInv, FirstConnIsOnly
<1>3. ASSUME UNCHANGED <<isReconnect, link, sock, peer>> PROVE c = sock'[q] /\ link'[q] # "idle"
  BY <1>1, <1>2, <1>3
<1>4. ASSUME NEW p \in Cbs, Connect(p) PROVE c = sock'[q] /\ link'[q] # "idle"
  <2>1. nextConn \in Conns /\ link[p] = "idle"
    BY <1>4 DEF Connect
  <2>2. CASE p = q
    <3>1. c = nextConn
      BY <1>a, <1>1, <1>2, <1>4, <2>1, <2>2 DEF Connect, TypeOK
    <3> QED BY <1>a, <1>4, <2>2, <3>1 DEF Connect, TypeOK
  <2>3. CASE p # q
    BY <1>a, <1>1, <1>2, <1>4, <2>1, <2>3 DEF Connect, TypeOK
  <2> QED BY <2>2, <2>3
<1>5. ASSUME NEW p \in Cbs, OnConnect(p) PROVE c = sock'[q] /\ link'[q] # "idle"
  BY <1>a, <1>1, <1>2, <1>5 DEF OnConnect, TypeOK
<1>6. ASSUME NEW p \in Cbs, OnClose(p) PROVE c = sock'[q] /\ link'[q] # "idle"
  BY <1>a, <1>1, <1>2, <1>6 DEF OnClose, TypeOK
<1>7. ASSUME NEW p \in Cbs, OnAuthFailed(p) \/ Exit(p) \/ Crash(p)
      PROVE  c = sock'[q] /\ link'[q] # "idle"
  <2>1. PipeShutdown(p) /\ UNCHANGED <<isReconnect, peer>>
    BY <1>7 DEF OnAuthFailed, Exit, Crash
  <2> QED BY <1>a, <1>1, <1>2, <2>1 DEF PipeShutdown, TypeOK
<1>8. ASSUME NEW p \in Cbs,
             OnPing(p) \/ OnOtherError(p) \/ OnExit(p) \/ ChildDies(p) \/ PingWatchdog(p)
               \/ InjectProbe(p)
      PROVE  UNCHANGED <<isReconnect, link, sock, peer>>
  BY <1>8 DEF OnPing, OnOtherError, OnExit, ChildDies, PingWatchdog, InjectProbe, Bury
<1>9. ASSUME NEW d \in Conns, DaemonStep(d) \/ HandshakeTimeout(d) \/ PipeBreak(d)
      PROVE  UNCHANGED <<isReconnect, link, sock, peer>>
  BY <1>9 DEF DaemonStep, RefuseSecret, RefuseLabel, Refuse, Resume, Register, OnPong, OnBye,
              Heartbeat, HeartbeatLost, HandleClose, HandshakeTimeout, PipeBreak, Bury
<1>10. ASSUME DaemonTimer \/ UNCHANGED vars PROVE UNCHANGED <<isReconnect, link, sock, peer>>
  BY <1>10 DEF DaemonTimer, PidPoll, SweepDead, Bury, vars
<1> QED
  BY <1>3, <1>4, <1>5, <1>6, <1>7, <1>8, <1>9, <1>10 DEF Next, CbStep, CbFault

\* A fresh hello that is in flight after a step was, or is the first frame of a cb
\* that has one connection.
LEMMA FreshHelloOrigin ==
  ASSUME FreshInv, [Next]_vars, NEW c \in Conns, Sent(c, Hello(FALSE))'
  PROVE  \/ Sent(c, Hello(FALSE)) /\ c < nextConn /\ peer[c] \in Cbs
         \/ /\ peer[c] \in Cbs /\ c < nextConn
            /\ \A d \in Conns : peer[d] = peer[c] => d = c
            /\ UNCHANGED <<peer, bound, sEnd>>
<1>a. TypeOK /\ ConnsInv /\ \A d \in Conns : d # None
  BY FreshFacts
<1>1. CASE Sent(c, Hello(FALSE))
  BY <1>a, <1>1, SentIsOpened
<1>2. ASSUME NEW p \in Cbs, c = sock[p], Writes(p, Hello(FALSE))
      PROVE  /\ peer[c] \in Cbs /\ c < nextConn
             /\ \A d \in Conns : peer[d] = peer[c] => d = c
             /\ UNCHANGED <<peer, bound, sEnd>>
  <2>1. OnConnect(p) /\ Hello(FALSE) = Hello(isReconnect[p])
    BY <1>2, FramesDiffer DEF Writes
  <2>2. Hello(FALSE).resume = FALSE /\ Hello(isReconnect[p]).resume = isReconnect[p]
    BY DEF Hello
  <2>3. ~isReconnect[p] /\ link[p] # "down"
    BY <2>1, <2>2 DEF OnConnect
  <2>4. peer[c] = p /\ c < nextConn
    BY <1>a, <1>2, SocketIsOpened
  <2>5. \A d \in Conns : peer[d] = p => d = c
    BY <1>2, <2>3 DEF FreshInv, FirstConnIsOnly
  <2> QED BY <2>1, <2>4, <2>5 DEF OnConnect, srvVars
<1> QED BY <1>a, <1>1, <1>2, FrameOrigin

\* Only a hello binds a connection, and only connect() opens one.
LEMMA BindingsStay ==
  ASSUME TypeOK, [Next]_vars, NEW c \in Conns
  PROVE  /\ bound'[c] = bound[c] \/ Register(c) \/ Resume(c)
         /\ sEnd'[c] = "open" => sEnd[c] = "open" \/ c = nextConn
<1> USE DEF cbVars, netVars, srvVars
<1>1. ASSUME NEW p \in Cbs, Connect(p)
      PROVE  bound' = bound /\ (sEnd'[c] = "open" => sEnd[c] = "open" \/ c = nextConn)
  BY <1>1 DEF Connect, TypeOK
<1>2. ASSUME NEW p \in Cbs, CbStep(p) \/ CbFault(p), ~Connect(p) PROVE UNCHANGED <<bound, sEnd>>
  BY <1>2 DEF CbStep, CbFault, OnConnect, OnPing, OnAuthFailed, OnOtherError, OnClose, OnExit,
              Exit, ChildDies, Crash, PingWatchdog
<1>3. ASSUME NEW S, NEW D, Bury(S, D) PROVE bound' = bound /\ (sEnd'[c] = "open" => sEnd[c] = "open")
  BY <1>3 DEF Bury, Destroy
<1>4. ASSUME NEW d \in Conns, RefuseSecret(d) \/ RefuseLabel(d)
      PROVE  bound' = bound /\ (sEnd'[c] = "open" => sEnd[c] = "open")
  <2>1. bound' = bound /\ sEnd' = [sEnd EXCEPT ![d] = "destroyed"]
    BY <1>4 DEF RefuseSecret, RefuseLabel, Refuse
  <2> QED BY <2>1 DEF TypeOK
<1>5. ASSUME NEW d \in Conns, Resume(d)
      PROVE  /\ bound'[c] = bound[c] \/ c = d
             /\ sEnd'[c] = "open" => sEnd[c] = "open"
  <2>1. \E o : bound' = [bound EXCEPT ![d] = o]
    BY <1>5 DEF Resume
  <2> QED BY <1>5, <2>1 DEF Resume, TypeOK
<1>6. ASSUME NEW d \in Conns, Register(d)
      PROVE  (bound'[c] = bound[c] \/ c = d) /\ sEnd' = sEnd
  BY <1>6 DEF Register, TypeOK
<1>7. ASSUME NEW d \in Conns, OnPong(d) \/ Heartbeat(d) PROVE UNCHANGED <<bound, sEnd>>
  BY <1>7 DEF OnPong, Heartbeat
<1>8. ASSUME NEW d \in Conns, HandleClose(d) \/ HandshakeTimeout(d) \/ PipeBreak(d)
      PROVE  bound' = bound /\ (sEnd'[c] = "open" => sEnd[c] = "open")
  BY <1>8 DEF HandleClose, HandshakeTimeout, PipeBreak, Destroy, TypeOK
<1>9. ASSUME SweepDead \/ UNCHANGED vars PROVE UNCHANGED <<bound, sEnd>>
  BY <1>9 DEF SweepDead, vars
<1> QED
  BY <1>1, <1>2, <1>3, <1>4, <1>5, <1>6, <1>7, <1>8, <1>9
  DEF Next, DaemonStep, DaemonTimer, InjectProbe, PidPoll, OnBye, HeartbeatLost

LEMMA FreshInvStep == FreshInv /\ [Next]_vars => FreshInv'
<1> SUFFICES ASSUME FreshInv, [Next]_vars PROVE FreshInv'
  OBVIOUS
<1>a. TypeOK /\ ConnsInv /\ PipesInv /\ nextConn \in Nat /\ \A c \in Conns : c \in Nat /\ c # None
  BY FreshFacts
<1>1. PipesInv' /\ FirstConnIsOnly'
  BY <1>a, PipesInvStep, FirstConnStep
<1>2. ASSUME NEW c \in Conns, NEW d \in Conns, Sent(c, Hello(FALSE))', peer'[d] = peer'[c]
      PROVE  c <= d
  <2>1. CASE Sent(c, Hello(FALSE)) /\ c < nextConn
    <3>1. peer'[c] = peer[c]
      BY <1>a, <2>1, PeersStay
    <3>2. CASE peer'[d] = peer[d]
      BY <1>2, <2>1, <3>1, <3>2 DEF FreshInv, FreshHelloOnFirstConn
    <3>3. CASE peer'[d] # peer[d]
      BY <1>a, <2>1, <3>3, PeersStay
    <3> QED BY <3>2, <3>3
  <2>2. CASE UNCHANGED peer /\ \A e \in Conns : peer[e] = peer[c] => e = c
    BY <1>a, <1>2, <2>2
  <2> QED BY <1>2, <2>1, <2>2, FreshHelloOrigin
<1>3. ASSUME NEW c \in Conns, NEW d \in Conns, Sent(c, Hello(FALSE))', sEnd'[c] = "open",
             bound'[c] = None, peer'[d] = peer'[c]
      PROVE  bound'[d] = None
  <2>1. ASSUME Sent(c, Hello(FALSE)), c < nextConn, bound'[d] # None PROVE FALSE
    <3>1. peer'[c] = peer[c] /\ sEnd[c] = "open"
      BY <1>a, <1>3, <2>1, PeersStay, BindingsStay
    <3>2. ASSUME NEW e \in Conns, Register(e) \/ Resume(e)
          PROVE  UNCHANGED peer /\ bound'[e] # None /\ HelloFirst(e)
      <4>1. CASE Register(e)
        <5>1. HelloFirst(e) /\ UNCHANGED peer /\ bound' = [bound EXCEPT ![e] = e]
          BY <4>1 DEF Register, HelloAccepted
        <5> QED BY <1>a, <5>1 DEF TypeOK
      <4>2. CASE Resume(e)
        <5>1. HelloFirst(e) /\ UNCHANGED peer
          BY <4>2 DEF Resume, HelloAccepted
        <5>2. registry[peer[e]] # None /\ bound' = [bound EXCEPT ![e] = registry[peer[e]]]
          BY <4>2 DEF Resume, CanResume
        <5> QED BY <1>a, <5>1, <5>2 DEF TypeOK
      <4> QED BY <3>2, <4>1, <4>2
    <3>3. bound[c] = None
      BY <1>a, <1>3, <3>2, BindingsStay
    <3>4. CASE Register(d) \/ Resume(d)
      <4>1. c # d /\ peer[d] = peer[c] /\ EarlierFramesRead(d)
        BY <1>3, <3>2, <3>4 DEF HelloFirst, Readable
      <4>2. c \in 1..(d - 1)
        <5>1. c <= d
          BY <2>1, <4>1 DEF FreshInv, FreshHelloOnFirstConn
        <5> QED BY <4>1, <5>1, BoundsAssumption DEF Conns
      <4>3. toServer[c] = <<>>
        BY <3>1, <4>1, <4>2 DEF EarlierFramesRead
      <4> QED BY <2>1, <4>3 DEF Sent
    <3>5. CASE bound'[d] = bound[d]
      <4>1. CASE peer'[d] = peer[d]
        BY <1>3, <2>1, <3>1, <3>3, <3>5, <4>1 DEF FreshInv, FreshHelloComesFirst
      <4>2. CASE peer'[d] # peer[d]
        <5>1. d = nextConn
          BY <1>a, <4>2, PeersStay
        <5> QED BY <1>a, <2>1, <3>5, <5>1 DEF ConnsInv, UnopenedUntouched
      <4> QED BY <4>1, <4>2
    <3> QED BY <1>a, <3>4, <3>5, BindingsStay
  <2>2. CASE UNCHANGED <<peer, bound>> /\ \A e \in Conns : peer[e] = peer[c] => e = c
    BY <1>3, <2>2
  <2> QED BY <1>3, <2>1, <2>2, FreshHelloOrigin
<1>4. FreshHelloOnFirstConn'
  BY <1>2 DEF FreshHelloOnFirstConn
<1>5. FreshHelloComesFirst'
  BY <1>3 DEF FreshHelloComesFirst
<1> QED BY <1>1, <1>4, <1>5 DEF FreshInv

LEMMA FreshInvInit == Init => FreshInv
<1>1. Init => FirstConnIsOnly
  BY CbsAssumption DEF Init, FirstConnIsOnly
<1> QED BY <1>1, PipesInvInit DEF Init, FreshInv, FreshHelloOnFirstConn, FreshHelloComesFirst, Sent

(***************************************************************************)
(* What the registry knows changes in two ways only: a hello registers a   *)
(* session, or live sessions die and dead entries are swept.               *)
(***************************************************************************)
Quiet(S) ==
  /\ status' = [o \in Conns |-> IF o \in S THEN "dead" ELSE status[o]]
  /\ record' = [p \in Cbs |-> IF \E o \in S : peer[o] = p THEN "ended" ELSE record[p]]
  /\ label' = label
  /\ \A p \in Cbs : registry'[p] = registry[p] \/ (p \in Sweepable /\ registry'[p] = None)

Alive == {o \in Conns : IsAlive(o)}

LEMMA NothingDies ==
  ASSUME TypeOK, UNCHANGED <<status, record, label, registry>>
  PROVE  \E S \in SUBSET Alive : Quiet(S)
<1>1. Quiet({})
  BY DEF Quiet, TypeOK
<1> QED BY <1>1

LEMMA BuryIsQuiet ==
  ASSUME NEW S \in SUBSET Alive, NEW D, Bury(S, D)
  PROVE  Quiet(S)
BY DEF Bury, MarkDead, Quiet

LEMMA RegisterOrQuiet ==
  ASSUME PipesInv, [Next]_vars
  PROVE  (\E c \in Conns : Register(c)) \/ (\E S \in SUBSET Alive : Quiet(S))
<1> DEFINE Goal == (\E c \in Conns : Register(c)) \/ (\E S \in SUBSET Alive : Quiet(S))
<1> USE DEF cbVars, netVars, srvVars
<1>a. TypeOK
  BY DEF PipesInv, ConnsInv
<1>b. \A c \in Conns : bound[c] # None /\ sEnd[c] = "open" => bound[c] \in Alive
  BY <1>a, BoundsAssumption DEF PipesInv, OpenConnFeedsItsSession, Alive, TypeOK
<1>c. PidGone \in SUBSET Alive
  BY <1>a DEF PidGone, Registered, Alive, TypeOK
<1>1. ASSUME NEW p \in Cbs, CbStep(p) \/ CbFault(p) PROVE Goal
  <2>1. UNCHANGED srvVars
    BY <1>1 DEF CbStep, CbFault, Connect, OnConnect, OnPing, OnAuthFailed, OnOtherError,
                OnClose, OnExit, Exit, ChildDies, Crash, PingWatchdog
  <2> QED BY <1>a, <2>1, NothingDies
<1>2. ASSUME NEW p \in Cbs, InjectProbe(p) PROVE Goal
  <2>1. {registry[p]} \in SUBSET Alive /\ Bury({registry[p]}, {})
    BY <1>2, <1>c DEF InjectProbe
  <2> QED BY <2>1, BuryIsQuiet
<1>3. ASSUME NEW c \in Conns, DaemonStep(c) PROVE Goal
  <2>1. CASE RefuseSecret(c) \/ RefuseLabel(c) \/ Resume(c) \/ OnPong(c) \/ Heartbeat(c)
    <3>1. UNCHANGED <<status, record, label, registry>>
      BY <2>1 DEF RefuseSecret, RefuseLabel, Refuse, Resume, OnPong, Heartbeat
    <3> QED BY <1>a, <3>1, NothingDies
  <2>2. CASE OnBye(c) \/ HeartbeatLost(c)
    <3>1. {bound[c]} \in SUBSET Alive /\ \E D : Bury({bound[c]}, D)
      BY <1>b, <2>2 DEF OnBye, HeartbeatLost, Readable
    <3> QED BY <3>1, BuryIsQuiet
  <2>3. CASE HandleClose(c)
    <3>1. ClosedSession(c) \in SUBSET Alive
      BY <1>a DEF ClosedSession, Alive, TypeOK
    <3>2. Quiet(ClosedSession(c))
      BY <2>3 DEF HandleClose, MarkDead, Quiet
    <3> QED BY <3>1, <3>2
  <2> QED BY <1>3, <2>1, <2>2, <2>3 DEF DaemonStep
<1>4. ASSUME NEW c \in Conns, HandshakeTimeout(c) \/ PipeBreak(c) PROVE Goal
  BY <1>a, <1>4, NothingDies DEF HandshakeTimeout, PipeBreak
<1>5. ASSUME PidPoll PROVE Goal
  BY <1>c, <1>5, BuryIsQuiet DEF PidPoll
<1>6. ASSUME SweepDead PROVE Goal
  <2>1. Quiet({})
    BY <1>a, <1>6 DEF SweepDead, Quiet, TypeOK
  <2> QED BY <2>1
<1>7. CASE UNCHANGED vars
  BY <1>a, <1>7, NothingDies DEF vars
<1> QED BY <1>1, <1>2, <1>3, <1>4, <1>5, <1>6, <1>7 DEF Next, DaemonTimer

(***************************************************************************)
(* A registration displaces no live session of a running child.            *)
(***************************************************************************)
LEMMA FreshHelloIsAlone ==
  ASSUME FreshInv, NEW c \in Conns, HelloFirst(c), ~Frame(c).resume
  PROVE  registry[peer[c]] = None
<1>1. TypeOK /\ PipesInv
  BY FreshFacts
<1>2. peer[c] \in Cbs /\ sEnd[c] = "open" /\ bound[c] = None /\ toServer[c] # <<>>
  BY <1>1, HelloIsUnbound DEF HelloFirst, Readable
<1>3. Frame(c) = toServer[c][1] /\ 1 \in 1..Len(toServer[c]) /\ toServer[c][1] \in ServerFrames
  BY <1>1, <1>2 DEF TypeOK, Frame
<1>4. Frame(c) = Hello(FALSE)
  <2>1. Frame(c).t = "hello" /\ Pong.t = "pong" /\ Bye.t = "bye" /\ Hello(TRUE).resume = TRUE
    BY DEF HelloFirst, Pong, Bye, Hello
  <2> QED BY <1>3, <2>1 DEF ServerFrames
<1>5. Sent(c, Hello(FALSE))
  BY <1>3, <1>4 DEF Sent
<1>6. SUFFICES ASSUME registry[peer[c]] # None PROVE FALSE
  OBVIOUS
<1>7. /\ registry[peer[c]] \in Conns
      /\ bound[registry[peer[c]]] # None
      /\ peer[registry[peer[c]]] = peer[c]
  BY <1>1, <1>2, <1>6 DEF PipesInv, RegistryHoldsOwnSessions, CreatorStaysBound, TypeOK
<1> QED BY <1>2, <1>5, <1>7 DEF FreshInv, FreshHelloComesFirst

LEMMA RegisterFinds ==
  ASSUME FreshInv, NEW c \in Conns, Register(c)
  PROVE  /\ peer[c] \in Cbs /\ status[c] = "none"
         /\ registry' \in [Cbs -> Conns \union {None}]
         /\ registry'[peer[c]] = c
         /\ \A p \in Cbs : p # peer[c] => registry'[p] = registry[p]
         /\ UNCHANGED <<child, peer>>
         /\ PidAlive(peer[c]) => registry[peer[c]] = None \/ ~IsAlive(registry[peer[c]])
<1>1. TypeOK /\ PipesInv /\ HelloFirst(c) /\ ~CanResume(c)
  BY FreshFacts DEF Register, HelloAccepted
<1>2. peer[c] \in Cbs /\ status[c] = "none"
  BY <1>1, HelloIsUnbound
<1>3. RegistryForNew(c) \in [Cbs -> Conns \union {None}]
        /\ \A p \in Cbs : p # peer[c] => RegistryForNew(c)[p] = registry[p]
  BY <1>1 DEF RegistryForNew, TypeOK
<1>4. registry' = [RegistryForNew(c) EXCEPT ![peer[c]] = c] /\ UNCHANGED <<child, peer>>
  BY DEF Register, cbVars
<1>5. PidAlive(peer[c]) => registry[peer[c]] = None \/ ~IsAlive(registry[peer[c]])
  BY <1>1, FreshHelloIsAlone DEF CanResume
<1> QED BY <1>2, <1>3, <1>4, <1>5

DirectoryInv ==
  /\ FreshInv
  /\ LabelsInv
  /\ LiveSessionReachable
  /\ RecordAgreesWithRegistry

LEMMA DirectoryFacts ==
  ASSUME DirectoryInv, [Next]_vars
  PROVE  /\ TypeOK /\ TypeOK' /\ PipesInv /\ PipesInv'
         /\ \A o \in Conns : status[o] # "none" =>
              bound[o] = o /\ o # None /\ peer[o] \in Cbs /\ peer'[o] = peer[o]
         /\ \A p \in Cbs : PidAlive(p)' => PidAlive(p)
         /\ \A p \in Cbs : registry[p] # None =>
              registry[p] \in Conns /\ status[registry[p]] # "none" /\ peer[registry[p]] = p
<1>1. FreshInv /\ FreshInv'
  BY FreshInvStep DEF DirectoryInv
<1>2. TypeOK /\ TypeOK' /\ ConnsInv /\ PipesInv /\ PipesInv'
  BY <1>1, FreshFacts DEF FreshInv, PipesInv, ConnsInv
<1>3. \A o \in Conns : status[o] # "none" => bound[o] = o /\ o # None
  BY BoundsAssumption, <1>2 DEF PipesInv, CreatorStaysBound, Conns, None
<1>4. \A o \in Conns : status[o] # "none" => o < nextConn
  BY <1>2, <1>3, BoundsAssumption DEF ConnsInv, UnopenedUntouched, TypeOK, Conns
<1>5. \A o \in Conns : status[o] # "none" => peer[o] \in Cbs /\ peer'[o] = peer[o]
  BY <1>2, <1>4, PeersStay DEF ConnsInv, OpenedHavePeer
<1>6. \A p \in Cbs : PidAlive(p)' => PidAlive(p)
  BY <1>2, PeersStay
<1>7. \A p \in Cbs : registry[p] # None =>
        registry[p] \in Conns /\ status[registry[p]] # "none" /\ peer[registry[p]] = p
  BY <1>2 DEF PipesInv, RegistryHoldsOwnSessions, TypeOK
<1> QED BY <1>2, <1>3, <1>5, <1>6, <1>7

LEMMA ReachableStep == DirectoryInv /\ [Next]_vars => LiveSessionReachable'
<1> SUFFICES ASSUME DirectoryInv, [Next]_vars,
                    NEW o \in Conns, IsAlive(o)', child'[peer'[o]] = "running"
             PROVE  registry'[peer'[o]] = o
  BY DEF LiveSessionReachable, PidAlive
<1>a. TypeOK /\ PipesInv /\ FreshInv
  BY DirectoryFacts DEF DirectoryInv
<1>1. ASSUME NEW c \in Conns, Register(c) PROVE registry'[peer'[o]] = o
  <2>1. CASE o = c
    BY <1>1, <1>a, <2>1, RegisterFinds
  <2>2. CASE o # c
    <3>1. IsAlive(o)
      BY <1>1, <2>2, <1>a DEF Register, IsAlive, TypeOK
    <3>2. peer[o] \in Cbs /\ peer'[o] = peer[o] /\ PidAlive(peer[o])
      BY <3>1, DirectoryFacts DEF IsAlive, PidAlive
    <3>3. registry[peer[o]] = o /\ o # None
      BY <3>1, <3>2, DirectoryFacts DEF DirectoryInv, LiveSessionReachable, IsAlive
    <3> QED BY <1>1, <1>a, <3>1, <3>2, <3>3, RegisterFinds
  <2> QED BY <2>1, <2>2
<1>2. ASSUME NEW S \in SUBSET Alive, Quiet(S) PROVE registry'[peer'[o]] = o
  <2>1. IsAlive(o)
    BY <1>2, <1>a DEF Quiet, IsAlive, TypeOK
  <2>2. peer[o] \in Cbs /\ peer'[o] = peer[o] /\ PidAlive(peer[o])
    BY <2>1, DirectoryFacts DEF IsAlive, PidAlive
  <2>3. registry[peer[o]] = o
    BY <2>1, <2>2 DEF DirectoryInv, LiveSessionReachable
  <2>4. peer[o] \notin Sweepable
    BY <2>1, <2>3 DEF Sweepable, IsAlive
  <2> QED BY <1>2, <2>2, <2>3, <2>4 DEF Quiet
<1> QED BY <1>1, <1>2, <1>a, RegisterOrQuiet

LEMMA RecordStep == DirectoryInv /\ [Next]_vars => RecordAgreesWithRegistry'
<1> SUFFICES ASSUME DirectoryInv, [Next]_vars,
                    NEW p \in Cbs, registry'[p] # None, PidAlive(p)'
             PROVE  record'[p] = IF status'[registry'[p]] = "alive" THEN "live" ELSE "ended"
  BY DEF RecordAgreesWithRegistry, IsAlive
<1>a. TypeOK /\ PipesInv /\ FreshInv /\ PidAlive(p)
  BY DirectoryFacts DEF DirectoryInv
<1>1. ASSUME NEW c \in Conns, Register(c)
      PROVE  record'[p] = IF status'[registry'[p]] = "alive" THEN "live" ELSE "ended"
  <2>1. /\ status' = [status EXCEPT ![c] = "alive"]
        /\ record' = [record EXCEPT ![peer[c]] = "live"]
    BY <1>1 DEF Register
  <2>2. CASE p = peer[c]
    BY <1>1, <1>a, <2>1, <2>2, RegisterFinds DEF TypeOK
  <2>3. CASE p # peer[c]
    <3>1. registry'[p] = registry[p] /\ status[c] = "none"
      BY <1>1, <1>a, <2>3, RegisterFinds
    <3>2. registry[p] # c /\ registry[p] \in Conns
      BY <3>1, DirectoryFacts
    <3>3. record'[p] = record[p] /\ status'[registry[p]] = status[registry[p]]
      BY <1>a, <2>1, <2>3, <3>2 DEF TypeOK
    <3> QED BY <1>a, <3>1, <3>3 DEF DirectoryInv, RecordAgreesWithRegistry, IsAlive
  <2> QED BY <2>2, <2>3
<1>2. ASSUME NEW S \in SUBSET Alive, Quiet(S)
      PROVE  record'[p] = IF status'[registry'[p]] = "alive" THEN "live" ELSE "ended"
  <2>1. registry'[p] = registry[p] /\ registry[p] # None
    BY <1>2 DEF Quiet
  <2>2. registry[p] \in Conns /\ peer[registry[p]] = p
    BY <2>1, DirectoryFacts
  <2>3. ASSUME NEW o \in S, peer[o] = p PROVE registry[p] = o
    BY <1>2, <1>a, <2>3 DEF DirectoryInv, LiveSessionReachable, Alive
  <2>4. CASE \E o \in S : peer[o] = p
    <3>1. registry[p] \in S
      BY <2>3, <2>4
    <3>2. status'[registry[p]] = "dead" /\ record'[p] = "ended"
      BY <1>2, <2>2, <2>4, <3>1 DEF Quiet
    <3> QED BY <2>1, <3>2
  <2>5. CASE ~\E o \in S : peer[o] = p
    <3>1. status'[registry[p]] = status[registry[p]] /\ record'[p] = record[p]
      BY <1>2, <2>2, <2>5 DEF Quiet
    <3> QED BY <1>a, <2>1, <3>1 DEF DirectoryInv, RecordAgreesWithRegistry, IsAlive
  <2> QED BY <2>4, <2>5
<1> QED BY <1>1, <1>2, <1>a, RegisterOrQuiet

LEMMA DirectoryInvAlways == Spec => []DirectoryInv
<1>1. Init => DirectoryInv
  BY FreshInvInit, LabelsInvInit
  DEF Init, DirectoryInv, LiveSessionReachable, RecordAgreesWithRegistry, IsAlive
<1>2. DirectoryInv /\ [Next]_vars => DirectoryInv'
  BY FreshInvStep, LabelsInvStep, ReachableStep, RecordStep DEF DirectoryInv
<1> QED BY <1>1, <1>2, PTL DEF Spec

\* While its child runs, the live session behind a terminal is the one its ULID
\* leads to: byIdOrLabel() can find it, and no second session of the same terminal
\* hides it.
THEOREM LiveSessionsAreFound == Spec => []LiveSessionReachable
<1>1. DirectoryInv => LiveSessionReachable
  BY DEF DirectoryInv
<1> QED BY <1>1, DirectoryInvAlways, PTL

\* sessions.json and the watchers' last event agree with the registry about every
\* terminal whose child runs: no late close, loss or bye of an older connection
\* ends a ULID that is alive again.
THEOREM RecordsAgree == Spec => []RecordAgreesWithRegistry
<1>1. DirectoryInv => RecordAgreesWithRegistry
  BY DEF DirectoryInv
<1> QED BY <1>1, DirectoryInvAlways, PTL

LEMMA LiveEntryStays ==
  ASSUME DirectoryInv, [Next]_vars,
         NEW p \in Cbs, registry[p] # None, IsAlive(registry[p]), PidAlive(p)
  PROVE  registry'[p] = registry[p]
<1>a. TypeOK /\ PipesInv /\ FreshInv
  BY DirectoryFacts DEF DirectoryInv
<1>1. ASSUME NEW c \in Conns, Register(c) PROVE registry'[p] = registry[p]
  BY <1>1, <1>a, RegisterFinds
<1>2. ASSUME NEW S, Quiet(S) PROVE registry'[p] = registry[p]
  BY <1>2 DEF Quiet, Sweepable, IsAlive
<1> QED BY <1>1, <1>2, <1>a, RegisterOrQuiet

\* No hello, neither a stranger's nor one of the terminal itself that is late or
\* repeated, replaces the live session of a running child in the registry.
THEOREM LiveEntriesAreKept == Spec => LiveSessionNotReplaced
<1> DEFINE Kept == \A p \in Cbs : registry[p] # None /\ IsAlive(registry[p]) /\ PidAlive(p)
                                    => registry'[p] = registry[p]
<1>1. DirectoryInv /\ [Next]_vars => [Kept]_vars
  BY LiveEntryStays
<1> QED BY <1>1, DirectoryInvAlways, PTL DEF Spec, LiveSessionNotReplaced

LEMMA LiveLabelStays ==
  ASSUME DirectoryInv, [Next]_vars, NEW o \in Conns, IsAlive(o)
  PROVE  label'[o] = label[o]
<1>a. TypeOK /\ FreshInv /\ PipesInv
  BY DirectoryFacts DEF DirectoryInv
<1>1. ASSUME NEW c \in Conns, Register(c) PROVE label'[o] = label[o]
  <2>1. o # c /\ status[o] # "dead"
    BY <1>1, <1>a, RegisterFinds DEF IsAlive
  <2>2. \A reg, name : ~Collides(reg, o, name)
    BY <2>1 DEF Collides
  <2> QED BY <1>1, <2>1, <2>2 DEF Register
<1>2. ASSUME NEW S, Quiet(S) PROVE label'[o] = label[o]
  BY <1>2 DEF Quiet
<1> QED BY <1>1, <1>2, <1>a, RegisterOrQuiet

LEMMA RouteStays ==
  ASSUME DirectoryInv, [Next]_vars, NEW name \in Labels, NEW o \in ByLabel(name),
         IsAlive(o), IsAlive(o)', PidAlive(peer[o])'
  PROVE  ByLabel(name)' = {o}
<1>a. TypeOK /\ TypeOK' /\ LabelsUnambiguous'
  BY DirectoryFacts, LabelsInvStep DEF DirectoryInv, LabelsInv
<1>1. o \in Registered /\ o \in Conns /\ label[o] = Label(name)
  BY <1>a DEF ByLabel, Registered, TypeOK
<1>2. peer[o] \in Cbs /\ peer'[o] = peer[o] /\ o # None
  BY <1>1, DirectoryFacts DEF IsAlive
<1>3. PidAlive(peer[o])
  BY <1>2, DirectoryFacts DEF PidAlive
<1>4. registry[peer[o]] = o
  BY <1>1, <1>3 DEF DirectoryInv, LiveSessionReachable
<1>5. registry'[peer[o]] = o
  BY <1>2, <1>3, <1>4, LiveEntryStays
<1>6. o \in Registered'
  BY <1>2, <1>5 DEF Registered
<1>7. label'[o] = Label(name)
  BY <1>1, LiveLabelStays
<1>8. \A x \in Registered' : label'[x] = Label(name) => x = o
  BY <1>a, <1>6, <1>7 DEF LabelsUnambiguous
<1>9. {x \in Registered' : label'[x] = Label(name)} = {o}
  BY <1>6, <1>7, <1>8
<1>10. {x \in {o} : status'[x] = "alive"} = {o}
  BY DEF IsAlive
<1> QED BY <1>9, <1>10 DEF ByLabel, IsAlive

\* A label that leads a master to a live terminal goes on leading to this terminal
\* alone until it dies: whoever registers, resumes, dies or is renamed meanwhile.
THEOREM RoutesAreStable == Spec => LiveRouteStable
<1> DEFINE Stable == \A name \in Labels : \A o \in ByLabel(name) :
                       IsAlive(o) /\ IsAlive(o)' /\ PidAlive(peer[o])' => ByLabel(name)' = {o}
<1>1. DirectoryInv /\ [Next]_vars => [Stable]_vars
  BY RouteStays
<1> QED BY <1>1, DirectoryInvAlways, PTL DEF Spec, LiveRouteStable

-----------------------------------------------------------------------------
(* The directory *)

(***************************************************************************)
(* Sessions implements Directory.  What masters see changes by a           *)
(* registration, by the death of sessions that are listed or of one that   *)
(* is not, by a sweep, and by the exit of a child; nothing else of the     *)
(* protocol shows.                                                         *)
(***************************************************************************)
Burial(S) ==
  /\ status' = [o \in Conns |-> IF o \in S THEN "dead" ELSE status[o]]
  /\ record' = [p \in Cbs |-> IF \E o \in S : peer[o] = p THEN "ended" ELSE record[p]]
  /\ UNCHANGED <<label, registry, child>>
  /\ S \subseteq Registered \/ \E o \in S : S = {o}

Unseen == UNCHANGED <<status, record, label, registry>>

\* All ways in which a step shows.
LEMMA DirectoryCases ==
  ASSUME PipesInv, [Next]_vars
  PROVE  \/ \E c \in Conns : Register(c)
         \/ \E S \in SUBSET Alive : Burial(S)
         \/ SweepDead
         \/ Unseen /\ child' = child
         \/ Unseen /\ \E p \in Cbs : ChildDies(p)
<1> DEFINE Goal == \/ \E c \in Conns : Register(c)
                   \/ \E S \in SUBSET Alive : Burial(S)
                   \/ SweepDead
                   \/ Unseen /\ child' = child
                   \/ Unseen /\ \E p \in Cbs : ChildDies(p)
<1>a. TypeOK
  BY DEF PipesInv, ConnsInv
<1>b. \A c \in Conns : bound[c] # None /\ sEnd[c] = "open" => bound[c] \in Alive
  BY <1>a, BoundsAssumption DEF PipesInv, OpenConnFeedsItsSession, Alive, TypeOK
<1>c. PidGone \in SUBSET Alive /\ PidGone \subseteq Registered
  BY <1>a DEF PidGone, Registered, Alive, TypeOK
<1>d. ASSUME NEW S, NEW D, Bury(S, D), S \subseteq Registered \/ \E o \in S : S = {o}
      PROVE  Burial(S)
  BY <1>d DEF Bury, MarkDead, Burial, cbVars
<1>1. ASSUME NEW p \in Cbs, CbStep(p) \/ Crash(p) \/ PingWatchdog(p) PROVE Goal
  <2>1. Unseen /\ child' = child
    BY <1>1 DEF CbStep, Connect, OnConnect, OnPing, OnAuthFailed, OnOtherError, OnClose,
                OnExit, Exit, Crash, PingWatchdog, Unseen, cbVars, srvVars
  <2> QED BY <2>1
<1>2. ASSUME NEW p \in Cbs, ChildDies(p) PROVE Goal
  BY <1>2 DEF ChildDies, Unseen, srvVars
<1>3. ASSUME NEW p \in Cbs, InjectProbe(p) PROVE Goal
  <2>1. {registry[p]} \in SUBSET Alive /\ Bury({registry[p]}, {})
    BY <1>3, <1>c DEF InjectProbe
  <2> QED BY <2>1, <1>d
<1>4. ASSUME NEW c \in Conns, DaemonStep(c) PROVE Goal
  <2>1. CASE RefuseSecret(c) \/ RefuseLabel(c) \/ Resume(c) \/ OnPong(c) \/ Heartbeat(c)
    <3>1. Unseen /\ child' = child
      BY <2>1 DEF RefuseSecret, RefuseLabel, Refuse, Resume, OnPong, Heartbeat, Unseen,
                  cbVars, srvVars
    <3> QED BY <3>1
  <2>2. CASE OnBye(c) \/ HeartbeatLost(c)
    <3>1. {bound[c]} \in SUBSET Alive /\ \E D : Bury({bound[c]}, D)
      BY <1>b, <2>2 DEF OnBye, HeartbeatLost, Readable
    <3> QED BY <3>1, <1>d
  <2>3. CASE HandleClose(c)
    <3>1. ClosedSession(c) \in SUBSET Alive /\ ClosedSession(c) \subseteq {bound[c]}
      BY <1>a DEF ClosedSession, Alive, TypeOK
    <3>2. ClosedSession(c) \subseteq Registered \/ \E o \in ClosedSession(c) : ClosedSession(c) = {o}
      BY <3>1
    <3>3. Burial(ClosedSession(c))
      BY <2>3, <3>2 DEF HandleClose, MarkDead, Burial, cbVars
    <3> QED BY <3>1, <3>3
  <2>4. CASE Register(c)
    BY <2>4
  <2> QED BY <1>4, <2>1, <2>2, <2>3, <2>4 DEF DaemonStep
<1>5. ASSUME NEW c \in Conns, HandshakeTimeout(c) \/ PipeBreak(c) PROVE Goal
  <2>1. Unseen /\ child' = child
    BY <1>5 DEF HandshakeTimeout, PipeBreak, Unseen, cbVars, srvVars
  <2> QED BY <2>1
<1>6. ASSUME PidPoll PROVE Goal
  BY <1>c, <1>d, <1>6 DEF PidPoll
<1>7. CASE UNCHANGED vars
  BY <1>7 DEF vars, Unseen, cbVars, srvVars
<1> QED BY <1>1, <1>2, <1>3, <1>4, <1>5, <1>6, <1>7 DEF Next, CbFault, DaemonTimer

LEMMA DirectoryInit == Init => Dir!Init
<1> SUFFICES ASSUME Init PROVE Dir!Init
  OBVIOUS
<1>1. {p \in Cbs : PidAlive(p)} = Cbs
  BY DEF Init, PidAlive
<1>2. LiveEntries = {}
  BY DEF Init, LiveEntries
<1>3. \A p \in Cbs : LabelShown(p) = NoLabel
  BY DEF Init, LabelShown
<1> QED BY <1>1, <1>2, <1>3 DEF Init, Dir!Init

\* A registration is a session that joins.
LEMMA RegisterJoins ==
  ASSUME DirectoryInv, DirectoryInv', [Next]_vars, NEW c \in Conns, Register(c),
         NEW p, p = peer[c]
  PROVE  Dir!Joins(p)
<1>a. /\ TypeOK /\ TypeOK' /\ FreshInv
      /\ \A q \in Cbs : registry[q] # None =>
              registry[q] \in Conns /\ status[registry[q]] # "none" /\ peer[registry[q]] = q
  BY DirectoryFacts DEF DirectoryInv
<1>b. /\ p \in Cbs /\ status[c] = "none" /\ c # None
      /\ registry'[p] = c
      /\ \A q \in Cbs : q # p => registry'[q] = registry[q]
      /\ child' = child
      /\ PidAlive(p) => registry[p] = None \/ ~IsAlive(registry[p])
  BY <1>a, RegisterFinds, BoundsAssumption DEF Conns, None
<1>c. /\ status' = [status EXCEPT ![c] = "alive"]
      /\ record' = [record EXCEPT ![p] = "live"]
  BY DEF Register
<1>1. p \in LiveEntries => p \notin {q \in Cbs : PidAlive(q)}
  BY <1>b DEF LiveEntries
<1>2. \A q \in Cbs : registry[q] # c
  BY <1>a, <1>b
<1>3. registry' = [registry EXCEPT ![p] = c]
  BY <1>a, <1>b DEF TypeOK
<1>4. LiveEntries' = LiveEntries \union {p}
  <2>1. IsAlive(c)' /\ \A o \in Conns : o # c => (IsAlive(o)' <=> IsAlive(o))
    BY <1>a, <1>c DEF IsAlive, TypeOK
  <2>2. p \in LiveEntries'
    BY <1>b, <2>1 DEF LiveEntries
  <2>3. ASSUME NEW q \in Cbs, q # p PROVE q \in LiveEntries' <=> q \in LiveEntries
    BY <1>a, <1>b, <1>2, <2>1, <2>3 DEF LiveEntries
  <2> QED BY <1>b, <2>2, <2>3 DEF LiveEntries
<1>5. [q \in Cbs |-> LabelShown(q)]' \in [Cbs -> AnyLabel]
  <2>1. NoLabel \in AnyLabel
    BY DEF NoLabel, Label, AnyLabel
  <2>2. \A q \in Cbs : LabelShown(q)' \in AnyLabel
    BY <1>a, <2>1 DEF LabelShown, TypeOK
  <2> QED BY <2>2
<1>6. ASSUME NEW q \in Cbs, q # p, LabelShown(q)' # LabelShown(q)
      PROVE  registry[q] # None /\ q \notin LiveEntries /\ LabelShown(q) = LabelShown(p)'
  <2> DEFINE o == registry[q]
             reg == RegistryForNew(c)
             name == LabelAt[peer[c]][Suffix(reg, peer[c])]
  <2>1. registry[q] # None /\ registry'[q] = registry[q]
    BY <1>b, <1>6 DEF LabelShown
  <2>2. o \in Conns /\ o # c /\ label'[o] # label[o]
    BY <1>a, <1>2, <1>6, <2>1 DEF LabelShown
  <2>3. label' = [x \in Conns |-> IF x = c THEN Label(name)
                                  ELSE IF Collides(reg, x, name) THEN [name |-> name, tag |-> x]
                                  ELSE label[x]]
    BY DEF Register
  <2> HIDE DEF o, name, reg
  <2>4. Collides(reg, o, name) /\ label'[c] = Label(name)
    BY <2>2, <2>3
  <2>5. status[o] = "dead" /\ label[o] = Label(name)
    BY <2>4 DEF Collides
  <2>6. LabelShown(p)' = label'[c] /\ LabelShown(q) = label[o]
    BY <1>b, <2>1 DEF LabelShown, o
  <2>7. q \notin LiveEntries
    BY <2>5 DEF LiveEntries, IsAlive, o
  <2> QED BY <2>1, <2>4, <2>5, <2>6, <2>7
<1>7. Dir!Unambiguous'
  <2>1. LabelsUnambiguous' /\ RegistryHoldsOwnSessions'
    BY DEF DirectoryInv, LabelsInv, PipesInv
  <2>2. ASSUME NEW q \in Cbs, NEW r \in Cbs, registry'[q] # None, registry'[r] # None, q # r
        PROVE  label'[registry'[q]] # label'[registry'[r]]
    <3>1. registry'[q] # registry'[r]
      BY <2>1, <2>2 DEF RegistryHoldsOwnSessions
    <3>2. registry'[q] \in Registered' /\ registry'[r] \in Registered'
      BY <2>2 DEF Registered
    <3> QED BY <2>1, <3>1, <3>2 DEF LabelsUnambiguous
  <2> QED BY <2>2 DEF Dir!Unambiguous, Dir!Listed, LabelShown
<1>8. {q \in Cbs : PidAlive(q)}' = {q \in Cbs : PidAlive(q)}
  BY <1>b DEF PidAlive
<1>9. \A q \in Dir!Listed : registry[q] # c
  BY <1>2 DEF Dir!Listed
<1>10. \A q \in Cbs \ {p} :
          [r \in Cbs |-> LabelShown(r)]'[q] # [r \in Cbs |-> LabelShown(r)][q] =>
            /\ q \in Dir!Listed \ LiveEntries
            /\ [r \in Cbs |-> LabelShown(r)][q] = [r \in Cbs |-> LabelShown(r)]'[p]
  BY <1>b, <1>6 DEF Dir!Listed
<1> QED BY <1>b, <1>c, <1>1, <1>3, <1>4, <1>5, <1>7, <1>8, <1>9, <1>10 DEF Dir!Joins

\* The death of sessions is what the directory allows.
LEMMA BurialDies ==
  ASSUME DirectoryInv, [Next]_vars, NEW S \in SUBSET Alive, Burial(S)
  PROVE  Dir!Next
<1>a. /\ TypeOK
      /\ \A o \in Conns : status[o] # "none" => o # None /\ peer[o] \in Cbs
      /\ \A p \in Cbs : registry[p] # None =>
            registry[p] \in Conns /\ status[registry[p]] # "none" /\ peer[registry[p]] = p
      /\ LiveSessionReachable
  BY DirectoryFacts DEF DirectoryInv
<1>b. \A o \in S : o \in Conns /\ IsAlive(o) /\ o # None /\ peer[o] \in Cbs
  BY <1>a DEF Alive, IsAlive
<1>c. \A o \in Conns : IsAlive(o)' <=> IsAlive(o) /\ o \notin S
  BY DEF Burial, IsAlive
<1>1. \A p \in Cbs : LabelShown(p)' = LabelShown(p)
  BY DEF Burial, LabelShown
<1>2. {p \in Cbs : PidAlive(p)}' = {p \in Cbs : PidAlive(p)}
  BY DEF Burial, PidAlive
<1>3. [p \in Cbs |-> LabelShown(p)]' = [p \in Cbs |-> LabelShown(p)]
  BY <1>1
<1>4. CASE S \subseteq Registered
  <2> DEFINE T == {p \in Cbs : registry[p] \in S}
  <2>1. T \subseteq LiveEntries
    BY <1>b DEF LiveEntries
  <2>2. LiveEntries' = LiveEntries \ T
    <3>1. registry' = registry
      BY DEF Burial
    <3>2. ASSUME NEW p \in Cbs PROVE p \in LiveEntries' <=> p \in LiveEntries /\ p \notin T
      BY <1>a, <1>b, <1>c, <3>1 DEF LiveEntries
    <3> QED BY <3>2 DEF LiveEntries
  <2>3. \A p \in Cbs : (\E o \in S : peer[o] = p) <=> p \in T
    <3> TAKE p \in Cbs
    <3>1. ASSUME NEW o \in S, peer[o] = p PROVE p \in T
      <4>1. PICK q \in Cbs : registry[q] = o
        BY <1>4 DEF Registered
      <4> QED BY <1>a, <1>b, <3>1, <4>1
    <3>2. ASSUME p \in T PROVE \E o \in S : peer[o] = p
      BY <1>a, <1>b, <3>2
    <3> QED BY <3>1, <3>2
  <2> HIDE DEF T
  <2>4. record' = [p \in Cbs |-> IF p \in T THEN "ended" ELSE record[p]]
    BY <2>3 DEF Burial
  <2>5. Dir!Die(T)
    BY <1>2, <1>3, <2>1, <2>2, <2>4 DEF Dir!Die, Burial
  <2>6. T \in SUBSET Cbs
    BY DEF T
  <2> QED BY <2>5, <2>6 DEF Dir!Next
<1>5. CASE ~(S \subseteq Registered)
  <2>1. PICK o \in S : S = {o} /\ o \notin Registered
    BY <1>5 DEF Burial
  <2>2. PICK p \in Cbs : p = peer[o]
    BY <1>b
  <2>3. registry[p] # o
    BY <1>b, <2>1 DEF Registered
  <2>4. p \notin {q \in Cbs : PidAlive(q)}
    BY <1>a, <1>b, <2>2, <2>3 DEF LiveSessionReachable
  <2>5. record' = [record EXCEPT ![p] = "ended"]
    BY <1>a, <2>1, <2>2 DEF Burial, TypeOK
  <2>6. registry' = registry /\ \A q \in Cbs : registry[q] # o
    BY <1>b, <2>1 DEF Burial, Registered
  <2>7. LiveEntries' = LiveEntries
    <3>1. ASSUME NEW q \in Cbs PROVE q \in LiveEntries' <=> q \in LiveEntries
      BY <1>a, <1>c, <2>1, <2>6 DEF LiveEntries
    <3> QED BY <3>1 DEF LiveEntries
  <2>8. Dir!DiesUnlisted(p)
    BY <1>2, <1>3, <2>4, <2>5, <2>6, <2>7 DEF Dir!DiesUnlisted
  <2> QED BY <2>8 DEF Dir!Next
<1> QED BY <1>4, <1>5

\* A sweep forgets entries of the dead.
LEMMA SweepForgets ==
  ASSUME DirectoryInv, [Next]_vars, SweepDead
  PROVE  Dir!Next
<1>1. PICK S \in SUBSET Sweepable :
        /\ registry' = [p \in Cbs |-> IF p \in S THEN None ELSE registry[p]]
        /\ UNCHANGED <<child, status, label, record>>
  BY DEF SweepDead, cbVars
<1>2. S \subseteq Cbs /\ \A p \in S : registry[p] # None /\ ~IsAlive(registry[p])
  BY DEF Sweepable, IsAlive
<1>3. LiveEntries' = LiveEntries
  <2>1. ASSUME NEW p \in Cbs PROVE p \in LiveEntries' <=> p \in LiveEntries
    BY <1>1, <1>2 DEF LiveEntries, IsAlive
  <2> QED BY <2>1 DEF LiveEntries
<1>4. \A p \in Cbs : LabelShown(p)' = IF p \in S THEN NoLabel ELSE LabelShown(p)
  BY <1>1 DEF LabelShown
<1>5. [p \in Cbs |-> LabelShown(p)]'
        = [p \in Cbs |-> IF p \in S THEN NoLabel ELSE [q \in Cbs |-> LabelShown(q)][p]]
  BY <1>4
<1>6. {p \in Cbs : PidAlive(p)}' = {p \in Cbs : PidAlive(p)}
  BY <1>1 DEF PidAlive
<1>7. S \subseteq Dir!Listed \ LiveEntries
  BY <1>2 DEF Dir!Listed, LiveEntries
<1>8. Dir!Forget(S)
  BY <1>1, <1>3, <1>5, <1>6, <1>7 DEF Dir!Forget
<1> QED BY <1>2, <1>8 DEF Dir!Next

\* Every step of the protocol is a step of the directory, or does not show.
LEMMA DirectoryStep ==
  ASSUME DirectoryInv, DirectoryInv', [Next]_vars
  PROVE  [Dir!Next]_(Dir!dirVars)
<1>1. ASSUME NEW c \in Conns, Register(c) PROVE Dir!Next
  <2>1. PICK p \in Cbs : p = peer[c]
    BY <1>1, RegisterFinds DEF DirectoryInv
  <2> QED BY <1>1, <2>1, RegisterJoins DEF Dir!Next
<1>2. ASSUME NEW S \in SUBSET Alive, Burial(S) PROVE Dir!Next
  BY <1>2, BurialDies
<1>3. ASSUME SweepDead PROVE Dir!Next
  BY <1>3, SweepForgets
<1>4. ASSUME Unseen
      PROVE  /\ registry' = registry /\ record' = record /\ LiveEntries' = LiveEntries
             /\ [p \in Cbs |-> LabelShown(p)]' = [p \in Cbs |-> LabelShown(p)]
  BY <1>4 DEF Unseen, LiveEntries, LabelShown, IsAlive
<1>5. ASSUME Unseen, child' = child PROVE UNCHANGED Dir!dirVars
  <2>1. {p \in Cbs : PidAlive(p)}' = {p \in Cbs : PidAlive(p)}
    BY <1>5 DEF PidAlive
  <2> QED BY <1>4, <1>5, <2>1 DEF Dir!dirVars
<1>6. ASSUME Unseen, NEW p \in Cbs, ChildDies(p) PROVE Dir!Next
  <2>1. TypeOK
    BY DirectoryFacts
  <2>2. p \in {q \in Cbs : PidAlive(q)}
    BY <1>6 DEF ChildDies, PidAlive
  <2>3. {q \in Cbs : PidAlive(q)}' = {q \in Cbs : PidAlive(q)} \ {p}
    BY <1>6, <2>1 DEF ChildDies, PidAlive, TypeOK
  <2>4. Dir!ChildExits(p)
    BY <1>4, <1>6, <2>2, <2>3 DEF Dir!ChildExits
  <2> QED BY <2>4 DEF Dir!Next
<1>7. PipesInv
  BY DirectoryFacts
<1> QED BY <1>1, <1>2, <1>3, <1>5, <1>6, <1>7, DirectoryCases

\* The daemon keeps the promises of Directory to whoever addresses terminals by label,
\* for any number of terminals and connections, and through every order of hello, resume,
\* loss, late close, bye, heartbeat, pid poll and sweep.
THEOREM DirectoryImplemented == Spec => DirectoryKept
<1>1. DirectoryInv /\ DirectoryInv' /\ [Next]_vars => [Dir!Next]_(Dir!dirVars)
  BY DirectoryStep
<1> QED BY <1>1, DirectoryInit, DirectoryInvAlways, PTL DEF Spec, DirectoryKept, Dir!Spec

=============================================================================
