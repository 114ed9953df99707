-------------------------- MODULE DaemonClientProof --------------------------
(***************************************************************************)
(* DaemonClient implements Calls, for every set of requests and every      *)
(* number of connections, and leaves no caller behind.                     *)
(***************************************************************************)
EXTENDS DaemonClient, FiniteSetTheorems, TLAPS

Closed == {c \in Conns : cEnd[c] = "closed"}

\* Types; connections are opened in their order, and no more reconnect timers run than
\* connections have closed.
Types ==
  /\ TypeOK
  /\ \A c \in Conns : c >= nextConn => cEnd[c] = "unused"
  /\ retries <= Cardinality(Closed)

\* Where a request can be: written and unread, in its handler, answered.
OneCopy ==
  /\ \A c \in Conns : \A r \in toServer[c] : executed[r] = 0 /\ sentOn[r] = c
  /\ \A c \in Conns : \A r \in serving[c] :
       executed[r] = 0 /\ sentOn[r] = c /\ r \notin toServer[c]
  /\ \A c \in Conns, r \in Requests : r \in toClient[c] => executed[r] = 1
  /\ \A r \in Requests : executed[r] <= 1

\* A request that was not written is nowhere.
NotSent ==
  \A r \in Requests : call[r] \in {"idle", "connecting"} => sentOn[r] = NoConn /\ executed[r] = 0

-----------------------------------------------------------------------------
(* Type correctness *)

LEMMA ClosedIsFinite ==
  /\ IsFiniteSet(Closed)
  /\ Cardinality(Closed) \in Nat
  /\ Cardinality(Closed) <= MaxConns
<1>1. IsFiniteSet(Conns) /\ Cardinality(Conns) = MaxConns
  BY FS_Interval, BoundAssumption DEF Conns
<1>2. Closed \subseteq Conns
  BY DEF Closed
<1> QED BY <1>1, <1>2, FS_Subset, FS_CardinalityType

LEMMA TypeInit == Init => Types
<1> SUFFICES ASSUME Init PROVE Types
  OBVIOUS
<1>1. /\ retries \in 0..MaxConns
      /\ nextConn \in 1..(MaxConns + 1)
      /\ sock \in Conns \union {NoConn}
      /\ target \in Conns \union {NoConn}
  BY BoundAssumption DEF Init
<1>2. executed \in [Requests -> Nat] /\ sentOn \in [Requests -> Conns \union {NoConn}]
  BY DEF Init
<1>3. TypeOK
  BY <1>1, <1>2 DEF Init, TypeOK
<1>4. retries <= Cardinality(Closed)
  BY ClosedIsFinite DEF Init
<1>5. \A c \in Conns : c >= nextConn => cEnd[c] = "unused"
  BY DEF Init
<1> QED BY <1>3, <1>4, <1>5 DEF Types

LEMMA SettleType ==
  ASSUME TypeOK, NEW rs, NEW o \in {"pending", "ok", "failed", "connecting"}, Settle(rs, o)
  PROVE  call' \in [Requests -> {"idle", "connecting", "pending", "ok", "failed"}]
BY DEF TypeOK, Settle

LEMMA SendType ==
  ASSUME TypeOK, NEW rs \in SUBSET Requests, NEW c \in Conns, Send(rs, c)
  PROVE  /\ call' \in [Requests -> {"idle", "connecting", "pending", "ok", "failed"}]
         /\ sentOn' \in [Requests -> Conns \union {NoConn}]
         /\ toServer' \in [Conns -> SUBSET Requests]
         /\ opening' \in [Conns -> {"nothing", "hello", "request"}]
<1>1. call' \in [Requests -> {"idle", "connecting", "pending", "ok", "failed"}]
  BY SettleType DEF Send
<1>2. sentOn' \in [Requests -> Conns \union {NoConn}]
  BY DEF Send, TypeOK
<1>3. toServer' \in [Conns -> SUBSET Requests]
  BY DEF Send, TypeOK
<1>4. opening' \in [Conns -> {"nothing", "hello", "request"}]
  BY DEF Send, TypeOK
<1> QED BY <1>1, <1>2, <1>3, <1>4

LEMMA AbandonType ==
  ASSUME TypeOK, Abandon
  PROVE  /\ phase' \in {"none", "dialing", "secret", "ack"}
         /\ target' \in Conns \union {NoConn}
         /\ cEnd' \in [Conns -> {"unused", "open", "destroyed", "closed"}]
         /\ toClient' \in [Conns -> SUBSET (Requests \union {"ack", "error"})]
         /\ Closed' = Closed
<1>1. cEnd' \in [Conns -> {"unused", "open", "destroyed", "closed"}]
  BY DEF Abandon, TypeOK
<1>2. toClient' \in [Conns -> SUBSET (Requests \union {"ack", "error"})]
  BY DEF Abandon, TypeOK
<1>3. \A c \in Conns : cEnd'[c] = "closed" <=> cEnd[c] = "closed"
  BY DEF Abandon, TypeOK
<1>4. Closed' = Closed
  BY <1>3 DEF Closed
<1> QED BY <1>1, <1>2, <1>4 DEF Abandon, NoConn

\* A step that leaves the ends of the client and the timers alone keeps the rest of Types.
LEMMA TypesKept ==
  ASSUME Types, TypeOK', cEnd' = cEnd, retries' = retries, nextConn' = nextConn
  PROVE  Types'
<1>1. Closed' = Closed
  BY DEF Closed
<1> QED BY <1>1 DEF Types

LEMMA TypeStep ==
  ASSUME Types, [Next]_vars
  PROVE  Types'
<1> USE DEF clientVars, pipeVars, serverVars, callVars
<1>0. TypeOK
  BY DEF Types
<1>1. ASSUME NEW r \in Requests, RequestOnSocket(r) PROVE Types'
  <2>1. sock \in Conns /\ Send({r}, sock)
    BY <1>0, <1>1 DEF RequestOnSocket, Connected, TypeOK
  <2>2. TypeOK'
    BY <1>0, <1>1, <2>1, SendType DEF RequestOnSocket, TypeOK
  <2> QED BY <1>1, <2>2, TypesKept DEF RequestOnSocket
<1>2. ASSUME NEW r \in Requests, RequestWaits(r) PROVE Types'
  <2>1. call' \in [Requests -> {"idle", "connecting", "pending", "ok", "failed"}]
    BY <1>0, <1>2, SettleType DEF RequestWaits
  <2>2. TypeOK'
    BY <1>0, <1>2, <2>1 DEF RequestWaits, TypeOK
  <2> QED BY <1>2, <2>2, TypesKept DEF RequestWaits
<1>3. ASSUME NEW r \in Requests, Timeout(r) PROVE Types'
  <2>1. call' \in [Requests -> {"idle", "connecting", "pending", "ok", "failed"}]
    BY <1>0, <1>3, SettleType DEF Timeout
  <2>2. TypeOK'
    BY <1>0, <1>3, <2>1 DEF Timeout, TypeOK
  <2> QED BY <1>3, <2>2, TypesKept DEF Timeout
<1>4. CASE Reconnect
  <2>1. retries' \in 0..MaxConns /\ retries' <= retries /\ retries \in Nat /\ retries' \in Nat
    BY <1>0, <1>4, BoundAssumption DEF Reconnect, TypeOK
  <2>2. TypeOK'
    BY <1>0, <1>4, <2>1 DEF Reconnect, TypeOK
  <2>3. Closed' = Closed
    BY <1>4 DEF Reconnect, Closed
  <2>4. retries' <= Cardinality(Closed)'
    BY <2>1, <2>3, ClosedIsFinite DEF Types
  <2>5. (\A c \in Conns : c >= nextConn => cEnd[c] = "unused")'
    BY <1>4 DEF Reconnect, Types
  <2> QED BY <2>2, <2>4, <2>5 DEF Types
<1>5. CASE Dial
  <2>1. nextConn \in Conns /\ nextConn \in Nat /\ nextConn' = nextConn + 1
    BY <1>5 DEF Dial, Conns
  <2>2. nextConn' \in 1..(MaxConns + 1)
    BY <2>1, BoundAssumption DEF Conns
  <2>3. cEnd' = [cEnd EXCEPT ![nextConn] = "open"] /\ cEnd[nextConn] = "unused"
    BY <1>5, <2>1 DEF Dial, Types
  <2>4. /\ cEnd' \in [Conns -> {"unused", "open", "destroyed", "closed"}]
        /\ sEnd' \in [Conns -> {"unused", "open", "closed"}]
        /\ opening' \in [Conns -> {"nothing", "hello", "request"}]
    BY <1>0, <1>5 DEF Dial, TypeOK
  <2>5. TypeOK'
    BY <1>0, <1>5, <2>2, <2>4 DEF Dial, TypeOK
  <2>6. \A c \in Conns : cEnd'[c] = "closed" <=> cEnd[c] = "closed"
    BY <1>0, <2>3 DEF TypeOK
  <2>7. Closed' = Closed
    BY <2>6 DEF Closed
  <2>8. \A c \in Conns : c >= nextConn' => cEnd'[c] = "unused"
    BY <1>0, <2>1, <2>3 DEF Types, TypeOK, Conns
  <2> QED BY <1>5, <2>5, <2>7, <2>8 DEF Types, Dial
<1>6. CASE DialFails
  <2>1. call' \in [Requests -> {"idle", "connecting", "pending", "ok", "failed"}]
    BY <1>0, <1>6, SettleType DEF DialFails
  <2>2. TypeOK'
    BY <1>0, <1>6, <2>1 DEF DialFails, TypeOK
  <2> QED BY <1>6, <2>2, TypesKept DEF DialFails
<1>7. CASE SecretRead
  <2>1. opening' \in [Conns -> {"nothing", "hello", "request"}]
    BY <1>0, <1>7 DEF SecretRead, TypeOK
  <2>2. TypeOK'
    BY <1>0, <1>7, <2>1 DEF SecretRead, TypeOK
  <2> QED BY <1>7, <2>2, TypesKept DEF SecretRead
<1>8. ASSUME Abandon, Settle(Waiting, "failed"),
             UNCHANGED <<sock, secret, retries, sEnd, nextConn, opening, toServer, serverVars, sentOn>>
      PROVE  Types'
  <2>1. call' \in [Requests -> {"idle", "connecting", "pending", "ok", "failed"}]
    BY <1>0, <1>8, SettleType
  <2>2. TypeOK'
    BY <1>0, <1>8, <2>1, AbandonType DEF TypeOK
  <2>3. Closed' = Closed
    BY <1>0, <1>8, AbandonType
  <2>4. \A c \in Conns : cEnd[c] = "unused" => cEnd'[c] = "unused"
    BY <1>0, <1>8 DEF Abandon, TypeOK
  <2> QED BY <1>8, <2>2, <2>3, <2>4 DEF Types
<1>9. ASSUME HandshakeFails \/ \E c \in Conns : OnError(c) PROVE Types'
  BY <1>8, <1>9 DEF HandshakeFails, OnError
<1>10. ASSUME NEW c \in Conns, OnHelloAck(c) PROVE Types'
  <2>1. toClient' \in [Conns -> SUBSET (Requests \union {"ack", "error"})]
    BY <1>0, <1>10 DEF OnHelloAck, TypeOK
  <2>2. /\ call' \in [Requests -> {"idle", "connecting", "pending", "ok", "failed"}]
        /\ sentOn' \in [Requests -> Conns \union {NoConn}]
        /\ toServer' \in [Conns -> SUBSET Requests]
        /\ opening' \in [Conns -> {"nothing", "hello", "request"}]
    <3>1. CASE Connected
      <4>1. sock \in Conns /\ Send(Waiting, sock) /\ Waiting \in SUBSET Requests
        BY <1>0, <1>10, <3>1 DEF OnHelloAck, Connected, TypeOK, Waiting
      <4> QED BY <1>0, <4>1, SendType
    <3>2. CASE ~Connected
      <4>1. Settle(Waiting, "failed") /\ UNCHANGED <<sentOn, toServer, opening>>
        BY <1>10, <3>2 DEF OnHelloAck
      <4> QED BY <1>0, <4>1, SettleType DEF TypeOK
    <3> QED BY <3>1, <3>2
  <2>3. TypeOK'
    BY <1>0, <1>10, <2>1, <2>2 DEF OnHelloAck, TypeOK
  <2> QED BY <1>10, <2>3, TypesKept DEF OnHelloAck
<1>11. ASSUME NEW c \in Conns, OnStray(c) PROVE Types'
  <2>1. toClient' \in [Conns -> SUBSET (Requests \union {"ack", "error"})]
    BY <1>0, <1>11 DEF OnStray, TypeOK
  <2>2. TypeOK'
    BY <1>0, <1>11, <2>1 DEF OnStray, TypeOK
  <2> QED BY <1>11, <2>2, TypesKept DEF OnStray
<1>12. ASSUME NEW c \in Conns, NEW r \in Requests, OnResp(c, r) PROVE Types'
  <2>1. toClient' \in [Conns -> SUBSET (Requests \union {"ack", "error"})]
    BY <1>0, <1>12 DEF OnResp, TypeOK
  <2>2. call' \in [Requests -> {"idle", "connecting", "pending", "ok", "failed"}]
    BY <1>0, <1>12, SettleType DEF OnResp
  <2>3. TypeOK'
    BY <1>0, <1>12, <2>1, <2>2 DEF OnResp, TypeOK
  <2> QED BY <1>12, <2>3, TypesKept DEF OnResp
<1>13. ASSUME NEW c \in Conns, OnEnd(c) PROVE Types'
  <2>1. /\ cEnd' \in [Conns -> {"unused", "open", "destroyed", "closed"}]
        /\ toClient' \in [Conns -> SUBSET (Requests \union {"ack", "error"})]
    BY <1>0, <1>13 DEF OnEnd, TypeOK
  <2>2. TypeOK'
    BY <1>0, <1>13, <2>1 DEF OnEnd, TypeOK
  <2>3. \A d \in Conns : /\ cEnd'[d] = "closed" <=> cEnd[d] = "closed"
                         /\ cEnd'[d] = "unused" <=> cEnd[d] = "unused"
    BY <1>0, <1>13 DEF OnEnd, TypeOK
  <2>4. Closed' = Closed
    BY <2>3 DEF Closed
  <2> QED BY <1>13, <2>2, <2>3, <2>4 DEF Types, OnEnd
<1>14. ASSUME NEW c \in Conns, OnClose(c) PROVE Types'
  <2>1. \A d \in Conns : /\ cEnd'[d] \in {"unused", "open", "destroyed", "closed"}
                         /\ cEnd'[d] = "closed" <=> d = c \/ cEnd[d] = "closed"
                         /\ cEnd'[d] = "unused" <=> cEnd[d] = "unused"
    BY <1>0, <1>14 DEF OnClose, TypeOK
  <2>2. /\ cEnd' \in [Conns -> {"unused", "open", "destroyed", "closed"}]
        /\ toClient' \in [Conns -> SUBSET (Requests \union {"ack", "error"})]
    BY <1>0, <1>14, <2>1 DEF OnClose, TypeOK
  <2>3. call' \in [Requests -> {"idle", "connecting", "pending", "ok", "failed"}]
    BY <1>0, <1>14, SettleType DEF OnClose
  <2>4. Closed' = Closed \union {c} /\ c \notin Closed
    BY <1>14, <2>1 DEF Closed, OnClose
  <2>5. Cardinality(Closed') = Cardinality(Closed) + 1
    BY <2>4, ClosedIsFinite, FS_AddElement
  <2>6. IsFiniteSet(Conns) /\ Cardinality(Conns) = MaxConns
    BY FS_Interval, BoundAssumption DEF Conns
  <2>7. Closed' \subseteq Conns
    BY <2>4 DEF Closed
  <2>8. Cardinality(Closed') <= MaxConns
    BY <2>6, <2>7, FS_Subset
  <2>9. retries' = retries + 1 /\ retries' <= Cardinality(Closed') /\ retries' \in 0..MaxConns
    BY <1>0, <1>14, <2>5, <2>8, ClosedIsFinite, BoundAssumption DEF OnClose, Types, TypeOK
  <2>10. TypeOK'
    BY <1>0, <1>14, <2>2, <2>3, <2>9 DEF OnClose, TypeOK
  <2>11. \A d \in Conns : d >= nextConn' => cEnd'[d] = "unused"
    BY <1>14, <2>1 DEF OnClose, Types
  <2> QED BY <2>9, <2>10, <2>11 DEF Types
<1>15. ASSUME NEW c \in Conns, AcceptMcp(c) PROVE Types'
  <2>1. /\ toClient' \in [Conns -> SUBSET (Requests \union {"ack", "error"})]
        /\ role' \in [Conns -> {"unknown", "mcp"}]
    BY <1>0, <1>15 DEF AcceptMcp, TypeOK
  <2>2. TypeOK'
    BY <1>0, <1>15, <2>1 DEF AcceptMcp, TypeOK
  <2> QED BY <1>15, <2>2, TypesKept DEF AcceptMcp
<1>16. ASSUME NEW c \in Conns, Refuses(c) PROVE Types'
  <2>1. /\ toClient' \in [Conns -> SUBSET (Requests \union {"ack", "error"})]
        /\ sEnd' \in [Conns -> {"unused", "open", "closed"}]
    BY <1>0, <1>16 DEF Refuses, TypeOK
  <2>2. TypeOK'
    BY <1>0, <1>16, <2>1 DEF Refuses, TypeOK
  <2> QED BY <1>16, <2>2, TypesKept DEF Refuses
<1>17. ASSUME NEW c \in Conns, NEW r \in Requests, Receive(c, r) PROVE Types'
  <2>1. toServer' \in [Conns -> SUBSET Requests] /\ serving' \in [Conns -> SUBSET Requests]
    BY <1>0, <1>17 DEF Receive, TypeOK
  <2>2. TypeOK'
    BY <1>0, <1>17, <2>1 DEF Receive, TypeOK
  <2> QED BY <1>17, <2>2, TypesKept DEF Receive
<1>18. ASSUME NEW c \in Conns, NEW r \in Requests, Respond(c, r) PROVE Types'
  <2>1. /\ toClient' \in [Conns -> SUBSET (Requests \union {"ack", "error"})]
        /\ serving' \in [Conns -> SUBSET Requests]
        /\ executed' \in [Requests -> Nat]
    BY <1>0, <1>18 DEF Respond, TypeOK
  <2>2. TypeOK'
    BY <1>0, <1>18, <2>1 DEF Respond, TypeOK
  <2> QED BY <1>18, <2>2, TypesKept DEF Respond
<1>19. ASSUME NEW c \in Conns, Break(c) PROVE Types'
  <2>1. TypeOK'
    BY <1>0, <1>19 DEF Break, TypeOK
  <2> QED BY <1>19, <2>1, TypesKept DEF Break
<1>20. CASE DaemonDies
  <2>1. sEnd' \in [Conns -> {"unused", "open", "closed"}] /\ serving' \in [Conns -> SUBSET Requests]
    BY <1>0, <1>20 DEF DaemonDies, TypeOK
  <2>2. TypeOK'
    BY <1>0, <1>20, <2>1 DEF DaemonDies, TypeOK
  <2> QED BY <1>20, <2>2, TypesKept DEF DaemonDies
<1>21. CASE UNCHANGED vars
  <2>1. TypeOK'
    BY <1>0, <1>21 DEF vars, TypeOK
  <2> QED BY <1>21, <2>1, TypesKept DEF vars
<1> QED BY <1>1, <1>2, <1>3, <1>4, <1>5, <1>6, <1>7, <1>9, <1>10, <1>11, <1>12, <1>13, <1>14,
           <1>15, <1>16, <1>17, <1>18, <1>19, <1>20, <1>21 DEF Next, ClientReads, AuthFailed, RefuseRole

\* The state is well-typed; in particular each lost connection leaves one reconnect timer.
THEOREM TypeCorrect == Spec => []TypeOK
<1>1. Types /\ [Next]_vars => Types'
  BY TypeStep
<1>2. Types => TypeOK
  BY DEF Types
<1> QED BY <1>1, <1>2, TypeInit, PTL DEF Spec

-----------------------------------------------------------------------------
(* At most once *)

Once == Types /\ OneCopy /\ NotSent

LEMMA OnceInit == Init => Once
<1> SUFFICES ASSUME Init PROVE Once
  OBVIOUS
<1>1. OneCopy /\ NotSent
  BY DEF Init, OneCopy, NotSent
<1> QED BY <1>1, TypeInit DEF Once

\* A step that carries nothing out and only takes requests out of the pipes.
LEMMA NothingSent ==
  ASSUME Once, executed' = executed, sentOn' = sentOn,
         \A c \in Conns : /\ toServer'[c] \subseteq toServer[c]
                          /\ serving'[c] \subseteq serving[c]
                          /\ \A r \in Requests : r \in toClient'[c] => r \in toClient[c],
         \A r \in Requests : call'[r] \in {"idle", "connecting"} => call[r] \in {"idle", "connecting"}
  PROVE  (OneCopy /\ NotSent)'
<1>1. OneCopy'
  <2>1. \A c \in Conns : \A r \in toServer'[c] : executed'[r] = 0 /\ sentOn'[r] = c
    BY DEF Once, OneCopy
  <2>2. \A c \in Conns : \A r \in serving'[c] :
          executed'[r] = 0 /\ sentOn'[r] = c /\ r \notin toServer'[c]
    BY DEF Once, OneCopy
  <2>3. \A c \in Conns, r \in Requests : r \in toClient'[c] => executed'[r] = 1
    BY DEF Once, OneCopy
  <2> QED BY <2>1, <2>2, <2>3 DEF Once, OneCopy
<1>2. NotSent'
  BY DEF Once, NotSent
<1> QED BY <1>1, <1>2

\* Requests that were nowhere are written to one connection.
LEMMA SendsOnce ==
  ASSUME Once, NEW c \in Conns, NEW rs \in SUBSET Requests,
         \A r \in rs : call[r] \in {"idle", "connecting"},
         Send(rs, c), executed' = executed, serving' = serving,
         \A d \in Conns, r \in Requests : r \in toClient'[d] => r \in toClient[d]
  PROVE  (OneCopy /\ NotSent)'
<1>1. \A r \in rs : /\ sentOn[r] = NoConn /\ executed[r] = 0
                    /\ \A d \in Conns : r \notin toServer[d] /\ r \notin serving[d]
  BY DEF Once, NotSent, OneCopy, NoConn, Conns
<1>2. \A r \in Requests : sentOn'[r] = IF r \in rs THEN c ELSE sentOn[r]
  BY DEF Send
<1>3. \A d \in Conns : toServer'[d] = IF d = c THEN toServer[d] \union rs ELSE toServer[d]
  BY DEF Send, Once, Types, TypeOK
<1>4. \A d \in Conns : toServer[d] \subseteq Requests /\ serving[d] \subseteq Requests
  BY DEF Once, Types, TypeOK
<1>5. \A d \in Conns : \A r \in toServer'[d] : executed'[r] = 0 /\ sentOn'[r] = d
  <2> SUFFICES ASSUME NEW d \in Conns, NEW r \in toServer'[d]
               PROVE  executed'[r] = 0 /\ sentOn'[r] = d
    OBVIOUS
  <2>1. CASE r \in rs
    BY <1>1, <1>2, <1>3, <2>1
  <2>2. CASE r \notin rs
    <3>1. r \in toServer[d] /\ r \in Requests
      BY <1>3, <1>4, <2>2
    <3>2. executed[r] = 0 /\ sentOn[r] = d
      BY <3>1 DEF Once, OneCopy
    <3> QED BY <1>2, <2>2, <3>1, <3>2
  <2> QED BY <2>1, <2>2
<1>6. \A d \in Conns : \A r \in serving'[d] :
        executed'[r] = 0 /\ sentOn'[r] = d /\ r \notin toServer'[d]
  <2> SUFFICES ASSUME NEW d \in Conns, NEW r \in serving'[d]
               PROVE  executed'[r] = 0 /\ sentOn'[r] = d /\ r \notin toServer'[d]
    OBVIOUS
  <2>1. r \in serving[d] /\ r \in Requests /\ r \notin rs
    BY <1>1, <1>4
  <2>2. executed[r] = 0 /\ sentOn[r] = d /\ r \notin toServer[d]
    BY <2>1 DEF Once, OneCopy
  <2> QED BY <1>2, <1>3, <2>1, <2>2
<1>7. OneCopy'
  BY <1>5, <1>6 DEF Once, OneCopy
<1>8. NotSent'
  <2> SUFFICES ASSUME NEW r \in Requests, call'[r] \in {"idle", "connecting"}
               PROVE  sentOn'[r] = NoConn /\ executed'[r] = 0
    BY DEF NotSent
  <2>1. r \notin rs /\ call'[r] = call[r]
    BY DEF Send, Settle
  <2> QED BY <1>2, <2>1 DEF Once, NotSent
<1> QED BY <1>7, <1>8

\* What becomes of requests that are settled.
LEMMA SettleCall ==
  ASSUME NEW rs, NEW o \in {"pending", "ok", "failed"}, Settle(rs, o)
  PROVE  \A r \in Requests :
           call'[r] \in {"idle", "connecting"} => call[r] \in {"idle", "connecting"}
BY DEF Settle

LEMMA OnceStep ==
  ASSUME Once, [Next]_vars
  PROVE  Once'
<1> USE DEF clientVars, pipeVars, serverVars, callVars
<1> SUFFICES (OneCopy /\ NotSent)'
  BY TypeStep DEF Once
<1>0. TypeOK
  BY DEF Once, Types
<1>1. ASSUME NEW r \in Requests, RequestOnSocket(r) PROVE (OneCopy /\ NotSent)'
  <2>1. sock \in Conns /\ Send({r}, sock) /\ call[r] \in {"idle", "connecting"}
    BY <1>0, <1>1 DEF RequestOnSocket, Connected, TypeOK
  <2> QED BY <1>1, <2>1, SendsOnce DEF RequestOnSocket
<1>2. ASSUME NEW r \in Requests, RequestWaits(r) PROVE (OneCopy /\ NotSent)'
  <2>1. \A q \in Requests : call'[q] \in {"idle", "connecting"} => call[q] \in {"idle", "connecting"}
    BY <1>2 DEF RequestWaits, Settle
  <2> QED BY <1>2, <2>1, NothingSent DEF RequestWaits
<1>3. ASSUME NEW r \in Requests, Timeout(r) PROVE (OneCopy /\ NotSent)'
  BY <1>3, SettleCall, NothingSent DEF Timeout
<1>4. CASE Reconnect
  BY <1>4, NothingSent DEF Reconnect
<1>5. CASE Dial
  BY <1>5, NothingSent DEF Dial
<1>6. CASE DialFails
  BY <1>6, SettleCall, NothingSent DEF DialFails
<1>7. CASE SecretRead
  BY <1>7, NothingSent DEF SecretRead
<1>8. ASSUME HandshakeFails \/ \E c \in Conns : OnError(c) PROVE (OneCopy /\ NotSent)'
  <2>1. Abandon /\ Settle(Waiting, "failed") /\ UNCHANGED <<toServer, serverVars, sentOn>>
    BY <1>8 DEF HandshakeFails, OnError
  <2>2. \A c \in Conns, r \in Requests : r \in toClient'[c] => r \in toClient[c]
    BY <1>0, <2>1 DEF Abandon, TypeOK
  <2> QED BY <2>1, <2>2, SettleCall, NothingSent
<1>9. ASSUME NEW c \in Conns, OnHelloAck(c) PROVE (OneCopy /\ NotSent)'
  <2>1. \A d \in Conns, r \in Requests : r \in toClient'[d] => r \in toClient[d]
    BY <1>0, <1>9 DEF OnHelloAck, TypeOK
  <2>2. CASE Connected
    <3>1. sock \in Conns /\ Send(Waiting, sock) /\ Waiting \in SUBSET Requests
      BY <1>0, <1>9, <2>2 DEF OnHelloAck, Connected, TypeOK, Waiting
    <3>2. \A r \in Waiting : call[r] \in {"idle", "connecting"}
      BY DEF Waiting
    <3>3. executed' = executed /\ serving' = serving
      BY <1>9 DEF OnHelloAck
    <3> QED BY <2>1, <3>1, <3>2, <3>3, SendsOnce
  <2>3. CASE ~Connected
    <3>1. Settle(Waiting, "failed") /\ UNCHANGED <<sentOn, toServer, executed, serving>>
      BY <1>9, <2>3 DEF OnHelloAck
    <3> QED BY <2>1, <3>1, SettleCall, NothingSent
  <2> QED BY <2>2, <2>3
<1>10. ASSUME NEW c \in Conns, OnStray(c) PROVE (OneCopy /\ NotSent)'
  <2>1. \A d \in Conns, r \in Requests : r \in toClient'[d] => r \in toClient[d]
    BY <1>0, <1>10 DEF OnStray, TypeOK
  <2> QED BY <1>10, <2>1, NothingSent DEF OnStray
<1>11. ASSUME NEW c \in Conns, NEW r \in Requests, OnResp(c, r) PROVE (OneCopy /\ NotSent)'
  <2>1. \A d \in Conns, q \in Requests : q \in toClient'[d] => q \in toClient[d]
    BY <1>0, <1>11 DEF OnResp, TypeOK
  <2> QED BY <1>11, <2>1, SettleCall, NothingSent DEF OnResp
<1>12. ASSUME NEW c \in Conns, OnEnd(c) PROVE (OneCopy /\ NotSent)'
  <2>1. \A d \in Conns, q \in Requests : q \in toClient'[d] => q \in toClient[d]
    BY <1>0, <1>12 DEF OnEnd, TypeOK
  <2> QED BY <1>12, <2>1, NothingSent DEF OnEnd
<1>13. ASSUME NEW c \in Conns, OnClose(c) PROVE (OneCopy /\ NotSent)'
  <2>1. \A d \in Conns, q \in Requests : q \in toClient'[d] => q \in toClient[d]
    BY <1>0, <1>13 DEF OnClose, TypeOK
  <2>2. \A q \in Requests : call'[q] \in {"idle", "connecting"} => call[q] \in {"idle", "connecting"}
    BY <1>13, SettleCall DEF OnClose
  <2>3. UNCHANGED <<toServer, serving, executed, sentOn>>
    BY <1>13 DEF OnClose
  <2> QED BY <2>1, <2>2, <2>3, NothingSent
<1>14. ASSUME NEW c \in Conns, AcceptMcp(c) PROVE (OneCopy /\ NotSent)'
  <2>1. \A d \in Conns, q \in Requests : q \in toClient'[d] => q \in toClient[d]
    BY <1>0, <1>14, RequestsAssumption DEF AcceptMcp, TypeOK
  <2> QED BY <1>14, <2>1, NothingSent DEF AcceptMcp
<1>15. ASSUME NEW c \in Conns, Refuses(c) PROVE (OneCopy /\ NotSent)'
  <2>1. \A d \in Conns, q \in Requests : q \in toClient'[d] => q \in toClient[d]
    BY <1>0, <1>15, RequestsAssumption DEF Refuses, TypeOK
  <2> QED BY <1>15, <2>1, NothingSent DEF Refuses
<1>16. ASSUME NEW c \in Conns, NEW r \in Requests, Receive(c, r) PROVE (OneCopy /\ NotSent)'
  <2>1. r \in toServer[c] /\ executed[r] = 0 /\ sentOn[r] = c
    BY <1>16 DEF Receive, Once, OneCopy
  <2>2. \A d \in Conns : /\ toServer'[d] = IF d = c THEN toServer[d] \ {r} ELSE toServer[d]
                         /\ serving'[d] = IF d = c THEN serving[d] \union {r} ELSE serving[d]
    BY <1>0, <1>16 DEF Receive, TypeOK
  <2>3. UNCHANGED <<toClient, executed, call, sentOn>>
    BY <1>16 DEF Receive
  <2>4. ASSUME NEW d \in Conns, NEW q \in toServer'[d] PROVE executed'[q] = 0 /\ sentOn'[q] = d
    <3>1. q \in toServer[d]
      BY <2>2, <2>4
    <3>2. executed[q] = 0 /\ sentOn[q] = d
      BY <3>1 DEF Once, OneCopy
    <3> QED BY <2>3, <3>2
  <2>5. ASSUME NEW d \in Conns, NEW q \in serving'[d]
        PROVE  executed'[q] = 0 /\ sentOn'[q] = d /\ q \notin toServer'[d]
    <3>1. CASE q \in serving[d]
      <4>1. executed[q] = 0 /\ sentOn[q] = d /\ q \notin toServer[d]
        BY <3>1 DEF Once, OneCopy
      <4> QED BY <2>2, <2>3, <4>1
    <3>2. CASE q \notin serving[d]
      <4>1. q = r /\ d = c
        BY <2>2, <2>5, <3>2
      <4> QED BY <2>1, <2>2, <2>3, <4>1
    <3> QED BY <3>1, <3>2
  <2> QED BY <2>3, <2>4, <2>5 DEF Once, OneCopy, NotSent
<1>17. ASSUME NEW c \in Conns, NEW r \in Requests, Respond(c, r) PROVE (OneCopy /\ NotSent)'
  <2>1. r \in serving[c] /\ executed[r] = 0 /\ sentOn[r] = c /\ r \notin toServer[c]
    BY <1>17 DEF Respond, Once, OneCopy
  <2>2. \A d \in Conns : d # c => r \notin toServer[d] /\ r \notin serving[d]
    BY <2>1 DEF Once, OneCopy
  <2>3. \A q \in Requests : executed'[q] = IF q = r THEN 1 ELSE executed[q]
    BY <1>0, <1>17, <2>1 DEF Respond, TypeOK
  <2>4. \A d \in Conns : serving'[d] = IF d = c THEN serving[d] \ {r} ELSE serving[d]
    BY <1>0, <1>17 DEF Respond, TypeOK
  <2>5. \A d \in Conns, q \in Requests : q \in toClient'[d] => q \in toClient[d] \/ q = r
    BY <1>0, <1>17 DEF Respond, TypeOK
  <2>6. UNCHANGED <<toServer, call, sentOn>>
    BY <1>17 DEF Respond
  <2>7. \A d \in Conns : toServer[d] \subseteq Requests /\ serving[d] \subseteq Requests
    BY <1>0 DEF TypeOK
  <2>8. \A d \in Conns : \A q \in toServer'[d] : executed'[q] = 0 /\ sentOn'[q] = d
    BY <2>1, <2>2, <2>3, <2>6, <2>7 DEF Once, OneCopy
  <2>9. ASSUME NEW d \in Conns, NEW q \in serving'[d]
        PROVE  executed'[q] = 0 /\ sentOn'[q] = d /\ q \notin toServer'[d]
    <3>1. q \in serving[d] /\ q # r
      BY <2>2, <2>4, <2>9
    <3>2. q \in Requests
      BY <2>7, <3>1
    <3>3. executed[q] = 0 /\ sentOn[q] = d /\ q \notin toServer[d]
      BY <3>1 DEF Once, OneCopy
    <3> QED BY <2>3, <2>6, <3>1, <3>2, <3>3
  <2>10. \A d \in Conns, q \in Requests : q \in toClient'[d] => executed'[q] = 1
    BY <2>3, <2>5 DEF Once, OneCopy
  <2>11. \A q \in Requests : executed'[q] <= 1
    BY <2>3 DEF Once, OneCopy
  <2>12. OneCopy'
    BY <2>8, <2>9, <2>10, <2>11 DEF OneCopy
  <2>13. call[r] \notin {"idle", "connecting"}
    BY <2>1 DEF Once, NotSent, NoConn, Conns
  <2>14. NotSent'
    BY <2>3, <2>6, <2>13 DEF Once, NotSent
  <2> QED BY <2>12, <2>14
<1>18. ASSUME NEW c \in Conns, Break(c) PROVE (OneCopy /\ NotSent)'
  BY <1>18, NothingSent DEF Break
<1>19. CASE DaemonDies
  BY <1>19, NothingSent DEF DaemonDies
<1>20. CASE UNCHANGED vars
  BY <1>20, NothingSent DEF vars
<1> QED BY <1>1, <1>2, <1>3, <1>4, <1>5, <1>6, <1>7, <1>8, <1>9, <1>10, <1>11, <1>12, <1>13,
           <1>14, <1>15, <1>16, <1>17, <1>18, <1>19, <1>20 DEF Next, ClientReads, AuthFailed, RefuseRole
-----------------------------------------------------------------------------
(* DaemonClient implements Calls *)

\* Outcome before and after a step, without its CASE.
LEMMA OutcomeIs ==
  ASSUME NEW r \in Requests
  PROVE  /\ Outcome(r) = IF call[r] = "idle" THEN "none"
                         ELSE IF call[r] \in {"connecting", "pending"} THEN "open" ELSE call[r]
         /\ Outcome(r)' = IF call'[r] = "idle" THEN "none"
                          ELSE IF call'[r] \in {"connecting", "pending"} THEN "open" ELSE call'[r]
<1>1. Outcome(r) = IF call[r] = "idle" THEN "none"
                   ELSE IF call[r] \in {"connecting", "pending"} THEN "open" ELSE call[r]
  BY DEF Outcome
<1>2. Outcome(r)' = IF call'[r] = "idle" THEN "none"
                    ELSE IF call'[r] \in {"connecting", "pending"} THEN "open" ELSE call'[r]
  BY DEF Outcome
<1> QED BY <1>1, <1>2

\* A step that no caller notices.
LEMMA StutterMaps ==
  ASSUME executed' = executed, \A r \in Requests : Outcome(r)' = Outcome(r)
  PROVE  UNCHANGED C!callVars
BY DEF C!callVars

LEMMA CallMaps ==
  ASSUME NEW r \in Requests, call[r] = "idle", NEW o \in {"connecting", "pending"},
         Settle({r}, o), executed' = executed
  PROVE  C!Next
<1>1. Outcome(r) = "none" /\ Outcome(r)' = "open"
  BY OutcomeIs DEF Settle
<1>2. \A q \in Requests : q # r => Outcome(q)' = Outcome(q)
  BY OutcomeIs DEF Settle
<1>3. C!Call(r)
  BY <1>1, <1>2 DEF C!Call
<1> QED BY <1>3 DEF C!Next

LEMMA FailMaps ==
  ASSUME NEW rs \in SUBSET Requests, \A r \in rs : call[r] \in {"connecting", "pending"},
         Settle(rs, "failed"), executed' = executed
  PROVE  C!Next
<1>1. \A r \in rs : Outcome(r) = "open" /\ Outcome(r)' = "failed"
  BY OutcomeIs DEF Settle
<1>2. \A q \in Requests : q \notin rs => Outcome(q)' = Outcome(q)
  BY OutcomeIs DEF Settle
<1>3. C!Fail(rs)
  BY <1>1, <1>2 DEF C!Fail
<1> QED BY <1>3 DEF C!Next

\* Every step of the client and its daemon is a step of Calls or no step.
LEMMA StepMaps ==
  ASSUME Once, [Next]_vars
  PROVE  [C!Next]_C!callVars
<1> USE DEF clientVars, pipeVars, serverVars, callVars
<1>0. TypeOK
  BY DEF Once, Types
<1>s. ASSUME call' = call, executed' = executed PROVE UNCHANGED C!callVars
  BY <1>s, OutcomeIs, StutterMaps
<1>w. Waiting \in SUBSET Requests /\ Pending \in SUBSET Requests
  BY DEF Waiting, Pending
<1>1. ASSUME NEW r \in Requests, RequestOnSocket(r) PROVE C!Next
  BY <1>1, CallMaps DEF RequestOnSocket, Send
<1>2. ASSUME NEW r \in Requests, RequestWaits(r) PROVE C!Next
  BY <1>2, CallMaps DEF RequestWaits
<1>3. ASSUME NEW r \in Requests, Timeout(r) PROVE C!Next
  BY <1>3, FailMaps DEF Timeout
<1>4. ASSUME Settle(Waiting, "failed"), executed' = executed PROVE C!Next
  BY <1>4, <1>w, FailMaps DEF Waiting
<1>5. CASE DialFails \/ HandshakeFails \/ \E c \in Conns : OnError(c)
  BY <1>4, <1>5 DEF DialFails, HandshakeFails, OnError
<1>6. CASE Reconnect \/ Dial \/ SecretRead
  BY <1>6, <1>s DEF Reconnect, Dial, SecretRead
<1>7. ASSUME NEW c \in Conns, OnHelloAck(c) PROVE [C!Next]_C!callVars
  <2>1. executed' = executed
    BY <1>7 DEF OnHelloAck
  <2>2. CASE Connected
    <3>1. Settle(Waiting, "pending")
      BY <1>7, <2>2 DEF OnHelloAck, Send
    <3>2. \A r \in Requests : Outcome(r)' = Outcome(r)
      BY <3>1, OutcomeIs DEF Settle, Waiting
    <3> QED BY <2>1, <3>2, StutterMaps
  <2>3. CASE ~Connected
    BY <1>4, <1>7, <2>1, <2>3 DEF OnHelloAck
  <2> QED BY <2>2, <2>3
<1>8. ASSUME NEW c \in Conns, OnStray(c) \/ OnEnd(c) \/ AcceptMcp(c) \/ Refuses(c) \/ Break(c)
      PROVE  UNCHANGED C!callVars
  BY <1>8, <1>s DEF OnStray, OnEnd, AcceptMcp, Refuses, Break
<1>9. ASSUME NEW c \in Conns, NEW r \in Requests, OnResp(c, r) PROVE [C!Next]_C!callVars
  <2>1. executed[r] = 1 /\ executed' = executed
    BY <1>9 DEF OnResp, Once, OneCopy
  <2>2. Settle(Answered(r), "ok")
    BY <1>9 DEF OnResp
  <2>3. CASE call[r] = "pending"
    <3>1. Outcome(r) = "open" /\ Outcome(r)' = "ok"
      BY <2>2, <2>3, OutcomeIs DEF Settle, Answered, Pending
    <3>2. \A q \in Requests : q # r => Outcome(q)' = Outcome(q)
      BY <2>2, OutcomeIs DEF Settle, Answered
    <3>3. C!Succeed(r)
      BY <2>1, <3>1, <3>2 DEF C!Succeed
    <3> QED BY <3>3 DEF C!Next
  <2>4. CASE call[r] # "pending"
    <3>1. \A q \in Requests : Outcome(q)' = Outcome(q)
      BY <2>2, <2>4, OutcomeIs DEF Settle, Answered, Pending
    <3> QED BY <2>1, <3>1, StutterMaps
  <2> QED BY <2>3, <2>4
<1>10. ASSUME NEW c \in Conns, OnClose(c) PROVE C!Next
  <2>1. PICK rs \in SUBSET (Waiting \union Pending) : Settle(rs, "failed")
    BY <1>10 DEF OnClose, Lost
  <2>2. \A r \in rs : call[r] \in {"connecting", "pending"}
    BY DEF Waiting, Pending
  <2>3. rs \in SUBSET Requests /\ executed' = executed
    BY <1>10, <1>w DEF OnClose
  <2> QED BY <2>1, <2>2, <2>3, FailMaps
<1>11. ASSUME NEW c \in Conns, NEW r \in Requests, Receive(c, r) PROVE UNCHANGED C!callVars
  BY <1>11, <1>s DEF Receive
<1>12. ASSUME NEW c \in Conns, NEW r \in Requests, Respond(c, r) PROVE C!Next
  <2>1. executed[r] = 0 /\ sentOn[r] # NoConn
    BY <1>12 DEF Respond, Once, OneCopy, NoConn, Conns
  <2>2. executed' = [executed EXCEPT ![r] = 1]
    BY <1>0, <1>12, <2>1 DEF Respond, TypeOK
  <2>3. \A q \in Requests : Outcome(q)' = Outcome(q)
    BY <1>12, OutcomeIs DEF Respond
  <2>4. Outcome(r) # "none"
    BY <1>0, <2>1, OutcomeIs DEF Once, NotSent, TypeOK
  <2>5. C!Execute(r)
    BY <2>1, <2>2, <2>3, <2>4 DEF C!Execute
  <2> QED BY <2>5 DEF C!Next
<1>13. CASE DaemonDies \/ UNCHANGED vars
  BY <1>13, <1>s DEF DaemonDies, vars
<1> QED BY <1>1, <1>2, <1>3, <1>5, <1>6, <1>7, <1>8, <1>9, <1>10, <1>11, <1>12, <1>13
        DEF Next, ClientReads, AuthFailed, RefuseRole

LEMMA InitMaps == Init => C!Init
<1> SUFFICES ASSUME Init PROVE C!Init
  OBVIOUS
<1>1. \A r \in Requests : Outcome(r) = "none"
  BY OutcomeIs DEF Init
<1> QED BY <1>1 DEF Init, C!Init

\* Refinement: over lost connections, late answers, timeouts and reconnects every request
\* is carried out at most once, succeeds only after that, and is settled once.
THEOREM CallsImplemented == Spec => EachCallOnce
<1>1. Once /\ [Next]_vars => Once'
  BY OnceStep
<1>2. Once /\ [Next]_vars => [C!Next]_C!callVars
  BY StepMaps
<1> QED BY <1>1, <1>2, OnceInit, InitMaps, PTL DEF Spec, EachCallOnce, C!Spec

-----------------------------------------------------------------------------
(* No caller is left behind *)

\* A step that closes nothing and writes no request but to the current socket.
LEMMA LostKept ==
  ASSUME Types, LostCallsFailAtOnce,
         \A c \in Conns : cEnd'[c] = "closed" => cEnd[c] = "closed",
         \A r \in Requests : call'[r] = "pending" =>
           \/ call[r] = "pending" /\ sentOn'[r] = sentOn[r]
           \/ Connected /\ sentOn'[r] = sock /\ cEnd'[sock] = cEnd[sock]
  PROVE  LostCallsFailAtOnce'
<1> SUFFICES ASSUME NEW r \in Requests, call'[r] = "pending"
             PROVE  sentOn'[r] # NoConn /\ cEnd'[sentOn'[r]] # "closed"
  BY DEF LostCallsFailAtOnce, Pending
<1>1. CASE call[r] = "pending" /\ sentOn'[r] = sentOn[r]
  <2>1. sentOn[r] # NoConn /\ cEnd[sentOn[r]] # "closed"
    BY <1>1 DEF LostCallsFailAtOnce, Pending
  <2>2. sentOn[r] \in Conns
    BY <2>1 DEF Types, TypeOK
  <2> QED BY <1>1, <2>1, <2>2
<1>2. CASE Connected /\ sentOn'[r] = sock /\ cEnd'[sock] = cEnd[sock]
  BY <1>2 DEF Connected
<1> QED BY <1>1, <1>2

\* No request becomes pending by being settled otherwise.
LEMMA NoneBecomesPending ==
  ASSUME NEW rs, NEW o \in {"ok", "failed", "connecting"}, Settle(rs, o), sentOn' = sentOn
  PROVE  \A r \in Requests : call'[r] = "pending" => call[r] = "pending" /\ sentOn'[r] = sentOn[r]
BY DEF Settle

LEMMA LostStep ==
  ASSUME Types, LostCallsFailAtOnce, [Next]_vars
  PROVE  LostCallsFailAtOnce'
<1> USE DEF clientVars, pipeVars, serverVars, callVars
<1>0. TypeOK
  BY DEF Types
<1>1. ASSUME NEW r \in Requests, RequestOnSocket(r) PROVE LostCallsFailAtOnce'
  <2>1. \A q \in Requests : call'[q] = "pending" =>
          \/ call[q] = "pending" /\ sentOn'[q] = sentOn[q]
          \/ Connected /\ sentOn'[q] = sock /\ cEnd'[sock] = cEnd[sock]
    BY <1>1 DEF RequestOnSocket, Send, Settle
  <2> QED BY <1>1, <2>1, LostKept DEF RequestOnSocket
<1>2. ASSUME \E r \in Requests : RequestWaits(r) \/ Timeout(r) PROVE LostCallsFailAtOnce'
  BY <1>2, NoneBecomesPending, LostKept DEF RequestWaits, Timeout
<1>3. CASE DialFails
  BY <1>3, NoneBecomesPending, LostKept DEF DialFails
<1>4. CASE Dial
  <2>1. \A c \in Conns : cEnd'[c] = "closed" => cEnd[c] = "closed"
    BY <1>0, <1>4 DEF Dial, TypeOK
  <2> QED BY <1>4, <2>1, LostKept DEF Dial
<1>5. CASE HandshakeFails \/ \E c \in Conns : OnError(c)
  <2>1. Abandon /\ Settle(Waiting, "failed") /\ sentOn' = sentOn
    BY <1>5 DEF HandshakeFails, OnError
  <2>2. \A c \in Conns : cEnd'[c] = "closed" => cEnd[c] = "closed"
    BY <1>0, <2>1 DEF Abandon, TypeOK
  <2> QED BY <2>1, <2>2, NoneBecomesPending, LostKept
<1>6. ASSUME NEW c \in Conns, OnHelloAck(c) PROVE LostCallsFailAtOnce'
  <2>1. cEnd' = cEnd
    BY <1>6 DEF OnHelloAck
  <2>2. CASE Connected
    <3>1. Send(Waiting, sock)
      BY <1>6, <2>2 DEF OnHelloAck
    <3>2. \A q \in Requests : call'[q] = "pending" =>
            \/ call[q] = "pending" /\ sentOn'[q] = sentOn[q]
            \/ Connected /\ sentOn'[q] = sock /\ cEnd'[sock] = cEnd[sock]
      BY <2>1, <2>2, <3>1 DEF Send, Settle
    <3> QED BY <2>1, <3>2, LostKept
  <2>3. CASE ~Connected
    <3>1. Settle(Waiting, "failed") /\ sentOn' = sentOn
      BY <1>6, <2>3 DEF OnHelloAck
    <3> QED BY <2>1, <3>1, NoneBecomesPending, LostKept
  <2> QED BY <2>2, <2>3
<1>7. ASSUME NEW c \in Conns, NEW r \in Requests, OnResp(c, r) PROVE LostCallsFailAtOnce'
  BY <1>7, NoneBecomesPending, LostKept DEF OnResp
<1>8. ASSUME NEW c \in Conns, OnEnd(c) PROVE LostCallsFailAtOnce'
  <2>1. \A d \in Conns : cEnd'[d] = "closed" => cEnd[d] = "closed"
    BY <1>0, <1>8 DEF OnEnd, TypeOK
  <2> QED BY <1>8, <2>1, LostKept DEF OnEnd
<1>9. ASSUME NEW c \in Conns, OnClose(c) PROVE LostCallsFailAtOnce'
  <2>1. \A r \in Requests : call'[r] # "pending"
    BY <1>9 DEF OnClose, Lost, Settle, Pending
  <2> QED BY <2>1 DEF LostCallsFailAtOnce, Pending
<1>10. ASSUME UNCHANGED <<cEnd, call, sentOn>> PROVE LostCallsFailAtOnce'
  BY <1>10, LostKept
<1>11. ASSUME NEW c \in Conns,
              \/ OnStray(c) \/ AcceptMcp(c) \/ Refuses(c) \/ Break(c)
              \/ \E r \in Requests : Receive(c, r) \/ Respond(c, r)
       PROVE  LostCallsFailAtOnce'
  <2>1. UNCHANGED <<cEnd, call, sentOn>>
    BY <1>11 DEF OnStray, AcceptMcp, Refuses, Break, Receive, Respond
  <2> QED BY <1>10, <2>1
<1>12. CASE Reconnect \/ SecretRead \/ DaemonDies \/ UNCHANGED vars
  <2>1. UNCHANGED <<cEnd, call, sentOn>>
    BY <1>12 DEF Reconnect, SecretRead, DaemonDies, vars
  <2> QED BY <1>10, <2>1
<1> QED BY <1>1, <1>2, <1>3, <1>4, <1>5, <1>6, <1>7, <1>8, <1>9, <1>11, <1>12
        DEF Next, ClientReads, AuthFailed, RefuseRole

\* No request stays pending when the connection it was written to has closed.
THEOREM LostFailAtOnce == Spec => []LostCallsFailAtOnce
<1>1. Init => LostCallsFailAtOnce
  BY DEF Init, LostCallsFailAtOnce, Pending
<1>2. Types /\ [Next]_vars => Types'
  BY TypeStep
<1>3. Types /\ LostCallsFailAtOnce /\ [Next]_vars => LostCallsFailAtOnce'
  BY LostStep
<1> QED BY <1>1, <1>2, <1>3, TypeInit, PTL DEF Spec

\* No request waits for a connection that nobody is trying to make.
THEOREM WaitersServed == Spec => []WaitersHaveAttempt
<1> USE DEF clientVars, pipeVars, serverVars, callVars
<1>1. Init => WaitersHaveAttempt
  BY DEF Init, WaitersHaveAttempt
<1>2. ASSUME WaitersHaveAttempt, [Next]_vars PROVE WaitersHaveAttempt'
  <2>1. ASSUME Settle(Waiting, "failed") \/ Settle(Waiting, "pending") PROVE Waiting' = {}
    BY <2>1 DEF Settle, Waiting
  <2>2. ASSUME NEW rs, NEW o \in {"pending", "ok", "failed"}, Settle(rs, o)
        PROVE  Waiting' \subseteq Waiting
    BY <2>2 DEF Settle, Waiting
  <2>3. CASE DialFails \/ HandshakeFails \/ \E c \in Conns : OnError(c) \/ OnHelloAck(c)
    BY <2>1, <2>3 DEF DialFails, HandshakeFails, OnError, OnHelloAck, Send, WaitersHaveAttempt
  <2>4. ASSUME NEW r \in Requests, RequestOnSocket(r) \/ Timeout(r) \/ \E c \in Conns : OnResp(c, r)
        PROVE  WaitersHaveAttempt'
    <3>1. Waiting' \subseteq Waiting /\ phase' = phase
      BY <2>2, <2>4 DEF RequestOnSocket, Timeout, OnResp, Send
    <3> QED BY <1>2, <3>1 DEF WaitersHaveAttempt
  <2>5. ASSUME NEW r \in Requests, RequestWaits(r) PROVE WaitersHaveAttempt'
    BY <2>5 DEF RequestWaits, WaitersHaveAttempt
  <2>6. ASSUME NEW c \in Conns, OnClose(c) PROVE WaitersHaveAttempt'
    <3>1. CASE phase = "ack"
      <4>1. PICK rs : Waiting \subseteq rs /\ Settle(rs, "failed")
        BY <2>6, <3>1 DEF OnClose
      <4>2. Waiting' = {}
        BY <4>1 DEF Settle, Waiting
      <4> QED BY <4>2 DEF WaitersHaveAttempt
    <3>2. CASE phase # "ack"
      <4>1. Waiting' \subseteq Waiting /\ phase' = phase
        BY <2>2, <2>6, <3>2 DEF OnClose
      <4> QED BY <1>2, <4>1 DEF WaitersHaveAttempt
    <3> QED BY <3>1, <3>2
  <2>7. ASSUME call' = call, phase = "none" \/ phase' # "none" PROVE WaitersHaveAttempt'
    BY <1>2, <2>7 DEF WaitersHaveAttempt, Waiting
  <2>8. CASE Reconnect \/ Dial \/ SecretRead \/ DaemonDies \/ UNCHANGED vars
    <3>1. call' = call /\ (phase = "none" \/ phase' # "none")
      BY <2>8 DEF Reconnect, Dial, SecretRead, DaemonDies, vars
    <3> QED BY <2>7, <3>1
  <2>9. ASSUME NEW c \in Conns,
               \/ OnStray(c) \/ OnEnd(c) \/ AcceptMcp(c) \/ Refuses(c) \/ Break(c)
               \/ \E r \in Requests : Receive(c, r) \/ Respond(c, r)
        PROVE  WaitersHaveAttempt'
    <3>1. call' = call /\ phase' = phase
      BY <2>9 DEF OnStray, OnEnd, AcceptMcp, Refuses, Break, Receive, Respond
    <3> QED BY <2>7, <3>1
  <2> QED BY <1>2, <2>3, <2>4, <2>5, <2>6, <2>8, <2>9 DEF Next, ClientReads, AuthFailed, RefuseRole
<1> QED BY <1>1, <1>2, PTL DEF Spec
=============================================================================
