----------------------------- MODULE OutputProof -----------------------------
(***************************************************************************)
(* The safety properties of Output, for every number of chunks and         *)
(* connections and all sizes of the queue, the ring and the reads.         *)
(***************************************************************************)
EXTENDS Output, WellFoundedInduction, TLAPS

-----------------------------------------------------------------------------
(* Sequences *)

\* s is what t has after its first k elements, or a beginning of that.
Window(s, t, k) == Len(s) + k <= Len(t) /\ \A i \in 1..Len(s) : s[i] = t[i + k]

LEMMA NewestIsEnd ==
  ASSUME NEW S, NEW s \in Seq(S), NEW max \in Nat \ {0}
  PROVE  /\ Newest(s, max) \in Seq(S)
         /\ Len(Newest(s, max)) <= max
         /\ Len(Newest(s, max)) <= Len(s)
         /\ Window(Newest(s, max), s, Len(s) - Len(Newest(s, max)))
         /\ Len(s) <= max => Newest(s, max) = s
         /\ s # <<>> => Newest(s, max) # <<>>
<1>1. CASE Len(s) <= max
  BY <1>1 DEF Newest, Window
<1>2. CASE Len(s) > max
  <2>1. Newest(s, max) = SubSeq(s, Len(s) - max + 1, Len(s))
    BY <1>2 DEF Newest
  <2>2. Len(s) - max + 1 \in 1..Len(s)
    BY <1>2
  <2>3. Newest(s, max) \in Seq(S)
    BY <2>1, <2>2
  <2>4. Len(Newest(s, max)) = max
    BY <2>1, <2>2
  <2>5. \A i \in 1..max : Newest(s, max)[i] = s[i + (Len(s) - max)]
    BY <2>1, <2>2
  <2> QED BY <1>2, <2>3, <2>4, <2>5 DEF Window
<1> QED BY <1>1, <1>2

LEMMA PrefixIsWindow ==
  ASSUME NEW S, NEW fs \in Seq(S), NEW left \in Prefixes(fs)
  PROVE  left \in Seq(S) /\ Window(left, fs, 0)
<1>1. PICK k \in 0..Len(fs) : left = SubSeq(fs, 1, k)
  BY DEF Prefixes
<1> QED BY <1>1 DEF Window

\* A nonempty set of naturals has a least element.
LEMMA LeastNatural ==
  ASSUME NEW S \in SUBSET Nat, S # {}
  PROVE  \E m \in S : \A k \in S : m <= k
<1>1. PICK m \in S : \A k \in S : ~(<<k, m>> \in OpToRel(<, Nat))
  BY NatLessThanWellFounded, WFMin
<1>2. ASSUME NEW k \in S PROVE m <= k
  <2>1. ~(k < m)
    BY <1>1 DEF OpToRel
  <2> QED BY <2>1
<1> QED BY <1>2

\* What is fresh is the end of a ring, and begins with a chunk beyond the cursor.
LEMMA FreshIsEnd ==
  ASSUME NEW r \in Seq(Kept)
  PROVE  /\ Fresh(r) \in Seq(Kept)
         /\ Len(Fresh(r)) <= Len(r)
         /\ Window(Fresh(r), r, Len(r) - Len(Fresh(r)))
         /\ \A i \in 1..Len(r) : r[i].at > cursor => i > Len(r) - Len(Fresh(r))
         /\ Fresh(r) # <<>> => Fresh(r)[1].at > cursor
<1>1. CASE FreshAt(r) = {}
  <2>1. Fresh(r) = <<>>
    BY <1>1 DEF Fresh
  <2> QED BY <1>1, <2>1 DEF FreshAt, Window
<1>2. CASE FreshAt(r) # {}
  <2> DEFINE first == CHOOSE i \in FreshAt(r) : \A j \in FreshAt(r) : i <= j
  <2>1. FreshAt(r) \in SUBSET Nat
    BY DEF FreshAt
  <2>2. \E i \in FreshAt(r) : \A j \in FreshAt(r) : i <= j
    BY <1>2, <2>1, LeastNatural
  <2>3. first \in FreshAt(r) /\ \A j \in FreshAt(r) : first <= j
    BY <2>2
  <2>4. Fresh(r) = SubSeq(r, first, Len(r))
    BY <1>2 DEF Fresh
  <2> HIDE DEF first
  <2>5. first \in 1..Len(r) /\ r[first].at > cursor
    BY <2>3 DEF FreshAt
  <2>6. Fresh(r) \in Seq(Kept) /\ Len(Fresh(r)) = Len(r) - first + 1
    BY <2>4, <2>5
  <2>7. \A i \in 1..Len(Fresh(r)) : Fresh(r)[i] = r[i + (first - 1)]
    BY <2>4, <2>5, <2>6
  <2>8. \A i \in 1..Len(r) : r[i].at > cursor => first <= i
    BY <2>3 DEF FreshAt
  <2>9. Fresh(r)[1] = r[first]
    BY <2>5, <2>6, <2>7
  <2> QED BY <2>5, <2>6, <2>7, <2>8, <2>9 DEF Window
<1> QED BY <1>1, <1>2

LEMMA FramesAreTyped ==
  /\ \A b \in BOOLEAN : Hello(b) \in Frames /\ Hello(b).t = "hello"
  /\ \A n \in Chunks : Stdout(n) \in Frames /\ Stdout(n).t = "stdout" /\ Stdout(n).n = n
  /\ \A f \in Frames : f.t \in {"hello", "stdout"}
  /\ \A f \in Frames : f.t = "stdout" => f.n \in Chunks
<1>1. \A b \in BOOLEAN : Hello(b) \in Frames
  BY DEF Frames
<1>2. \A b : Hello(b).t = "hello"
  BY DEF Hello
<1>3. \A n : Stdout(n).t = "stdout" /\ Stdout(n).n = n
  BY DEF Stdout
<1>4. \A n \in Chunks : Stdout(n) \in Frames
  BY DEF Frames
<1>5. ASSUME NEW f \in Frames
      PROVE  f.t = "hello" \/ \E n \in Chunks : f = Stdout(n)
  BY <1>2 DEF Frames
<1>6. ASSUME NEW f \in Frames PROVE f.t \in {"hello", "stdout"}
  BY <1>3, <1>5
<1>7. ASSUME NEW f \in Frames, f.t = "stdout" PROVE f.n \in Chunks
  BY <1>3, <1>5, <1>7
<1> QED BY <1>1, <1>2, <1>3, <1>4, <1>6, <1>7

LEMMA DrainedIs ==
  ASSUME NEW q \in Seq(Chunks)
  PROVE  /\ Drained(q) \in Seq(Frames)
         /\ Len(Drained(q)) = Len(q)
         /\ \A i \in 1..Len(q) : Drained(q)[i] = Stdout(q[i])
<1>1. \A i \in 1..Len(q) : Stdout(q[i]) \in Frames
  BY FramesAreTyped
<1>2. Drained(q) = [i \in 1..Len(q) |-> Stdout(q[i])]
  BY DEF Drained
<1>3. Drained(q) \in Seq(Frames)
  BY <1>1, <1>2
<1> QED BY <1>2, <1>3

LEMMA EnqueuedIs ==
  ASSUME NEW q \in Seq(Chunks), Len(q) <= QueueMax, NEW n \in Chunks
  PROVE  /\ Enqueued(q, n) \in Seq(Chunks)
         /\ Len(Enqueued(q, n)) <= QueueMax
         /\ Len(Enqueued(q, n)) <= Len(q) + 1
         /\ Enqueued(q, n) # <<>>
         /\ Window(Enqueued(q, n), Append(q, n), Len(q) + 1 - Len(Enqueued(q, n)))
<1> DEFINE s == Append(q, n)
<1>1. s \in Seq(Chunks) /\ Len(s) = Len(q) + 1 /\ s # <<>>
  OBVIOUS
<1>2. QueueMax \in Nat \ {0}
  BY BoundsAssumption
<1>3. Enqueued(q, n) = Newest(s, QueueMax)
  BY DEF Enqueued
<1> HIDE DEF s
<1>4. /\ Newest(s, QueueMax) \in Seq(Chunks)
      /\ Len(Newest(s, QueueMax)) <= QueueMax
      /\ Len(Newest(s, QueueMax)) <= Len(s)
      /\ Newest(s, QueueMax) # <<>>
      /\ Window(Newest(s, QueueMax), s, Len(s) - Len(Newest(s, QueueMax)))
  BY <1>1, <1>2, NewestIsEnd
<1>5. Window(Enqueued(q, n), s, Len(q) + 1 - Len(Enqueued(q, n)))
  BY <1>1, <1>3, <1>4
<1>6. Window(Enqueued(q, n), Append(q, n), Len(q) + 1 - Len(Enqueued(q, n)))
  BY <1>5 DEF s
<1> QED BY <1>1, <1>3, <1>4, <1>6

LEMMA PushedIs ==
  ASSUME NEW r \in Seq(Kept), Len(r) <= RingMax, NEW x \in Kept
  PROVE  /\ Pushed(r, x) \in Seq(Kept)
         /\ Len(Pushed(r, x)) <= RingMax
         /\ Len(Pushed(r, x)) <= Len(r) + 1
         /\ Pushed(r, x) # <<>>
         /\ Window(Pushed(r, x), Append(r, x), Len(r) + 1 - Len(Pushed(r, x)))
<1> DEFINE s == Append(r, x)
<1>1. s \in Seq(Kept) /\ Len(s) = Len(r) + 1 /\ s # <<>>
  OBVIOUS
<1>2. RingMax \in Nat \ {0}
  BY BoundsAssumption
<1>3. Pushed(r, x) = Newest(s, RingMax)
  BY DEF Pushed
<1> HIDE DEF s
<1>4. /\ Newest(s, RingMax) \in Seq(Kept)
      /\ Len(Newest(s, RingMax)) <= RingMax
      /\ Len(Newest(s, RingMax)) <= Len(s)
      /\ Newest(s, RingMax) # <<>>
      /\ Window(Newest(s, RingMax), s, Len(s) - Len(Newest(s, RingMax)))
  BY <1>1, <1>2, NewestIsEnd
<1>5. Window(Pushed(r, x), s, Len(r) + 1 - Len(Pushed(r, x)))
  BY <1>1, <1>3, <1>4
<1>6. Window(Pushed(r, x), Append(r, x), Len(r) + 1 - Len(Pushed(r, x)))
  BY <1>5 DEF s
<1> QED BY <1>1, <1>3, <1>4, <1>6

LEMMA WrittenIs ==
  ASSUME TypeOK, NEW c \in Conns, NEW fs \in Seq(Frames)
  PROVE  Written(c, fs) \in Seq(Frames)
BY DEF TypeOK, Written

-----------------------------------------------------------------------------
(* Types *)

LEMMA TypeInit == Init => TypeOK
<1> SUFFICES ASSUME Init PROVE TypeOK
  OBVIOUS
<1>1. 1 \in Times /\ MaxConns \in Nat /\ 0 \in 0..MaxOut /\ 0 \in 0..MaxTime
  BY BoundsAssumption DEF Times
<1>2. ring \in [Conns -> Seq(Kept)] /\ \A o \in Conns : Len(ring[o]) <= RingMax
  BY BoundsAssumption DEF Init
<1>3. queue \in Seq(Chunks) /\ Len(queue) <= QueueMax
  BY BoundsAssumption DEF Init
<1>4. /\ toServer \in [Conns -> Seq(Frames)]
      /\ greeting \in Seq(Conns)
      /\ got \in Seq(Kept)
  BY DEF Init
<1>5. /\ made \in 0..MaxOut /\ socket \in Conns \union {None} /\ entry \in Conns \union {None}
      /\ nextConn \in 1..(MaxConns + 1) /\ now \in Times /\ cursor \in 0..MaxTime
      /\ cut \subseteq Chunks
  BY <1>1, BoundsAssumption DEF Init
<1>6. /\ cEnd \in [Conns -> {"unused", "dialing", "open", "closed"}]
      /\ sEnd \in [Conns -> {"unused", "open", "destroyed", "closed"}]
      /\ bound \in [Conns -> Conns \union {None}] /\ pipe \in [Conns -> Conns \union {None}]
      /\ status \in [Conns -> {"none", "alive", "dead"}]
  BY DEF Init
<1>7. /\ connected \in BOOLEAN /\ isReconnect \in BOOLEAN /\ secret \in BOOLEAN
      /\ timer \in BOOLEAN /\ down \in BOOLEAN /\ astray \in BOOLEAN
  BY DEF Init
<1> QED BY <1>2, <1>3, <1>4, <1>5, <1>6, <1>7 DEF TypeOK

LEMMA BoundsAreConns ==
  /\ None \notin Conns
  /\ \A c \in Conns : c \in Nat /\ c >= 1 /\ c <= MaxConns
  /\ MaxConns \in Nat /\ MaxOut \in Nat /\ MaxTime \in Nat
  /\ QueueMax \in Nat \ {0} /\ RingMax \in Nat \ {0} /\ ReadMax \in Nat \ {0}
BY BoundsAssumption DEF Conns, None

LEMMA GreetTypes ==
  ASSUME TypeOK, NEW cs \in Seq(Conns), Greet(cs)
  PROVE  /\ secret' \in BOOLEAN /\ connected' \in BOOLEAN /\ astray' \in BOOLEAN
         /\ queue' = <<>>
         /\ toServer' \in [Conns -> Seq(Frames)]
<1>1. Drained(queue) \in Seq(Frames)
  BY DrainedIs DEF TypeOK
<1>2. <<Hello(isReconnect)>> \in Seq(Frames)
  BY FramesAreTyped DEF TypeOK
<1>3. ASSUME NEW c \in Conns
      PROVE  <<Hello(isReconnect)>> \o (IF c = cs[1] THEN Drained(queue) ELSE <<>>) \in Seq(Frames)
  BY <1>1, <1>2
<1>4. ASSUME NEW c \in Conns
      PROVE  Greeted(cs)[c] \in Seq(Frames)
  <2>1. toServer[c] \in Seq(Frames)
    BY DEF TypeOK
  <2>2. Written(c, <<Hello(isReconnect)>> \o (IF c = cs[1] THEN Drained(queue) ELSE <<>>))
          \in Seq(Frames)
    BY <1>3, WrittenIs
  <2> QED BY <2>1, <2>2 DEF Greeted
<1>5. Greeted(cs) \in [Conns -> Seq(Frames)]
  BY <1>4 DEF Greeted
<1> QED BY <1>5 DEF Greet, AfterDrain, TypeOK

LEMMA TypeStep == TypeOK /\ [Next]_vars => TypeOK'
<1> SUFFICES ASSUME TypeOK, [Next]_vars PROVE TypeOK'
  OBVIOUS
<1> USE BoundsAreConns
<1>1. CASE SendStdout
  <2>1. made' \in 0..MaxOut /\ made + 1 \in Chunks
    BY <1>1 DEF SendStdout, TypeOK, Chunks
  <2>2. CASE connected /\ socket # None
    <3>1. socket \in Conns
      BY <2>2 DEF TypeOK
    <3> DEFINE f == Stdout(made + 1)
    <3>5. <<f>> \in Seq(Frames)
      <4>1. f \in Frames
        BY <2>1, FramesAreTyped
      <4> HIDE DEF f
      <4> QED BY <4>1
    <3>2. Written(socket, <<Stdout(made + 1)>>) \in Seq(Frames)
      BY <3>1, <3>5, WrittenIs
    <3>3. toServer' \in [Conns -> Seq(Frames)]
      BY <1>1, <2>2, <3>2 DEF SendStdout, TypeOK
    <3>4. UNCHANGED <<queue, socket, connected, isReconnect, secret, greeting, timer, down,
                      astray, nextConn, cEnd, sEnd, srvVars, now, readerVars>>
      BY <1>1, <2>2 DEF SendStdout
    <3> QED BY <2>1, <3>3, <3>4 DEF TypeOK, srvVars, readerVars
  <2>3. CASE ~(connected /\ socket # None)
    <3>1. queue' \in Seq(Chunks) /\ Len(queue') <= QueueMax
      BY <1>1, <2>1, <2>3, EnqueuedIs DEF SendStdout, TypeOK
    <3>2. UNCHANGED <<toServer, socket, connected, isReconnect, secret, greeting, timer, down,
                      astray, nextConn, cEnd, sEnd, srvVars, now, readerVars>>
      BY <1>1, <2>3 DEF SendStdout
    <3> QED BY <2>1, <3>1, <3>2 DEF TypeOK, srvVars, readerVars
  <2> QED BY <2>2, <2>3
<1>2. CASE Connect
  <2>1. nextConn' \in 1..(MaxConns + 1) /\ socket' \in Conns
    BY <1>2 DEF Connect, Conns
  <2> QED BY <1>2, <2>1 DEF Connect, TypeOK, srvVars, readerVars
<1>3. CASE DialFails
  BY <1>3 DEF DialFails, TypeOK, cbVars, srvVars, readerVars
<1>4. CASE OnConnect
  <2>1. socket \in Conns
    BY <1>4 DEF OnConnect, TypeOK
  <2>2. UNCHANGED <<made, socket, isReconnect, timer, down, nextConn, srvVars, now, readerVars>>
        /\ cEnd' = [cEnd EXCEPT ![socket] = "open"] /\ sEnd' = [sEnd EXCEPT ![socket] = "open"]
    BY <1>4 DEF OnConnect
  <2>3. CASE Greet(<<socket>>) /\ greeting' = greeting
    <3>1. <<socket>> \in Seq(Conns)
      BY <2>1
    <3>2. /\ secret' \in BOOLEAN /\ connected' \in BOOLEAN /\ astray' \in BOOLEAN
          /\ queue' = <<>> /\ toServer' \in [Conns -> Seq(Frames)]
      BY <2>3, <3>1, GreetTypes
    <3>3. queue' \in Seq(Chunks) /\ Len(queue') <= QueueMax
      BY <3>2
    <3> QED BY <2>2, <2>3, <3>2, <3>3 DEF TypeOK, srvVars, readerVars
  <2>4. CASE /\ greeting' = Append(greeting, socket)
             /\ UNCHANGED <<secret, toServer, queue, connected, astray>>
    BY <2>1, <2>2, <2>4 DEF TypeOK, srvVars, readerVars
  <2> QED BY <1>4, <2>3, <2>4 DEF OnConnect
<1>5. CASE SecretRead
  <2>1. greeting \in Seq(Conns) /\ Greet(greeting) /\ greeting' = <<>>
    BY <1>5 DEF SecretRead, TypeOK
  <2>2. /\ secret' \in BOOLEAN /\ connected' \in BOOLEAN /\ astray' \in BOOLEAN
        /\ queue' = <<>> /\ toServer' \in [Conns -> Seq(Frames)]
    BY <2>1, GreetTypes
  <2>3. queue' \in Seq(Chunks) /\ Len(queue') <= QueueMax /\ greeting' \in Seq(Conns)
    BY <2>1, <2>2
  <2> QED BY <1>5, <2>2, <2>3 DEF SecretRead, TypeOK, srvVars, readerVars
<1>6. CASE SecretGivesUp
  <2>1. cEnd' \in [Conns -> {"unused", "dialing", "open", "closed"}]
    BY <1>6 DEF SecretGivesUp, TypeOK
  <2>2. greeting' \in Seq(Conns)
    BY <1>6 DEF SecretGivesUp
  <2> QED BY <1>6, <2>1, <2>2 DEF SecretGivesUp, TypeOK, srvVars, readerVars
<1>7. CASE Watchdog
  <2>1. socket \in Conns /\ toServer[socket] \in Seq(Frames)
    BY <1>7 DEF Watchdog, TypeOK
  <2>2. toServer' \in [Conns -> Seq(Frames)]
    BY <1>7, <2>1, PrefixIsWindow DEF Watchdog, TypeOK
  <2> QED BY <1>7, <2>2 DEF Watchdog, TypeOK, cbVars, srvVars, readerVars
<1>8. CASE OnClose
  BY <1>8 DEF OnClose, TimerSet, TypeOK, srvVars, readerVars
<1>9. ASSUME NEW c \in Conns, PipeBreak(c) PROVE TypeOK'
  BY <1>9 DEF PipeBreak, TypeOK, cbVars, srvVars, readerVars
<1>10. ASSUME NEW c \in Conns, RefuseRole(c) PROVE TypeOK'
  BY <1>10 DEF RefuseRole, Destroy, TypeOK, cbVars, srvVars, readerVars
<1>11. ASSUME NEW c \in Conns, Resume(c) PROVE TypeOK'
  <2>1. entry \in Conns /\ toServer[c] \in Seq(Frames) /\ toServer[c] # <<>>
    BY <1>11 DEF Resume, HelloFirst, Readable, CanResume, IsAlive, TypeOK
  <2>2. Tail(toServer[c]) \in Seq(Frames)
    BY <2>1
  <2>3. toServer' \in [Conns -> Seq(Frames)]
    BY <1>11, <2>2 DEF Resume, TypeOK
  <2>4. sEnd' \in [Conns -> {"unused", "open", "destroyed", "closed"}]
    BY <1>11 DEF Resume, TypeOK
  <2>5. bound' \in [Conns -> Conns \union {None}] /\ pipe' \in [Conns -> Conns \union {None}]
    BY <1>11, <2>1 DEF Resume, TypeOK
  <2>6. UNCHANGED <<cbVars, nextConn, cEnd, entry, status, ring, now, readerVars>>
    BY <1>11 DEF Resume
  <2> QED BY <2>3, <2>4, <2>5, <2>6 DEF TypeOK, cbVars, readerVars
<1>12. ASSUME NEW c \in Conns, Register(c) PROVE TypeOK'
  <2>1. toServer[c] \in Seq(Frames) /\ toServer[c] # <<>>
    BY <1>12 DEF Register, HelloFirst, Readable, TypeOK
  <2>2. Tail(toServer[c]) \in Seq(Frames)
    BY <2>1
  <2>3. toServer' \in [Conns -> Seq(Frames)]
    BY <1>12, <2>2 DEF Register, TypeOK
  <2> QED BY <1>12, <2>3 DEF Register, TypeOK, cbVars, readerVars
<1>13. ASSUME NEW c \in Conns, OnStdout(c) PROVE TypeOK'
  <2>1. toServer[c] \in Seq(Frames) /\ toServer[c] # <<>> /\ bound[c] \in Conns
    BY <1>13 DEF OnStdout, Readable, TypeOK
  <2>2. Tail(toServer[c]) \in Seq(Frames) /\ Frame(c) \in Frames
    BY <2>1 DEF Frame
  <2>3. Frame(c).n \in Chunks
    BY <1>13, <2>2, FramesAreTyped DEF OnStdout
  <2>4. [n |-> Frame(c).n, at |-> now, via |-> c] \in Kept
    BY <2>3 DEF TypeOK, Kept
  <2>5. /\ Pushed(ring[bound[c]], [n |-> Frame(c).n, at |-> now, via |-> c]) \in Seq(Kept)
        /\ Len(Pushed(ring[bound[c]], [n |-> Frame(c).n, at |-> now, via |-> c])) <= RingMax
    BY <2>1, <2>4, PushedIs DEF TypeOK
  <2>6. ring' \in [Conns -> Seq(Kept)] /\ \A o \in Conns : Len(ring'[o]) <= RingMax
    BY <1>13, <2>1, <2>5 DEF OnStdout, TypeOK
  <2>7. toServer' \in [Conns -> Seq(Frames)]
    BY <1>13, <2>2 DEF OnStdout, TypeOK
  <2> QED BY <1>13, <2>6, <2>7 DEF OnStdout, TypeOK, cbVars, readerVars
<1>14. ASSUME NEW c \in Conns, Expire(c) PROVE TypeOK'
  <2>1. PICK D : Destroy(D)
    BY <1>14 DEF Expire
  <2> DEFINE states == {"unused", "open", "destroyed", "closed"}
  <2>2. \A d \in Conns : sEnd[d] \in states /\ toServer[d] \in Seq(Frames)
    BY DEF TypeOK
  <2>3. <<>> \in Seq(Frames) /\ "destroyed" \in states
    OBVIOUS
  <2> HIDE DEF states
  <2>4. sEnd' \in [Conns -> states]
    BY <2>1, <2>2, <2>3 DEF Destroy
  <2>5. toServer' \in [Conns -> Seq(Frames)]
    BY <2>1, <2>2, <2>3 DEF Destroy
  <2>6. /\ sEnd' \in [Conns -> {"unused", "open", "destroyed", "closed"}]
        /\ toServer' \in [Conns -> Seq(Frames)]
    BY <2>4, <2>5 DEF states
  <2>7. /\ status' \in [Conns -> {"none", "alive", "dead"}]
        /\ pipe' \in [Conns -> Conns \union {None}]
    BY <1>14 DEF Expire, MarkDead, TypeOK
  <2> QED BY <1>14, <2>6, <2>7 DEF Expire, TypeOK, cbVars, readerVars
<1>15. ASSUME NEW c \in Conns, HandleClose(c) PROVE TypeOK'
  <2>1. /\ status' \in [Conns -> {"none", "alive", "dead"}]
        /\ pipe' \in [Conns -> Conns \union {None}]
    BY <1>15 DEF HandleClose, MarkDead, TypeOK
  <2> QED BY <1>15, <2>1 DEF HandleClose, TypeOK, cbVars, readerVars
<1>16. CASE SweepDead
  BY <1>16 DEF SweepDead, TypeOK, cbVars, netVars, readerVars
<1>17. CASE DaemonDies
  <2>1. /\ status' \in [Conns -> {"none", "alive", "dead"}]
        /\ pipe' \in [Conns -> Conns \union {None}]
    BY <1>17 DEF DaemonDies, MarkDead, TypeOK
  <2>2. toServer' \in [Conns -> Seq(Frames)]
    <3>1. \A c \in Conns : toServer[c] \in Seq(Frames)
      BY DEF TypeOK
    <3>2. <<>> \in Seq(Frames)
      OBVIOUS
    <3>3. toServer' = [c \in Conns |-> IF sEnd[c] = "unused" THEN toServer[c] ELSE <<>>]
      BY <1>17 DEF DaemonDies
    <3> QED BY <3>1, <3>2, <3>3
  <2> QED BY <1>17, <2>1, <2>2 DEF DaemonDies, TypeOK, cbVars, readerVars
<1>18. CASE Tick
  <2>1. now' \in Times
    BY <1>18 DEF Tick, Times, TypeOK
  <2> QED BY <1>18, <2>1 DEF Tick, TypeOK, cbVars, netVars, srvVars, readerVars
<1>19. CASE Read
  <2> DEFINE fresh == Fresh(ring[entry])
             kept == Newest(fresh, ReadMax)
  <2>1. ring[entry] \in Seq(Kept)
    BY <1>19 DEF Read, TypeOK
  <2>2. fresh \in Seq(Kept)
    BY <2>1, FreshIsEnd
  <2>3. kept \in Seq(Kept)
    BY <2>2, NewestIsEnd
  <2>4. cursor' = Latest(fresh) /\ got' = got \o kept
        /\ cut' = cut \union {x.n : x \in Elements(fresh) \ Elements(kept)}
    BY <1>19 DEF Read
  <2> HIDE DEF fresh, kept
  <2>5. \A x \in Elements(fresh) : x \in Kept
    BY <2>2 DEF Elements
  <2>6. \A x \in Kept : x.n \in Chunks /\ x.at \in Times
    BY DEF Kept
  <2>7. cut' \subseteq Chunks
    BY <2>4, <2>5, <2>6 DEF TypeOK
  <2>8. cursor' \in 0..MaxTime
    <3>1. CASE fresh = <<>>
      BY <2>4, <3>1 DEF Latest, TypeOK
    <3>2. CASE fresh # <<>>
      <4>1. fresh[Len(fresh)] \in Kept
        BY <2>2, <3>2
      <4> QED BY <2>4, <2>6, <3>2, <4>1 DEF Latest, Times
    <3> QED BY <3>1, <3>2
  <2>9. got' \in Seq(Kept)
    BY <2>3, <2>4 DEF TypeOK
  <2> QED BY <1>19, <2>7, <2>8, <2>9 DEF Read, TypeOK, cbVars, netVars, srvVars
<1>20. CASE UNCHANGED vars
  BY <1>20 DEF TypeOK, vars, cbVars, netVars, srvVars, readerVars
<1> QED BY <1>1, <1>2, <1>3, <1>4, <1>5, <1>6, <1>7, <1>8, <1>9, <1>10, <1>11, <1>12, <1>13,
           <1>14, <1>15, <1>16, <1>17, <1>18, <1>19, <1>20
        DEF Next, CbStep, CbFault, DaemonStep, Accept

\* The model is well typed: queue and ring stay within their limits, and what is read
\* has been printed.
THEOREM TypeCorrect == Spec => []TypeOK
BY TypeInit, TypeStep, PTL DEF Spec

-----------------------------------------------------------------------------
(* Connections *)

\* Connections are opened in their order, and the newest one only is written to.
Opened ==
  /\ \A c \in Conns : c >= nextConn => cEnd[c] = "unused"
  /\ \A c \in Conns : cEnd[c] = "unused" => sEnd[c] = "unused" /\ toServer[c] = <<>>
  /\ \A c \in Conns : cEnd[c] \in {"dialing", "open"} => c = socket
  /\ \A c \in Conns : cEnd[c] = "dialing" => sEnd[c] = "unused"
  /\ socket # None => socket = nextConn - 1
  /\ timer => socket = None

\* Nothing is under way on a connection the daemon has lost, and nothing has been read
\* from one it has not accepted, on which there is no hello yet.
Wires ==
  /\ \A c \in Conns : sEnd[c] \in {"destroyed", "closed"} => toServer[c] = <<>>
  /\ \A c \in Conns : sEnd[c] = "unused" =>
       bound[c] = None /\ (toServer[c] # <<>> => toServer[c][1].t = "stdout")

\* The secret is cached before anything is connected; those that wait for it have been
\* accepted.
Secrets ==
  /\ connected => secret
  /\ greeting # <<>> => ~secret
  /\ \A i \in 1..Len(greeting) : sEnd[greeting[i]] # "unused"

\* The queue is filled beside a connection only while its hello is still to come, or
\* when it is lost.
QueueWaits == connected /\ socket # None /\ queue # <<>> => cEnd[socket] # "open"

Shape == Opened /\ Wires /\ Secrets /\ QueueWaits

\* The daemon can read output from c, now or when it has read the hello.
Feeding(c) ==
  sEnd[c] = "open" /\ toServer[c] # <<>> /\ (bound[c] # None \/ toServer[c][1].t = "hello")

\* The daemon and a lost pipe take frames away, from the front or all of them, and a
\* server end goes from open to closed. A connection is bound by its hello.
Moves ==
  /\ \A c \in Conns : \/ sEnd'[c] = sEnd[c]
                      \/ sEnd[c] \in {"open", "destroyed"} /\ sEnd'[c] \in {"destroyed", "closed"}
  /\ \A c \in Conns : sEnd'[c] \in {"destroyed", "closed"} => toServer'[c] = <<>>
  /\ \A c \in Conns : \/ toServer'[c] = toServer[c] \/ toServer'[c] = <<>>
                      \/ Feeding(c) /\ toServer'[c] = Tail(toServer[c])
  /\ \A c \in Conns : bound'[c] = bound[c] \/ (Feeding(c) /\ bound[c] = None)

LEMMA FeedingIsRead ==
  ASSUME TypeOK, NEW c \in Conns, Readable(c), bound[c] # None \/ Frame(c).t = "hello"
  PROVE  Feeding(c)
<1>1. toServer[c] \in Seq(Frames) /\ toServer[c] # <<>> /\ sEnd[c] = "open"
  BY DEF TypeOK, Readable
<1>2. Head(toServer[c]) = toServer[c][1]
  BY <1>1
<1> QED BY <1>1, <1>2 DEF Feeding, Frame

LEMMA ResumeMoves ==
  ASSUME TypeOK, Shape, NEW c \in Conns, Resume(c)
  PROVE  Moves
<1> DEFINE old == {pipe[entry]} \ {None, c}
<1>1. Feeding(c) /\ bound[c] = None
  BY FeedingIsRead DEF Resume, HelloFirst
<1>2. /\ sEnd' = [d \in Conns |-> IF d \in old /\ sEnd[d] = "open" THEN "destroyed" ELSE sEnd[d]]
      /\ toServer' = [d \in Conns |-> IF d = c THEN Tail(toServer[c])
                                      ELSE IF d \in old THEN <<>> ELSE toServer[d]]
      /\ bound' = [bound EXCEPT ![c] = entry]
      /\ c \notin old
  BY DEF Resume
<1> HIDE DEF old
<1>3. \A d \in Conns : bound'[d] = bound[d] \/ (Feeding(d) /\ bound[d] = None)
  BY <1>1, <1>2 DEF TypeOK
<1>4. \A d \in Conns : \/ toServer'[d] = toServer[d] \/ toServer'[d] = <<>>
                       \/ Feeding(d) /\ toServer'[d] = Tail(toServer[d])
  BY <1>1, <1>2
<1>5. \A d \in Conns : \/ sEnd'[d] = sEnd[d]
                       \/ sEnd[d] = "open" /\ sEnd'[d] = "destroyed"
  BY <1>2
<1>6. \A d \in Conns : sEnd'[d] \in {"destroyed", "closed"} => toServer'[d] = <<>>
  BY <1>1, <1>2 DEF Shape, Wires, Feeding
<1> QED BY <1>3, <1>4, <1>5, <1>6 DEF Moves

LEMMA DestroyMoves ==
  ASSUME TypeOK, Shape, NEW D, Destroy(D), UNCHANGED bound
  PROVE  Moves
<1>1. \A c \in Conns :
        /\ sEnd'[c] = IF c \in D /\ sEnd[c] = "open" THEN "destroyed" ELSE sEnd[c]
        /\ toServer'[c] = IF c \in D THEN <<>> ELSE toServer[c]
  BY DEF Destroy
<1>2. \A c \in Conns : sEnd[c] \in {"destroyed", "closed"} => toServer[c] = <<>>
  BY DEF Shape, Wires
<1>3. \A c \in Conns : sEnd'[c] \in {"destroyed", "closed"} => toServer'[c] = <<>>
  BY <1>1, <1>2
<1>4. \A c \in Conns : \/ sEnd'[c] = sEnd[c]
                       \/ sEnd[c] \in {"open", "destroyed"} /\ sEnd'[c] \in {"destroyed", "closed"}
  BY <1>1
<1>5. \A c \in Conns : toServer'[c] = toServer[c] \/ toServer'[c] = <<>>
  BY <1>1
<1> QED BY <1>3, <1>4, <1>5 DEF Moves

\* What the daemon does, and the breaking of a pipe.
DaemonActs(c) == RefuseRole(c) \/ Resume(c) \/ Register(c) \/ OnStdout(c) \/ Expire(c)
                 \/ HandleClose(c)

LEMMA DaemonActsMove ==
  ASSUME TypeOK, Shape, NEW c \in Conns, DaemonActs(c)
  PROVE  Moves /\ UNCHANGED <<cbVars, nextConn, cEnd>>
<1>1. CASE RefuseRole(c)
  BY <1>1, DestroyMoves DEF RefuseRole, srvVars
<1>2. CASE Resume(c)
  BY <1>2, ResumeMoves DEF Resume
<1>3. CASE Register(c)
  <2>1. Feeding(c) /\ bound[c] = None
    BY <1>3, FeedingIsRead DEF Register, HelloFirst
  <2>2. /\ toServer' = [toServer EXCEPT ![c] = Tail(@)]
        /\ bound' = [bound EXCEPT ![c] = c]
        /\ UNCHANGED <<cbVars, nextConn, cEnd, sEnd>>
    BY <1>3 DEF Register
  <2> QED BY <2>1, <2>2 DEF Moves, Shape, Wires, Feeding, TypeOK
<1>4. CASE OnStdout(c)
  <2>1. Feeding(c)
    BY <1>4, FeedingIsRead DEF OnStdout
  <2>2. /\ toServer' = [toServer EXCEPT ![c] = Tail(@)]
        /\ UNCHANGED <<cbVars, nextConn, cEnd, sEnd, bound>>
    BY <1>4 DEF OnStdout
  <2> QED BY <2>1, <2>2 DEF Moves, Shape, Wires, Feeding, TypeOK
<1>5. CASE Expire(c)
  <2>1. PICK D : Destroy(D)
    BY <1>5 DEF Expire
  <2> QED BY <1>5, <2>1, DestroyMoves DEF Expire
<1>6. CASE HandleClose(c)
  BY <1>6 DEF HandleClose, Moves, Shape, Wires, TypeOK
<1> QED BY <1>1, <1>2, <1>3, <1>4, <1>5, <1>6 DEF DaemonActs

LEMMA PipeBreakMoves ==
  ASSUME TypeOK, Shape, NEW c \in Conns, PipeBreak(c)
  PROVE  Moves
BY DEF PipeBreak, Moves, Shape, Wires, TypeOK, srvVars

LEMMA DaemonDiesMoves ==
  ASSUME TypeOK, Shape, DaemonDies
  PROVE  Moves
<1>1. \A c \in Conns :
        /\ sEnd'[c] = IF sEnd[c] = "unused" THEN "unused" ELSE "closed"
        /\ toServer'[c] = IF sEnd[c] = "unused" THEN toServer[c] ELSE <<>>
        /\ bound' = bound
        /\ sEnd[c] \in {"unused", "open", "destroyed", "closed"}
  BY DEF DaemonDies, TypeOK
<1> QED BY <1>1 DEF Moves, Shape, Wires

\* Moves keep all that is said of connections, unless the client end changes.
LEMMA MovesKeepShape ==
  ASSUME TypeOK, Shape, Moves, UNCHANGED <<cbVars, nextConn>>,
         \A c \in Conns : cEnd'[c] = cEnd[c] \/ (cEnd[c] # "unused" /\ cEnd'[c] = "closed")
  PROVE  Shape'
<1>1. Opened'
  BY DEF Shape, Opened, Wires, Feeding, Moves, cbVars
<1>2. Wires'
  BY DEF Shape, Wires, Feeding, Moves
<1>3. Secrets'
  <2>1. greeting \in Seq(Conns) /\ UNCHANGED <<greeting, connected, secret>>
    BY DEF TypeOK, cbVars
  <2>2. \A i \in 1..Len(greeting) : sEnd'[greeting[i]] # "unused"
    BY <2>1 DEF Shape, Secrets, Moves
  <2> QED BY <2>1, <2>2 DEF Shape, Secrets
<1>4. QueueWaits'
  <2>1. UNCHANGED <<connected, socket, queue>> /\ socket \in Conns \union {None}
    BY DEF cbVars, TypeOK
  <2> QED BY <2>1 DEF Shape, QueueWaits
<1> QED BY <1>1, <1>2, <1>3, <1>4 DEF Shape

LEMMA ShapeInit == Init => Shape
BY DEF Init, Shape, Opened, Wires, Secrets, QueueWaits

\* What a socket is sent when it greets.
Greeting(drains) == <<Hello(isReconnect)>> \o IF drains THEN Drained(queue) ELSE <<>>

Writable(c) == cEnd[c] \in {"dialing", "open"} /\ sEnd[c] \in {"unused", "open"}

LEMMA GreetWrites ==
  ASSUME TypeOK, NEW cs \in Seq(Conns), Greet(cs), NEW c \in Conns
  PROVE  \/ toServer'[c] = toServer[c]
         \/ /\ Writable(c)
            /\ \E i \in 1..Len(cs) : cs[i] = c
            /\ toServer'[c] = toServer[c] \o Greeting(c = cs[1])
<1>1. toServer'[c] = IF \A i \in 1..Len(cs) : cs[i] # c THEN toServer[c]
                     ELSE Written(c, Greeting(c = cs[1]))
  BY DEF Greet, Greeted, Greeting
<1> QED BY <1>1 DEF Written, Writable

LEMMA GreetingIsTyped ==
  ASSUME TypeOK, NEW b \in BOOLEAN
  PROVE  Greeting(b) \in Seq(Frames) /\ Greeting(b) # <<>>
<1>1. Drained(queue) \in Seq(Frames)
  BY DrainedIs DEF TypeOK
<1>2. Hello(isReconnect) \in Frames
  BY FramesAreTyped DEF TypeOK
<1>3. CASE b
  BY <1>1, <1>2, <1>3 DEF Greeting
<1>4. CASE ~b
  BY <1>2, <1>4 DEF Greeting
<1> QED BY <1>3, <1>4

\* A stdout frame is written to the socket, at the end.
LEMMA StdoutWrites ==
  ASSUME TypeOK, SendStdout, connected, socket # None
  PROVE  /\ socket \in Conns
         /\ queue' = queue
         /\ \A c \in Conns : c # socket => toServer'[c] = toServer[c]
         /\ ~Writable(socket) => toServer'[socket] = toServer[socket]
         /\ Writable(socket) => toServer'[socket] = Append(toServer[socket], Stdout(made + 1))
<1>1. socket \in Conns /\ toServer[socket] \in Seq(Frames)
  BY DEF TypeOK
<1>2. toServer' = [toServer EXCEPT ![socket] = Written(socket, <<Stdout(made + 1)>>)] /\ queue' = queue
  BY DEF SendStdout
<1>3. toServer[socket] \o <<Stdout(made + 1)>> = Append(toServer[socket], Stdout(made + 1))
  BY <1>1
<1> QED BY <1>1, <1>2, <1>3 DEF TypeOK, Written, Writable

LEMMA SendStdoutKeepsShape ==
  ASSUME TypeOK, Shape, SendStdout
  PROVE  Shape'
<1>1. UNCHANGED <<socket, connected, secret, greeting, timer, nextConn, cEnd, sEnd, bound>>
  BY DEF SendStdout, srvVars
<1>2. \A c \in Conns : \/ toServer'[c] = toServer[c]
                       \/ Writable(c) /\ toServer'[c] = Append(toServer[c], Stdout(made + 1))
  <2>1. CASE connected /\ socket # None
    BY <2>1, StdoutWrites
  <2>2. CASE ~(connected /\ socket # None)
    BY <2>2 DEF SendStdout
  <2> QED BY <2>1, <2>2
<1>3. Opened'
  BY <1>1, <1>2 DEF Shape, Opened, Writable
<1>4. Wires'
  <2>1. \A c \in Conns : sEnd'[c] \in {"destroyed", "closed"} => toServer'[c] = <<>>
    BY <1>1, <1>2 DEF Shape, Wires, Writable
  <2>2. ASSUME NEW c \in Conns, sEnd'[c] = "unused"
        PROVE  bound'[c] = None /\ (toServer'[c] # <<>> => toServer'[c][1].t = "stdout")
    <3>1. bound[c] = None /\ (toServer[c] # <<>> => toServer[c][1].t = "stdout")
      BY <1>1, <2>2 DEF Shape, Wires
    <3>2. toServer[c] \in Seq(Frames)
      BY DEF TypeOK
    <3> DEFINE f == Stdout(made + 1)
    <3>3. f.t = "stdout"
      BY DEF Stdout
    <3> HIDE DEF f
    <3>4. /\ toServer[c] = <<>> => Append(toServer[c], f)[1] = f
          /\ toServer[c] # <<>> => Append(toServer[c], f)[1] = toServer[c][1]
      BY <3>2
    <3> QED BY <1>1, <1>2, <3>1, <3>3, <3>4 DEF f
  <2> QED BY <2>1, <2>2 DEF Wires
<1>5. Secrets'
  BY <1>1 DEF Shape, Secrets
<1>6. QueueWaits'
  <2>1. connected /\ socket # None => queue' = queue
    BY StdoutWrites
  <2> QED BY <1>1, <2>1 DEF Shape, QueueWaits
<1> QED BY <1>3, <1>4, <1>5, <1>6 DEF Shape

LEMMA GreetKeepsShape ==
  ASSUME TypeOK, Shape, NEW cs \in Seq(Conns), Greet(cs),
         UNCHANGED <<socket, nextConn, timer, bound>>,
         \/ OnConnect /\ cs = <<socket>> /\ greeting' = greeting /\ greeting = <<>>
         \/ UNCHANGED <<cEnd, sEnd>> /\ cs = greeting /\ greeting' = <<>>
  PROVE  Shape'
<1>1. \A c \in Conns : toServer'[c] = toServer[c] \/ (Writable(c) /\ sEnd'[c] # "unused")
  <2> SUFFICES ASSUME NEW c \in Conns, toServer'[c] # toServer[c]
               PROVE  Writable(c) /\ sEnd'[c] # "unused"
    OBVIOUS
  <2>1. Writable(c) /\ \E i \in 1..Len(cs) : cs[i] = c
    BY GreetWrites
  <2>2. CASE OnConnect /\ cs = <<socket>>
    <3>1. c = socket
      BY <2>1, <2>2
    <3> QED BY <2>1, <2>2, <3>1 DEF OnConnect, TypeOK
  <2>3. CASE UNCHANGED <<cEnd, sEnd>> /\ cs = greeting
    BY <2>1, <2>3 DEF Shape, Secrets
  <2> QED BY <2>2, <2>3
<1>2. secret' = TRUE /\ connected' = TRUE /\ queue' = <<>> /\ greeting' = <<>>
  BY DEF Greet, AfterDrain
<1>3. \A c \in Conns : \/ cEnd'[c] = cEnd[c] /\ sEnd'[c] = sEnd[c]
                       \/ cEnd[c] = "dialing" /\ cEnd'[c] = "open" /\ sEnd'[c] = "open"
  BY DEF OnConnect, TypeOK
<1>4. Opened'
  BY <1>1, <1>3 DEF Shape, Opened, Writable
<1>5. Wires'
  BY <1>1, <1>3 DEF Shape, Wires, Writable
<1>6. Secrets'
  BY <1>2 DEF Secrets
<1>7. QueueWaits'
  BY <1>2 DEF QueueWaits
<1> QED BY <1>4, <1>5, <1>6, <1>7 DEF Shape

LEMMA ShapeStep == TypeOK /\ Shape /\ [Next]_vars => Shape'
<1> SUFFICES ASSUME TypeOK, Shape, [Next]_vars PROVE Shape'
  OBVIOUS
<1> USE BoundsAreConns
<1>0. ASSUME UNCHANGED <<sEnd, toServer, bound>> PROVE Moves
  BY <1>0 DEF Moves, Shape, Wires
<1>1. CASE SendStdout
  BY <1>1, SendStdoutKeepsShape
<1>2. CASE Connect
  <2>1. /\ timer' = FALSE /\ socket' = nextConn /\ nextConn' = nextConn + 1
        /\ cEnd' = [cEnd EXCEPT ![nextConn] = "dialing"]
        /\ UNCHANGED <<queue, connected, secret, greeting, sEnd, toServer, bound>>
    BY <1>2 DEF Connect, srvVars
  <2>2. nextConn \in Conns /\ timer /\ socket = None
    BY <1>2 DEF Connect, Shape, Opened
  <2>3. /\ cEnd[nextConn] = "unused" /\ sEnd[nextConn] = "unused"
        /\ \A c \in Conns : cEnd[c] \notin {"dialing", "open"}
    BY <2>2 DEF Shape, Opened
  <2>4. Opened'
    <3>1. \A c \in Conns : c # nextConn => cEnd'[c] = cEnd[c]
      BY <2>1
    <3>2. cEnd'[nextConn] = "dialing"
      BY <2>1, <2>2 DEF TypeOK
    <3> QED BY <2>1, <2>2, <2>3, <3>1, <3>2 DEF Shape, Opened
  <2>5. Wires' /\ Secrets'
    BY <2>1 DEF Shape, Wires, Secrets
  <2>6. QueueWaits'
    BY <2>1, <2>2 DEF QueueWaits, TypeOK
  <2> QED BY <2>4, <2>5, <2>6 DEF Shape
<1>3. CASE DialFails
  BY <1>0, <1>3, MovesKeepShape DEF DialFails, srvVars, TypeOK
<1>4. CASE OnConnect
  <2>1. socket \in Conns /\ cEnd[socket] = "dialing"
    BY <1>4 DEF OnConnect, TypeOK
  <2>2. CASE Greet(<<socket>>) /\ greeting' = greeting
    <3>1. greeting = <<>>
      BY <1>4, <2>2 DEF OnConnect, Shape, Secrets
    <3>2. UNCHANGED <<socket, nextConn, timer, bound>> /\ <<socket>> \in Seq(Conns)
      BY <1>4, <2>1 DEF OnConnect, srvVars
    <3> QED BY <1>4, <2>2, <3>1, <3>2, GreetKeepsShape
  <2>3. CASE /\ ~secret /\ greeting' = Append(greeting, socket)
             /\ UNCHANGED <<secret, toServer, queue, connected, astray>>
    <3>1. /\ UNCHANGED <<socket, nextConn, timer, bound, secret, toServer, queue, connected>>
          /\ cEnd' = [cEnd EXCEPT ![socket] = "open"] /\ sEnd' = [sEnd EXCEPT ![socket] = "open"]
      BY <1>4, <2>3 DEF OnConnect, srvVars
    <3>2. Opened' /\ Wires'
      BY <2>1, <3>1 DEF Shape, Opened, Wires, TypeOK
    <3>3. Secrets'
      <4>1. greeting \in Seq(Conns)
        BY DEF TypeOK
      <4>2. \A i \in 1..Len(greeting') : greeting'[i] = socket \/
                                         (i \in 1..Len(greeting) /\ greeting'[i] = greeting[i])
        BY <2>3, <4>1
      <4>3. \A i \in 1..Len(greeting') : sEnd'[greeting'[i]] # "unused"
        <5>1. \A c \in Conns : sEnd'[c] = IF c = socket THEN "open" ELSE sEnd[c]
          BY <2>1, <3>1 DEF TypeOK
        <5>2. \A i \in 1..Len(greeting) : greeting[i] \in Conns /\ sEnd[greeting[i]] # "unused"
          BY <4>1 DEF Shape, Secrets
        <5> QED BY <2>1, <4>2, <5>1, <5>2
      <4> QED BY <2>3, <3>1, <4>3 DEF Shape, Secrets
    <3>4. ~connected'
      BY <2>3 DEF Shape, Secrets
    <3> QED BY <3>2, <3>3, <3>4 DEF Shape, QueueWaits
  <2> QED BY <1>4, <2>2, <2>3 DEF OnConnect
<1>5. CASE SecretRead
  <2>1. /\ greeting \in Seq(Conns) /\ Greet(greeting) /\ greeting' = <<>>
        /\ UNCHANGED <<socket, nextConn, timer, bound, cEnd, sEnd>>
    BY <1>5 DEF SecretRead, TypeOK, srvVars
  <2> QED BY <2>1, GreetKeepsShape
<1>6. CASE SecretGivesUp
  <2>1. /\ timer' = FALSE /\ socket' = None /\ connected' = FALSE /\ greeting' = <<>>
        /\ UNCHANGED <<queue, secret, nextConn, sEnd, toServer, bound>>
        /\ \A c \in Conns : cEnd'[c] = IF cEnd[c] = "unused" THEN "unused" ELSE "closed"
    BY <1>6 DEF SecretGivesUp, srvVars
  <2> QED BY <2>1 DEF Shape, Opened, Wires, Secrets, QueueWaits
<1>7. CASE Watchdog
  <2>1. socket \in Conns /\ toServer[socket] \in Seq(Frames)
    BY <1>7 DEF Watchdog, TypeOK
  <2>2. PICK left \in Prefixes(toServer[socket]) : toServer' = [toServer EXCEPT ![socket] = left]
    BY <1>7 DEF Watchdog
  <2>3. left \in Seq(Frames) /\ Window(left, toServer[socket], 0)
    BY <2>1, <2>2, PrefixIsWindow
  <2>4. left # <<>> => toServer[socket] # <<>> /\ left[1] = toServer[socket][1]
    BY <2>1, <2>3 DEF Window
  <2>5. /\ UNCHANGED <<socket, nextConn, timer, bound, secret, greeting, queue, connected, sEnd>>
        /\ cEnd' = [cEnd EXCEPT ![socket] = "closed"]
    BY <1>7 DEF Watchdog, cbVars, srvVars
  <2>6. /\ toServer'[socket] = left /\ cEnd'[socket] = "closed"
        /\ \A c \in Conns : c # socket => toServer'[c] = toServer[c] /\ cEnd'[c] = cEnd[c]
    BY <2>1, <2>2, <2>5 DEF TypeOK
  <2>7. cEnd[socket] # "unused" \/ toServer[socket] = <<>>
    BY <2>1 DEF Shape, Opened
  <2>11. nextConn \in Nat /\ socket \in Nat /\ socket < nextConn
    BY <2>1 DEF Shape, Opened, TypeOK
  <2>8. Opened'
    <3>1. \A c \in Conns : /\ c >= nextConn => cEnd'[c] = "unused"
                           /\ cEnd'[c] = "unused" => sEnd'[c] = "unused" /\ toServer'[c] = <<>>
      BY <2>1, <2>5, <2>6, <2>11 DEF Shape, Opened
    <3>2. \A c \in Conns : /\ cEnd'[c] \in {"dialing", "open"} => c = socket
                           /\ cEnd'[c] = "dialing" => sEnd'[c] = "unused"
      BY <2>5, <2>6 DEF Shape, Opened
    <3> QED BY <2>5, <3>1, <3>2 DEF Shape, Opened
  <2>9. Wires'
    BY <2>1, <2>4, <2>5, <2>6 DEF Shape, Wires
  <2>10. Secrets' /\ QueueWaits'
    BY <2>5, <2>6 DEF Shape, Secrets, QueueWaits
  <2> QED BY <2>8, <2>9, <2>10 DEF Shape
<1>8. CASE OnClose
  <2>1. /\ connected' = FALSE /\ socket' = None
        /\ UNCHANGED <<queue, secret, greeting, nextConn, sEnd, toServer, bound>>
        /\ cEnd' = [cEnd EXCEPT ![socket] = "closed"]
        /\ cEnd[socket] \in {"open", "closed"} /\ socket \in Conns
    BY <1>8 DEF OnClose, srvVars, TypeOK
  <2> QED BY <2>1 DEF Shape, Opened, Wires, Secrets, QueueWaits, TypeOK
<1>9. ASSUME NEW c \in Conns, PipeBreak(c) PROVE Shape'
  BY <1>9, PipeBreakMoves, MovesKeepShape DEF PipeBreak, TypeOK
<1>10. ASSUME NEW c \in Conns, DaemonActs(c) PROVE Shape'
  BY <1>10, DaemonActsMove, MovesKeepShape
<1>11. CASE DaemonDies
  BY <1>11, DaemonDiesMoves, MovesKeepShape DEF DaemonDies
<1>12. CASE SweepDead \/ Tick \/ Read \/ UNCHANGED vars
  <2>1. UNCHANGED <<cbVars, nextConn, cEnd, sEnd, toServer, bound>>
    BY <1>12 DEF SweepDead, Tick, Read, vars, netVars, srvVars
  <2> QED BY <2>1, <1>0, MovesKeepShape
<1> QED BY <1>1, <1>2, <1>3, <1>4, <1>5, <1>6, <1>7, <1>8, <1>9, <1>10, <1>11, <1>12
        DEF Next, CbStep, CbFault, DaemonStep, Accept, DaemonActs

-----------------------------------------------------------------------------
(* The order of the output *)

\* The chunks on a wire, and that they are in order.
NumbersIn(s) == {s[i].n : i \in {j \in 1..Len(s) : s[j].t = "stdout"}}

Rising(s) ==
  \A i, j \in 1..Len(s) : i < j /\ s[i].t = "stdout" /\ s[j].t = "stdout" => s[i].n < s[j].n

Increasing(q) == \A i, j \in 1..Len(q) : i < j => q[i] < q[j]

\* What the daemon has read and is still known of it.
Past ==
  {x \in Kept : x \in Elements(got) \/ \E o \in Conns : x \in Elements(ring[o])}

\* Past, wires in the order of their connections, queue: each is later than the one
\* before.
Growing ==
  /\ \A c \in Conns : Feeding(c) => Rising(toServer[c])
  /\ \A c, d \in Conns : Feeding(c) /\ Feeding(d) /\ c < d =>
       \A m \in NumbersIn(toServer[c]), n \in NumbersIn(toServer[d]) : m < n
  /\ Increasing(queue)
  /\ \A c \in Conns : Feeding(c) => \A m \in NumbersIn(toServer[c]) :
       /\ m <= made
       /\ \A q \in Elements(queue) : m < q
       /\ \A x \in Past : x.n < m
  /\ \A q \in Elements(queue) : q <= made /\ \A x \in Past : x.n < q
  /\ \A x \in Past : x.n <= made

\* A ring is in the order of its chunks and in the order of time.
InOrder(r) == \A i, j \in 1..Len(r) : i < j => r[i].n < r[j].n /\ r[i].at <= r[j].at

\* What came later was printed later, in whichever rings it is; and what was read is no
\* later than the cursor.
Sorted ==
  /\ \A x \in Past : x.at <= now
  /\ \A x, y \in Past : x.at < y.at => x.n < y.n
  /\ \A o \in Conns : InOrder(ring[o])
  /\ \A x \in Elements(got) : x.at <= cursor
  /\ ReadInOrder

LEMMA PastIsTyped ==
  ASSUME TypeOK
  PROVE  /\ \A o \in Conns : Elements(ring[o]) \subseteq Past
         /\ Elements(got) \subseteq Past
         /\ Past \subseteq Kept
         /\ \A x \in Kept : x.n \in Nat /\ x.n \in Chunks /\ x.at \in Nat /\ x.at \in Times
                            /\ x.via \in Conns
<1>1. \A o \in Conns : Elements(ring[o]) \subseteq Kept
  BY DEF TypeOK, Elements
<1>2. Elements(got) \subseteq Kept
  BY DEF TypeOK, Elements
<1>3. \A x \in Kept : x.n \in Chunks /\ x.at \in Times /\ x.via \in Conns
  BY DEF Kept
<1>4. Chunks \subseteq Nat /\ Times \subseteq Nat
  BY DEF Chunks, Times
<1> QED BY <1>1, <1>2, <1>3, <1>4 DEF Past

LEMMA NumbersAreTyped ==
  ASSUME NEW s \in Seq(Frames)
  PROVE  NumbersIn(s) \subseteq Chunks /\ NumbersIn(s) \subseteq Nat
<1>1. \A i \in 1..Len(s) : s[i] \in Frames
  OBVIOUS
<1>2. NumbersIn(s) \subseteq Chunks
  BY <1>1, FramesAreTyped DEF NumbersIn
<1> QED BY <1>2 DEF Chunks

LEMMA WindowKeepsRising ==
  ASSUME NEW s \in Seq(Frames), NEW t \in Seq(Frames), NEW k \in Nat, Window(s, t, k), Rising(t)
  PROVE  Rising(s) /\ NumbersIn(s) \subseteq NumbersIn(t)
<1>1. \A i \in 1..Len(s) : i + k \in 1..Len(t) /\ s[i] = t[i + k]
  BY DEF Window
<1>2. Rising(s)
  <2> SUFFICES ASSUME NEW i \in 1..Len(s), NEW j \in 1..Len(s), i < j,
                      s[i].t = "stdout", s[j].t = "stdout"
               PROVE  s[i].n < s[j].n
    BY DEF Rising
  <2>1. i + k < j + k
    OBVIOUS
  <2> QED BY <1>1, <2>1 DEF Rising
<1>3. NumbersIn(s) \subseteq NumbersIn(t)
  BY <1>1 DEF NumbersIn
<1> QED BY <1>2, <1>3

LEMMA AppendKeepsRising ==
  ASSUME NEW s \in Seq(Frames), NEW u \in Seq(Frames), Rising(s), Rising(u),
         \A m \in NumbersIn(s), n \in NumbersIn(u) : m < n
  PROVE  Rising(s \o u)
<1> SUFFICES ASSUME NEW i \in 1..Len(s \o u), NEW j \in 1..Len(s \o u), i < j,
                    (s \o u)[i].t = "stdout", (s \o u)[j].t = "stdout"
             PROVE  (s \o u)[i].n < (s \o u)[j].n
  BY DEF Rising
<1>1. \A k \in 1..Len(s \o u) :
        /\ k <= Len(s) => k \in 1..Len(s) /\ (s \o u)[k] = s[k]
        /\ k > Len(s) => k - Len(s) \in 1..Len(u) /\ (s \o u)[k] = u[k - Len(s)]
  OBVIOUS
<1>2. CASE j <= Len(s)
  BY <1>1, <1>2 DEF Rising
<1>3. CASE i > Len(s)
  <2>1. i - Len(s) < j - Len(s)
    OBVIOUS
  <2>2. j > Len(s)
    BY <1>3
  <2> QED BY <1>1, <1>3, <2>1, <2>2 DEF Rising
<1>4. CASE i <= Len(s) /\ j > Len(s)
  <2>1. (s \o u)[i].n \in NumbersIn(s)
    BY <1>1, <1>4 DEF NumbersIn
  <2>2. (s \o u)[j].n \in NumbersIn(u)
    BY <1>1, <1>4 DEF NumbersIn
  <2> QED BY <2>1, <2>2
<1> QED BY <1>2, <1>3, <1>4

LEMMA NumbersOfAppend ==
  ASSUME NEW s \in Seq(Frames), NEW u \in Seq(Frames)
  PROVE  NumbersIn(s \o u) = NumbersIn(s) \union NumbersIn(u)
<1>1. \A k \in 1..Len(s \o u) :
        \/ k \in 1..Len(s) /\ (s \o u)[k] = s[k]
        \/ k - Len(s) \in 1..Len(u) /\ (s \o u)[k] = u[k - Len(s)]
  OBVIOUS
<1>2. NumbersIn(s \o u) \subseteq NumbersIn(s) \union NumbersIn(u)
  BY <1>1 DEF NumbersIn
<1>3. NumbersIn(s) \subseteq NumbersIn(s \o u)
  <2>1. \A k \in 1..Len(s) : k \in 1..Len(s \o u) /\ (s \o u)[k] = s[k]
    OBVIOUS
  <2> QED BY <2>1 DEF NumbersIn
<1>4. NumbersIn(u) \subseteq NumbersIn(s \o u)
  <2>1. \A k \in 1..Len(u) : k + Len(s) \in 1..Len(s \o u) /\ (s \o u)[k + Len(s)] = u[k]
    OBVIOUS
  <2> QED BY <2>1 DEF NumbersIn
<1> QED BY <1>2, <1>3, <1>4

\* What a greeting brings: the queue, if it drains it.
LEMMA NumbersOfGreeting ==
  ASSUME TypeOK, Increasing(queue), NEW b \in BOOLEAN
  PROVE  /\ Rising(Greeting(b))
         /\ NumbersIn(Greeting(b)) \subseteq Elements(queue)
         /\ ~b => NumbersIn(Greeting(b)) = {}
         /\ Greeting(b)[1].t = "hello"
<1> DEFINE h == Hello(isReconnect)
           d == Drained(queue)
<1>1. h \in Frames /\ h.t = "hello"
  BY FramesAreTyped DEF TypeOK
<1>2. /\ d \in Seq(Frames) /\ Len(d) = Len(queue) /\ queue \in Seq(Chunks)
      /\ \A i \in 1..Len(queue) : d[i].t = "stdout" /\ d[i].n = queue[i]
  <2>1. queue \in Seq(Chunks)
    BY DEF TypeOK
  <2>2. \A i \in 1..Len(queue) : queue[i] \in Chunks
    BY <2>1
  <2> QED BY <2>1, <2>2, DrainedIs, FramesAreTyped
<1>3. Rising(d)
  BY <1>2 DEF Rising, Increasing
<1>4. NumbersIn(d) \subseteq Elements(queue)
  BY <1>2 DEF NumbersIn, Elements
<1> HIDE DEF h, d
<1>5. <<h>> \in Seq(Frames) /\ NumbersIn(<<h>>) = {} /\ Rising(<<h>>)
  BY <1>1 DEF NumbersIn, Rising
<1>6. CASE b
  <2>1. Greeting(b) = <<h>> \o d
    BY <1>6 DEF Greeting, h, d
  <2>2. Rising(<<h>> \o d)
    BY <1>2, <1>3, <1>5, AppendKeepsRising
  <2>3. NumbersIn(<<h>> \o d) = NumbersIn(d)
    <3>1. NumbersIn(<<h>> \o d) = NumbersIn(<<h>>) \union NumbersIn(d)
      BY <1>2, <1>5, NumbersOfAppend
    <3> QED BY <1>5, <3>1
  <2>4. (<<h>> \o d)[1] = h
    <3>1. <<h>> \in Seq(Frames) /\ Len(<<h>>) = 1 /\ <<h>>[1] = h /\ d \in Seq(Frames)
      BY <1>2, <1>5
    <3> QED BY <3>1
  <2> QED BY <1>1, <1>4, <1>6, <2>1, <2>2, <2>3, <2>4
<1>7. CASE ~b
  <2>1. Greeting(b) = <<h>> \o <<>>
    BY <1>7 DEF Greeting, h
  <2>2. <<h>> \o <<>> = <<h>>
    BY <1>1
  <2> QED BY <1>1, <1>5, <2>1, <2>2
<1> QED BY <1>6, <1>7

\* What a step must keep for Growing: the wires have what they had, and what is
\* written to the socket is later than all the daemon reads or has read.
LEMMA WritesKeepGrowing ==
  ASSUME TypeOK, TypeOK', Shape, Growing, NEW late \in SUBSET Nat,
         made <= made',
         \A c \in Conns : Feeding(c)' =>
           /\ Rising(toServer'[c])
           /\ \A m \in NumbersIn(toServer'[c]) :
                \/ Feeding(c) /\ m \in NumbersIn(toServer[c])
                \/ c = socket /\ m \in late,
         \A m \in late :
           /\ m <= made'
           /\ \A x \in Past : x.n < m
           /\ \A c \in Conns : Feeding(c) => \A n \in NumbersIn(toServer[c]) : n < m,
         late # {} => queue' = <<>>,
         Increasing(queue'),
         \A q \in Elements(queue') :
           /\ q <= made'
           /\ \A x \in Past : x.n < q
           /\ \A c \in Conns : Feeding(c) => \A n \in NumbersIn(toServer[c]) : n < q,
         \A x \in Past' :
           \/ x \in Past
           \/ /\ x.n <= made'
              /\ \A q \in Elements(queue') : x.n < q
              /\ \A c \in Conns : Feeding(c)' => \A m \in NumbersIn(toServer'[c]) : x.n < m
  PROVE  Growing'
<1>1. \A q \in Elements(queue') : late = {}
  BY DEF Elements
<1>2. ASSUME NEW c \in Conns, NEW d \in Conns, Feeding(c)', Feeding(d)', c < d,
             NEW m \in NumbersIn(toServer'[c]), NEW n \in NumbersIn(toServer'[d])
      PROVE  m < n
  <2>1. CASE Feeding(c) /\ m \in NumbersIn(toServer[c]) /\ Feeding(d) /\ n \in NumbersIn(toServer[d])
    BY <1>2, <2>1 DEF Growing
  <2>2. CASE Feeding(c) /\ m \in NumbersIn(toServer[c]) /\ n \in late
    BY <2>2
  <2>3. CASE c = socket /\ Feeding(d)
    <3>0. c = nextConn - 1 /\ c \in Nat /\ d \in Nat /\ nextConn \in Nat
      BY <2>3, BoundsAreConns DEF Shape, Opened, TypeOK
    <3>1. d >= nextConn
      BY <1>2, <3>0
    <3>2. sEnd[d] = "unused"
      BY <3>1 DEF Shape, Opened
    <3> QED BY <2>3, <3>2 DEF Feeding
  <2>4. c # d
    BY <1>2, BoundsAreConns
  <2> QED BY <1>2, <2>1, <2>2, <2>3, <2>4
<1>3. ASSUME NEW c \in Conns, Feeding(c)', NEW m \in NumbersIn(toServer'[c])
      PROVE  /\ m <= made'
             /\ \A q \in Elements(queue') : m < q
             /\ \A x \in Past' : x.n < m
  <2>1. CASE Feeding(c) /\ m \in NumbersIn(toServer[c])
    <3>1. m <= made /\ \A x \in Past : x.n < m
      BY <2>1 DEF Growing
    <3>2. m \in Nat /\ made \in Nat /\ made' \in Nat
      BY <2>1, NumbersAreTyped, BoundsAreConns DEF TypeOK, Chunks
    <3>3. m <= made'
      BY <3>1, <3>2
    <3> QED BY <1>3, <2>1, <3>1, <3>3
  <2>2. CASE m \in late
    BY <1>1, <1>3, <2>2
  <2> QED BY <1>3, <2>1, <2>2
<1>4. \A q \in Elements(queue') : q <= made' /\ \A x \in Past' : x.n < q
  OBVIOUS
<1>5. ASSUME NEW x \in Past' PROVE x.n <= made'
  <2>1. CASE x \in Past
    <3>1. x.n <= made /\ x.n \in Nat
      BY <2>1, PastIsTyped DEF Growing
    <3> QED BY <3>1, BoundsAreConns DEF TypeOK
  <2> QED BY <2>1
<1> QED BY <1>2, <1>3, <1>4, <1>5 DEF Growing

\* The wires the daemon can read from have an end of what they had.
Drains ==
  \A c \in Conns : Feeding(c)' =>
    Feeding(c) /\ \E k \in Nat : Window(toServer'[c], toServer[c], k)

LEMMA MovesDrain ==
  ASSUME TypeOK, TypeOK', Moves
  PROVE  Drains
<1> SUFFICES ASSUME NEW c \in Conns, Feeding(c)'
             PROVE  Feeding(c) /\ \E k \in Nat : Window(toServer'[c], toServer[c], k)
  BY DEF Drains
<1>1. sEnd'[c] = "open" /\ toServer'[c] # <<>> /\ sEnd[c] = "open"
  BY DEF Feeding, Moves
<1>2. toServer[c] \in Seq(Frames)
  BY DEF TypeOK
<1>3. CASE toServer'[c] = toServer[c]
  <2>1. Feeding(c)
    BY <1>1, <1>3 DEF Moves, Feeding
  <2>2. Window(toServer'[c], toServer[c], 0)
    BY <1>2, <1>3 DEF Window
  <2> QED BY <2>1, <2>2
<1>4. CASE Feeding(c) /\ toServer'[c] = Tail(toServer[c])
  <2>1. toServer[c] # <<>>
    BY <1>4 DEF Feeding
  <2>2. Window(toServer'[c], toServer[c], 1)
    BY <1>2, <1>4, <2>1 DEF Window
  <2> QED BY <1>4, <2>2
<1> QED BY <1>1, <1>3, <1>4 DEF Moves

LEMMA DrainsKeepGrowing ==
  ASSUME TypeOK, TypeOK', Shape, Growing, Drains, UNCHANGED <<made, queue>>,
         \A x \in Past' :
           \/ x \in Past
           \/ /\ x.n <= made
              /\ \A q \in Elements(queue) : x.n < q
              /\ \A c \in Conns : Feeding(c)' => \A m \in NumbersIn(toServer'[c]) : x.n < m
  PROVE  Growing'
<1>1. ASSUME NEW c \in Conns, Feeding(c)'
      PROVE  Rising(toServer'[c]) /\ Feeding(c) /\ NumbersIn(toServer'[c]) \subseteq NumbersIn(toServer[c])
  <2>1. PICK k \in Nat : Window(toServer'[c], toServer[c], k)
    BY <1>1 DEF Drains
  <2>2. Feeding(c) /\ toServer'[c] \in Seq(Frames) /\ toServer[c] \in Seq(Frames)
    BY <1>1 DEF Drains, TypeOK
  <2>3. Rising(toServer[c])
    BY <2>2 DEF Growing
  <2> QED BY <2>1, <2>2, <2>3, WindowKeepsRising
<1>2. made <= made'
  BY DEF TypeOK
<1>3. Increasing(queue')
  BY DEF Growing
<1>4. \A q \in Elements(queue') :
           /\ q <= made'
           /\ \A x \in Past : x.n < q
           /\ \A c \in Conns : Feeding(c) => \A n \in NumbersIn(toServer[c]) : n < q
  BY DEF Growing
<1> DEFINE late == {}
<1>5. late \in SUBSET Nat /\ \A m : m \notin late
  OBVIOUS
<1> HIDE DEF late
<1>6. late = {}
  BY <1>5
<1> QED BY <1>1, <1>2, <1>3, <1>4, <1>5, <1>6, WritesKeepGrowing

\* A wire that is written to feeds the daemon only if it did before or was empty.
LEMMA LongerWire ==
  ASSUME TypeOK, Shape, Growing, NEW c \in Conns, NEW u \in Seq(Frames), u # <<>>, Rising(u),
         toServer'[c] = toServer[c] \o u, bound'[c] = bound[c], Writable(c), Feeding(c)',
         Feeding(c) => \A m \in NumbersIn(toServer[c]), n \in NumbersIn(u) : m < n
  PROVE  /\ Rising(toServer'[c])
         /\ \A m \in NumbersIn(toServer'[c]) :
              (Feeding(c) /\ m \in NumbersIn(toServer[c])) \/ m \in NumbersIn(u)
<1>1. toServer[c] \in Seq(Frames)
  BY DEF TypeOK
<1>2. CASE toServer[c] = <<>>
  <2>1. toServer'[c] = u
    BY <1>2
  <2> QED BY <2>1
<1>3. CASE toServer[c] # <<>>
  <2>1. toServer'[c][1] = toServer[c][1]
    BY <1>1, <1>3
  <2>2. bound[c] # None \/ toServer[c][1].t = "hello"
    BY <2>1 DEF Feeding
  <2>3. "hello" # "stdout"
    OBVIOUS
  <2>4. sEnd[c] # "unused"
    BY <1>3, <2>2, <2>3 DEF Shape, Wires
  <2>5. Feeding(c)
    BY <1>3, <2>2, <2>4 DEF Feeding, Writable
  <2>6. Rising(toServer[c])
    BY <2>5 DEF Growing
  <2>7. Rising(toServer'[c])
    BY <1>1, <2>5, <2>6, AppendKeepsRising
  <2>8. NumbersIn(toServer'[c]) = NumbersIn(toServer[c]) \union NumbersIn(u)
    BY <1>1, NumbersOfAppend
  <2> QED BY <2>5, <2>7, <2>8
<1> QED BY <1>2, <1>3

LEMMA UnchangedWire ==
  ASSUME TypeOK, Growing, NEW c \in Conns, Feeding(c)', toServer'[c] = toServer[c],
         bound'[c] = bound[c], sEnd[c] = "open"
  PROVE  Feeding(c) /\ Rising(toServer'[c])
<1>1. Feeding(c)
  BY DEF Feeding
<1> QED BY <1>1 DEF Growing

LEMMA SendStdoutKeepsGrowing ==
  ASSUME TypeOK, TypeOK', Shape, Growing, SendStdout
  PROVE  Growing'
<1>1. /\ made' = made + 1 /\ made + 1 \in Chunks /\ made \in Nat /\ made + 1 \in Nat
      /\ UNCHANGED <<socket, cEnd, sEnd, bound, ring, got>>
  BY BoundsAreConns DEF SendStdout, TypeOK, Chunks, srvVars, readerVars
<1>2. Past' = Past
  BY <1>1 DEF Past
<1>3. made <= made'
  BY <1>1
<1>4. \A c \in Conns : Feeding(c) => \A n \in NumbersIn(toServer[c]) : n < made + 1
  <2> TAKE c \in Conns
  <2> HAVE Feeding(c)
  <2> TAKE n \in NumbersIn(toServer[c])
  <2>1. n <= made
    BY DEF Growing
  <2>2. n \in Nat
    BY NumbersAreTyped DEF TypeOK
  <2> QED BY <1>1, <2>1, <2>2
<1>5. \A x \in Past : x.n < made + 1
  <2> TAKE x \in Past
  <2>1. x.n <= made /\ x.n \in Nat
    BY PastIsTyped DEF Growing
  <2> QED BY <1>1, <2>1
<1>6. \A q \in Elements(queue) : q \in Nat /\ q < made + 1
  <2> TAKE q \in Elements(queue)
  <2>1. q \in Chunks
    BY DEF Elements, TypeOK
  <2>2. q <= made
    BY DEF Growing
  <2> QED BY <1>1, <2>1, <2>2 DEF Chunks
<1> DEFINE f == Stdout(made + 1)
<1>7. f \in Frames /\ f.t = "stdout" /\ f.n = made + 1
  BY <1>1, FramesAreTyped
<1>8. CASE connected /\ socket # None
  <2>1. /\ socket \in Conns
        /\ queue' = queue
        /\ \A c \in Conns : c # socket => toServer'[c] = toServer[c]
        /\ ~Writable(socket) => toServer'[socket] = toServer[socket]
        /\ Writable(socket) => toServer'[socket] = Append(toServer[socket], f)
    BY <1>8, StdoutWrites
  <2> HIDE DEF f
  <2>2. \A c \in Conns : Feeding(c)' => sEnd[c] = "open"
    BY <1>1 DEF Feeding
  <2>3. Increasing(queue')
    BY <2>1 DEF Growing
  <2>4. \A q \in Elements(queue') :
           /\ q <= made'
           /\ \A x \in Past : x.n < q
           /\ \A c \in Conns : Feeding(c) => \A n \in NumbersIn(toServer[c]) : n < q
    <3> SUFFICES ASSUME NEW q \in Elements(queue)
                 PROVE  /\ q <= made'
                        /\ \A x \in Past : x.n < q
                        /\ \A c \in Conns : Feeding(c) => \A n \in NumbersIn(toServer[c]) : n < q
      BY <2>1
    <3>1. q <= made'
      BY <1>1, <1>6
    <3>2. \A x \in Past : x.n < q
      BY DEF Growing
    <3>3. \A c \in Conns : Feeding(c) => \A n \in NumbersIn(toServer[c]) : n < q
      BY DEF Growing
    <3> QED BY <3>1, <3>2, <3>3
  <2>5. CASE Writable(socket) /\ Feeding(socket)'
    <3> DEFINE u == <<f>>
               late == {made + 1}
    <3>1. u \in Seq(Frames) /\ u # <<>> /\ Rising(u) /\ NumbersIn(u) = late
      <4>1. Len(u) = 1 /\ u[1] = f /\ u \in Seq(Frames)
        BY <1>7
      <4>2. \A i \in 1..Len(u) : i = 1
        BY <4>1
      <4> HIDE DEF u
      <4>3. Rising(u)
        BY <4>1, <4>2 DEF Rising
      <4>4. NumbersIn(u) = {u[1].n}
        BY <1>7, <4>1, <4>2 DEF NumbersIn
      <4>5. u[1].n = made + 1
        BY <1>7, <4>1
      <4>6. u # <<>>
        BY <4>1
      <4> QED BY <4>1, <4>3, <4>4, <4>5, <4>6
    <3>2. toServer'[socket] = toServer[socket] \o u
      <4>1. toServer[socket] \in Seq(Frames)
        BY <2>1 DEF TypeOK
      <4>2. Append(toServer[socket], f) = toServer[socket] \o <<f>>
        BY <1>7, <4>1
      <4> QED BY <2>1, <2>5, <4>2
    <3> HIDE DEF u
    <3>3. queue' = <<>>
      <4>1. cEnd[socket] # "dialing"
        BY <1>1, <2>1, <2>2, <2>5 DEF Shape, Opened
      <4>2. cEnd[socket] = "open"
        BY <2>5, <4>1 DEF Writable
      <4> QED BY <1>8, <2>1, <4>2 DEF Shape, QueueWaits
    <3>4. ASSUME NEW c \in Conns, Feeding(c)'
          PROVE  /\ Rising(toServer'[c])
                 /\ \A m \in NumbersIn(toServer'[c]) :
                      \/ Feeding(c) /\ m \in NumbersIn(toServer[c])
                      \/ c = socket /\ m \in late
      <4>1. CASE c = socket
        <5>1. Feeding(c) => \A m \in NumbersIn(toServer[c]), n \in NumbersIn(u) : m < n
          BY <1>4, <3>1
        <5> QED BY <1>1, <2>5, <3>1, <3>2, <3>4, <4>1, <5>1, LongerWire
      <4>2. CASE c # socket
        BY <1>1, <2>1, <2>2, <3>4, <4>2, UnchangedWire
      <4> QED BY <4>1, <4>2
    <3>5. late \in SUBSET Nat
      BY <1>1
    <3>6. \A m \in late :
           /\ m <= made'
           /\ \A x \in Past : x.n < m
           /\ \A c \in Conns : Feeding(c) => \A n \in NumbersIn(toServer[c]) : n < m
      BY <1>1, <1>4, <1>5
    <3> HIDE DEF late
    <3> QED BY <1>2, <1>3, <2>3, <2>4, <3>3, <3>4, <3>5, <3>6, WritesKeepGrowing
  <2>6. CASE ~(Writable(socket) /\ Feeding(socket)')
    <3> DEFINE late == {}
    <3>1. late \in SUBSET Nat /\ \A m : m \notin late
      OBVIOUS
    <3>2. late = {}
      BY <3>1
    <3> HIDE DEF late
    <3>3. ASSUME NEW c \in Conns, Feeding(c)'
          PROVE  Rising(toServer'[c]) /\ Feeding(c) /\ toServer'[c] = toServer[c]
      <4>1. toServer'[c] = toServer[c]
        BY <1>1, <2>1, <2>6, <3>3
      <4> QED BY <1>1, <2>2, <3>3, <4>1, UnchangedWire
    <3> QED BY <1>2, <1>3, <2>3, <2>4, <3>1, <3>2, <3>3, WritesKeepGrowing
  <2> QED BY <2>5, <2>6
<1>9. CASE ~(connected /\ socket # None)
  <2>1. toServer' = toServer /\ queue' = Enqueued(queue, made + 1)
    BY <1>9 DEF SendStdout
  <2>2. queue \in Seq(Chunks) /\ Len(queue) <= QueueMax
    BY DEF TypeOK
  <2> DEFINE a == Append(queue, made + 1)
             k == Len(queue) + 1 - Len(queue')
  <2>3. queue' \in Seq(Chunks) /\ Len(queue') <= Len(queue) + 1 /\ Window(queue', a, k)
    BY <1>1, <2>1, <2>2, EnqueuedIs
  <2>4. k \in Nat
    BY <2>2, <2>3
  <2>5. /\ a \in Seq(Chunks) /\ Len(a) = Len(queue) + 1 /\ a[Len(queue) + 1] = made + 1
        /\ \A i \in 1..Len(queue) : a[i] = queue[i]
    BY <1>1, <2>2
  <2> HIDE DEF a, k
  <2>6. \A i \in 1..Len(queue) : queue[i] < made + 1
    BY <1>6 DEF Elements
  <2>7. \A i, j \in 1..Len(a) : i < j => a[i] < a[j]
    <3> TAKE i, j \in 1..Len(a)
    <3> HAVE i < j
    <3>1. i \in 1..Len(queue)
      BY <2>5
    <3>2. CASE j = Len(queue) + 1
      BY <2>5, <2>6, <3>1, <3>2
    <3>3. CASE j \in 1..Len(queue)
      BY <2>5, <3>1, <3>3 DEF Growing, Increasing
    <3> QED BY <2>5, <3>2, <3>3
  <2>8. \A i \in 1..Len(queue') : i + k \in 1..Len(a) /\ queue'[i] = a[i + k]
    BY <2>3, <2>4 DEF Window
  <2>9. Increasing(queue')
    <3> SUFFICES ASSUME NEW i \in 1..Len(queue'), NEW j \in 1..Len(queue'), i < j
                 PROVE  queue'[i] < queue'[j]
      BY DEF Increasing
    <3>1. i + k < j + k
      BY <2>4
    <3> QED BY <2>7, <2>8, <3>1
  <2>10. \A q \in Elements(queue') : q \in Elements(queue) \/ q = made + 1
    <3> TAKE q \in Elements(queue')
    <3>1. PICK i \in 1..Len(queue') : q = queue'[i]
      BY DEF Elements
    <3>2. i + k \in 1..Len(a) /\ q = a[i + k]
      BY <2>8, <3>1
    <3> QED BY <2>5, <3>2 DEF Elements
  <2>11. \A q \in Elements(queue') :
           /\ q <= made'
           /\ \A x \in Past : x.n < q
           /\ \A c \in Conns : Feeding(c) => \A n \in NumbersIn(toServer[c]) : n < q
    BY <1>1, <1>4, <1>5, <1>6, <2>10 DEF Growing
  <2>12. ASSUME NEW c \in Conns, Feeding(c)'
         PROVE  Rising(toServer'[c]) /\ Feeding(c) /\ toServer'[c] = toServer[c]
    BY <1>1, <2>1, <2>12 DEF Feeding, Growing
  <2> DEFINE late == {}
  <2>13. late \in SUBSET Nat /\ \A m : m \notin late
    OBVIOUS
  <2>14. late = {}
    OBVIOUS
  <2> HIDE DEF late
  <2> QED BY <1>2, <1>3, <2>9, <2>11, <2>12, <2>13, <2>14, WritesKeepGrowing
<1> QED BY <1>8, <1>9

LEMMA GreetKeepsGrowing ==
  ASSUME TypeOK, TypeOK', Shape, Growing, NEW cs \in Seq(Conns), Greet(cs),
         UNCHANGED <<made, socket, bound, ring, got>>,
         OnConnect \/ UNCHANGED <<cEnd, sEnd>>
  PROVE  Growing'
<1>1. queue' = <<>> /\ Past' = Past
  BY DEF Greet, AfterDrain, Past
<1>2. made <= made'
  BY DEF TypeOK
<1> DEFINE late == Elements(queue)
<1>3. late \in SUBSET Nat
  <2>1. queue \in Seq(Chunks)
    BY DEF TypeOK
  <2>2. Chunks \subseteq Nat
    BY DEF Chunks
  <2>3. \A i \in 1..Len(queue) : queue[i] \in Nat
    <3> TAKE i \in 1..Len(queue)
    <3>1. queue[i] \in Chunks
      BY <2>1
    <3> QED BY <2>2, <3>1
  <2>4. ASSUME NEW q \in Elements(queue) PROVE q \in Nat
    <3>1. PICK i \in 1..Len(queue) : q = queue[i]
      BY DEF Elements
    <3> QED BY <2>3, <3>1
  <2>5. \A q \in Elements(queue) : q \in Nat
    BY <2>4
  <2> QED BY <2>5
<1>4. Increasing(queue)
  BY DEF Growing
<1>5. \A m \in late :
        /\ m <= made'
        /\ \A x \in Past : x.n < m
        /\ \A c \in Conns : Feeding(c) => \A n \in NumbersIn(toServer[c]) : n < m
  <2> TAKE m \in late
  <2>1. m <= made /\ \A x \in Past : x.n < m
    BY DEF Growing
  <2>2. \A c \in Conns : Feeding(c) => \A n \in NumbersIn(toServer[c]) : n < m
    BY DEF Growing
  <2> QED BY <2>1, <2>2
<1>6. ASSUME NEW c \in Conns, Feeding(c)'
      PROVE  /\ Rising(toServer'[c])
             /\ \A m \in NumbersIn(toServer'[c]) :
                  \/ Feeding(c) /\ m \in NumbersIn(toServer[c])
                  \/ c = socket /\ m \in late
  <2>1. CASE toServer'[c] = toServer[c] /\ sEnd[c] = "open"
    BY <1>6, <2>1, UnchangedWire
  <2>2. CASE toServer'[c] = toServer[c] /\ sEnd[c] # "open"
    <3>1. OnConnect /\ c = socket /\ cEnd[c] = "dialing"
      <4>1. sEnd'[c] = "open"
        BY <1>6 DEF Feeding
      <4>2. OnConnect
        BY <2>2, <4>1
      <4> QED BY <2>2, <4>1, <4>2 DEF OnConnect, TypeOK
    <3>2. sEnd[c] = "unused"
      BY <3>1 DEF Shape, Opened
    <3>3. bound[c] = None /\ (toServer[c] # <<>> => toServer[c][1].t = "stdout")
      BY <3>2 DEF Shape, Wires
    <3>4. "stdout" # "hello"
      OBVIOUS
    <3> QED BY <1>6, <2>2, <3>3, <3>4 DEF Feeding
  <2>3. CASE /\ Writable(c)
             /\ toServer'[c] = toServer[c] \o Greeting(c = cs[1])
    <3>1. c = socket
      BY <2>3 DEF Shape, Opened, Writable
    <3> DEFINE u == Greeting(c = cs[1])
    <3>2. u \in Seq(Frames) /\ u # <<>>
      BY GreetingIsTyped
    <3>3. Rising(u) /\ NumbersIn(u) \subseteq late
      BY <1>4, NumbersOfGreeting
    <3> HIDE DEF u, late
    <3>4. Feeding(c) => \A m \in NumbersIn(toServer[c]), n \in NumbersIn(u) : m < n
      BY <1>5, <3>3
    <3>5. /\ Rising(toServer'[c])
          /\ \A m \in NumbersIn(toServer'[c]) :
               (Feeding(c) /\ m \in NumbersIn(toServer[c])) \/ m \in NumbersIn(u)
      <4>1. toServer'[c] = toServer[c] \o u
        BY <2>3 DEF u
      <4> QED BY <1>6, <2>3, <3>2, <3>3, <3>4, <4>1, LongerWire
    <3> QED BY <3>1, <3>3, <3>5
  <2> QED BY <2>1, <2>2, <2>3, GreetWrites
<1>7. Increasing(queue') /\ \A q : q \notin Elements(queue')
  BY <1>1 DEF Increasing, Elements
<1> HIDE DEF late
<1> QED BY <1>1, <1>2, <1>3, <1>5, <1>6, <1>7, WritesKeepGrowing

\* A chunk is pushed into a ring: what is left is what was there, and the chunk.
LEMMA PushedHas ==
  ASSUME NEW r \in Seq(Kept), Len(r) <= RingMax, NEW x \in Kept
  PROVE  /\ Elements(Pushed(r, x)) \subseteq Elements(r) \union {x}
         /\ Pushed(r, x)[Len(Pushed(r, x))] = x
         /\ InOrder(r) /\ (\A y \in Elements(r) : y.n < x.n /\ y.at <= x.at) => InOrder(Pushed(r, x))
<1> DEFINE p == Pushed(r, x)
           a == Append(r, x)
           k == Len(r) + 1 - Len(p)
<1>1. p \in Seq(Kept) /\ Len(p) <= Len(r) + 1 /\ p # <<>> /\ Window(p, a, k)
  BY PushedIs
<1>2. k \in Nat
  BY <1>1
<1>3. /\ Len(a) = Len(r) + 1 /\ a[Len(r) + 1] = x
      /\ \A i \in 1..Len(r) : a[i] = r[i]
  OBVIOUS
<1> HIDE DEF a, p
<1>4. \A i \in 1..Len(p) : i + k \in 1..Len(a) /\ p[i] = a[i + k]
  BY <1>1, <1>2 DEF Window
<1>5. Elements(p) \subseteq Elements(r) \union {x}
  <2> SUFFICES ASSUME NEW y \in Elements(p) PROVE y \in Elements(r) \/ y = x
    OBVIOUS
  <2>1. PICK i \in 1..Len(p) : y = p[i]
    BY DEF Elements
  <2>2. i + k \in 1..Len(a) /\ y = a[i + k]
    BY <1>4, <2>1
  <2> QED BY <1>3, <2>2 DEF Elements
<1>6. p[Len(p)] = x
  <2>1. Len(p) \in 1..Len(p) /\ Len(p) + k = Len(r) + 1
    BY <1>1
  <2> QED BY <1>3, <1>4, <2>1
<1>7. ASSUME InOrder(r), \A y \in Elements(r) : y.n < x.n /\ y.at <= x.at
      PROVE  InOrder(p)
  <2>1. \A i, j \in 1..Len(a) : i < j => a[i].n < a[j].n /\ a[i].at <= a[j].at
    <3> TAKE i, j \in 1..Len(a)
    <3> HAVE i < j
    <3>1. i \in 1..Len(r) /\ a[i] \in Elements(r)
      BY <1>3 DEF Elements
    <3>2. CASE j = Len(r) + 1
      BY <1>3, <1>7, <3>1, <3>2
    <3>3. CASE j \in 1..Len(r)
      BY <1>3, <1>7, <3>1, <3>3 DEF InOrder
    <3> QED BY <1>3, <3>2, <3>3
  <2> SUFFICES ASSUME NEW i \in 1..Len(p), NEW j \in 1..Len(p), i < j
               PROVE  p[i].n < p[j].n /\ p[i].at <= p[j].at
    BY DEF InOrder
  <2>2. i + k < j + k
    BY <1>2
  <2> HIDE DEF k
  <2> QED BY <1>4, <2>1, <2>2
<1> QED BY <1>5, <1>6, <1>7 DEF p

\* What OnStdout does: the chunk at the head of a feeding wire comes after all that is
\* past and before all that is under way.
LEMMA OnStdoutPushes ==
  ASSUME TypeOK, TypeOK', Growing, NEW c \in Conns, OnStdout(c)
  PROVE  \E x \in Kept :
           /\ x = [n |-> Frame(c).n, at |-> now, via |-> c]
           /\ x \in Elements(ring'[bound[c]])
           /\ \A y \in Past : y.n < x.n
           /\ x.n <= made
           /\ \A q \in Elements(queue) : x.n < q
           /\ \A d \in Conns : Feeding(d)' => \A m \in NumbersIn(toServer'[d]) : x.n < m
           /\ \A y \in Past' : y \in Past \/ y = x
           /\ ring' = [ring EXCEPT ![bound[c]] = Pushed(@, x)]
           /\ bound[c] \in Conns
<1>1. /\ Feeding(c) /\ bound[c] \in Conns /\ toServer[c] \in Seq(Frames) /\ toServer[c] # <<>>
      /\ toServer' = [toServer EXCEPT ![c] = Tail(@)]
      /\ UNCHANGED <<sEnd, bound, got, made, queue>>
      /\ EarlierFramesRead(c)
  BY FeedingIsRead DEF OnStdout, Readable, TypeOK, cbVars, readerVars
<1>2. Frame(c) = toServer[c][1] /\ Frame(c) \in Frames /\ Frame(c).t = "stdout"
  BY <1>1 DEF Frame, OnStdout
<1>3. Frame(c).n \in Chunks /\ Frame(c).n \in NumbersIn(toServer[c])
  <2>1. 1 \in 1..Len(toServer[c])
    BY <1>1
  <2> QED BY <1>2, <2>1, FramesAreTyped DEF NumbersIn
<1> DEFINE x == [n |-> Frame(c).n, at |-> now, via |-> c]
<1>4. x \in Kept /\ x.n = Frame(c).n /\ ring' = [ring EXCEPT ![bound[c]] = Pushed(@, x)]
  BY <1>3 DEF TypeOK, Kept, OnStdout
<1> HIDE DEF x
<1>5. /\ \A y \in Past : y.n < x.n
      /\ x.n <= made
      /\ \A q \in Elements(queue) : x.n < q
  BY <1>1, <1>3, <1>4 DEF Growing
<1>6. ASSUME NEW d \in Conns, Feeding(d)', NEW m \in NumbersIn(toServer'[d])
      PROVE  x.n < m
  <2>1. sEnd[d] = "open" /\ toServer'[d] # <<>>
    BY <1>1, <1>6 DEF Feeding
  <2>2. CASE d = c
    <3>1. toServer'[c] = Tail(toServer[c])
      BY <1>1 DEF TypeOK
    <3>2. PICK i \in 1..Len(Tail(toServer[c])) :
            Tail(toServer[c])[i].t = "stdout" /\ m = Tail(toServer[c])[i].n
      BY <1>6, <2>2, <3>1 DEF NumbersIn
    <3>3. i + 1 \in 1..Len(toServer[c]) /\ Tail(toServer[c])[i] = toServer[c][i + 1] /\ 1 < i + 1
      BY <1>1, <3>2
    <3>4. 1 \in 1..Len(toServer[c])
      BY <1>1
    <3>5. Rising(toServer[c])
      BY <1>1 DEF Growing
    <3> QED BY <1>2, <1>4, <3>2, <3>3, <3>4, <3>5 DEF Rising
  <2>3. CASE d # c
    <3>1. toServer'[d] = toServer[d]
      BY <1>1, <2>3
    <3>2. Feeding(d)
      BY <1>1, <1>6, <3>1 DEF Feeding
    <3>3. ~(d < c)
      <4>1. SUFFICES ASSUME d < c PROVE FALSE
        OBVIOUS
      <4>2. d \in 1..(c - 1)
        BY <4>1, BoundsAreConns
      <4> QED BY <1>1, <2>1, <3>1, <4>2 DEF EarlierFramesRead
    <3>4. c < d
      BY <2>3, <3>3, BoundsAreConns
    <3> QED BY <1>1, <1>3, <1>4, <1>6, <3>1, <3>2, <3>4 DEF Growing
  <2> QED BY <2>2, <2>3
<1>7. /\ Elements(Pushed(ring[bound[c]], x)) \subseteq Elements(ring[bound[c]]) \union {x}
      /\ Pushed(ring[bound[c]], x) # <<>>
      /\ Pushed(ring[bound[c]], x)[Len(Pushed(ring[bound[c]], x))] = x
      /\ Pushed(ring[bound[c]], x) \in Seq(Kept)
  BY <1>1, <1>4, PushedHas, PushedIs DEF TypeOK
<1>8. ring'[bound[c]] = Pushed(ring[bound[c]], x) /\ \A o \in Conns : o # bound[c] => ring'[o] = ring[o]
  BY <1>1, <1>4 DEF TypeOK
<1>9. x \in Elements(ring'[bound[c]])
  BY <1>7, <1>8 DEF Elements
<1>10. ASSUME NEW y \in Past' PROVE y \in Past \/ y = x
  <2>1. y \in Kept
    BY DEF Past
  <2>2. CASE y \in Elements(got)
    BY <2>1, <2>2 DEF Past
  <2>3. CASE \E o \in Conns : y \in Elements(ring'[o])
    <3>1. PICK o \in Conns : y \in Elements(ring'[o])
      BY <2>3
    <3>2. y \in Elements(ring[o]) \/ y = x
      BY <1>7, <1>8, <3>1
    <3> QED BY <2>1, <3>2 DEF Past
  <2> QED BY <1>1, <2>2, <2>3 DEF Past
<1> QED BY <1>1, <1>4, <1>5, <1>6, <1>9, <1>10 DEF x

\* What a read returns: the end of what is fresh, which is the end of the ring.
LEMMA ReadElements ==
  ASSUME TypeOK, Read
  PROVE  LET fresh == Fresh(ring[entry])
             kept  == Newest(fresh, ReadMax)
         IN /\ entry \in Conns
            /\ ring[entry] \in Seq(Kept) /\ fresh \in Seq(Kept) /\ kept \in Seq(Kept)
            /\ Elements(fresh) \subseteq Elements(ring[entry])
            /\ Elements(kept) \subseteq Elements(fresh)
            /\ fresh # <<>> => kept # <<>> /\ kept[Len(kept)] = fresh[Len(fresh)]
            /\ Len(kept) <= Len(fresh)
            /\ Window(kept, fresh, Len(fresh) - Len(kept))
            /\ Window(fresh, ring[entry], Len(ring[entry]) - Len(fresh))
            /\ got' = got \o kept
            /\ cursor' = Latest(fresh)
            /\ cut' = cut \union {x.n : x \in Elements(fresh) \ Elements(kept)}
<1> DEFINE r == ring[entry]
           fresh == Fresh(r)
           kept == Newest(fresh, ReadMax)
<1>1. entry \in Conns /\ r \in Seq(Kept)
  BY DEF Read, TypeOK
<1>2. /\ got' = got \o kept
      /\ cursor' = Latest(fresh)
      /\ cut' = cut \union {x.n : x \in Elements(fresh) \ Elements(kept)}
  BY DEF Read
<1> HIDE DEF r
<1>3. fresh \in Seq(Kept) /\ Len(fresh) <= Len(r) /\ Window(fresh, r, Len(r) - Len(fresh))
  BY <1>1, FreshIsEnd
<1> HIDE DEF fresh
<1>4. ReadMax \in Nat \ {0}
  BY BoundsAreConns
<1>5. /\ kept \in Seq(Kept) /\ Len(kept) <= Len(fresh) /\ (fresh # <<>> => kept # <<>>)
      /\ Window(kept, fresh, Len(fresh) - Len(kept))
  BY <1>3, <1>4, NewestIsEnd
<1> HIDE DEF kept
<1>6. Elements(fresh) \subseteq Elements(r)
  <2>1. \A i \in 1..Len(fresh) : i + (Len(r) - Len(fresh)) \in 1..Len(r)
                                /\ fresh[i] = r[i + (Len(r) - Len(fresh))]
    BY <1>1, <1>3 DEF Window
  <2> QED BY <2>1 DEF Elements
<1>7. Elements(kept) \subseteq Elements(fresh)
  <2>1. \A i \in 1..Len(kept) : i + (Len(fresh) - Len(kept)) \in 1..Len(fresh)
                               /\ kept[i] = fresh[i + (Len(fresh) - Len(kept))]
    BY <1>3, <1>5 DEF Window
  <2> QED BY <2>1 DEF Elements
<1>8. fresh # <<>> => kept[Len(kept)] = fresh[Len(fresh)]
  <2> HAVE fresh # <<>>
  <2>1. Len(kept) \in 1..Len(kept) /\ Len(kept) + (Len(fresh) - Len(kept)) = Len(fresh)
    BY <1>3, <1>5
  <2> QED BY <1>5, <2>1 DEF Window
<1> QED BY <1>1, <1>2, <1>3, <1>5, <1>6, <1>7, <1>8 DEF kept, fresh, r

LEMMA GrowingInit == Init => Growing
<1> SUFFICES ASSUME Init PROVE Growing
  OBVIOUS
<1>1. /\ \A c \in Conns : sEnd[c] # "open" /\ ring[c] = <<>>
      /\ queue = <<>> /\ got = <<>>
  BY DEF Init
<1>2. \A x : x \notin Past
  BY <1>1 DEF Past, Elements
<1> QED BY <1>1, <1>2 DEF Growing, Feeding, Increasing, Elements

LEMMA GrowingStep == TypeOK /\ TypeOK' /\ Shape /\ Growing /\ [Next]_vars => Growing'
<1> SUFFICES ASSUME TypeOK, TypeOK', Shape, Growing, [Next]_vars PROVE Growing'
  OBVIOUS
<1>0. ASSUME UNCHANGED <<sEnd, toServer, bound>> PROVE Moves
  BY <1>0 DEF Moves, Shape, Wires
<1>1. CASE SendStdout
  BY <1>1, SendStdoutKeepsGrowing
<1>2. ASSUME UNCHANGED <<made, queue, ring, got>>, Moves PROVE Growing'
  <2>1. Past' = Past
    BY <1>2 DEF Past
  <2> QED BY <1>2, <2>1, MovesDrain, DrainsKeepGrowing
<1>3. CASE Connect \/ DialFails \/ SecretGivesUp \/ OnClose \/ SweepDead \/ Tick \/ UNCHANGED vars
  <2>1. UNCHANGED <<made, queue, ring, got, sEnd, toServer, bound>>
    BY <1>3 DEF Connect, DialFails, SecretGivesUp, OnClose, SweepDead, Tick, vars, cbVars, netVars,
                srvVars, readerVars
  <2> QED BY <1>0, <1>2, <2>1
<1>4. CASE OnConnect
  <2>1. socket \in Conns /\ UNCHANGED <<made, socket, bound, ring, got>>
    BY <1>4 DEF OnConnect, TypeOK, srvVars, readerVars
  <2>2. CASE Greet(<<socket>>)
    <3>1. <<socket>> \in Seq(Conns)
      BY <2>1
    <3> QED BY <1>4, <2>1, <2>2, <3>1, GreetKeepsGrowing
  <2>3. CASE UNCHANGED <<secret, toServer, queue, connected, astray>>
    <3>1. Past' = Past
      BY <2>1 DEF Past
    <3>2. ASSUME NEW c \in Conns, Feeding(c)'
          PROVE  Feeding(c) /\ \E k \in Nat : Window(toServer'[c], toServer[c], k)
      <4>1. toServer[c] \in Seq(Frames) /\ toServer'[c] = toServer[c] /\ bound'[c] = bound[c]
        BY <2>1, <2>3 DEF TypeOK
      <4>2. Window(toServer'[c], toServer[c], 0)
        BY <4>1 DEF Window
      <4>3. CASE sEnd[c] = "open"
        BY <3>2, <4>1, <4>2, <4>3 DEF Feeding
      <4>4. CASE sEnd[c] # "open"
        <5>1. sEnd'[c] = "open"
          BY <3>2 DEF Feeding
        <5>2. c = socket /\ cEnd[c] = "dialing"
          BY <1>4, <4>4, <5>1 DEF OnConnect, TypeOK
        <5>3. sEnd[c] = "unused"
          BY <5>2 DEF Shape, Opened
        <5>4. bound[c] = None /\ (toServer[c] # <<>> => toServer[c][1].t = "stdout")
          BY <5>3 DEF Shape, Wires
        <5>5. "stdout" # "hello"
          OBVIOUS
        <5> QED BY <3>2, <4>1, <5>4, <5>5 DEF Feeding
      <4> QED BY <4>3, <4>4
    <3>3. Drains
      BY <3>2 DEF Drains
    <3> QED BY <2>1, <2>3, <3>1, <3>3, DrainsKeepGrowing
  <2> QED BY <1>4, <2>2, <2>3 DEF OnConnect
<1>5. CASE SecretRead
  <2>1. greeting \in Seq(Conns) /\ Greet(greeting)
        /\ UNCHANGED <<made, socket, bound, ring, got, cEnd, sEnd>>
    BY <1>5 DEF SecretRead, TypeOK, srvVars, readerVars
  <2> QED BY <2>1, GreetKeepsGrowing
<1>6. CASE Watchdog
  <2>1. /\ socket \in Conns /\ toServer[socket] \in Seq(Frames)
        /\ UNCHANGED <<made, queue, sEnd, bound, ring, got>>
    BY <1>6 DEF Watchdog, TypeOK, cbVars, srvVars, readerVars
  <2>2. PICK left \in Prefixes(toServer[socket]) : toServer' = [toServer EXCEPT ![socket] = left]
    BY <1>6 DEF Watchdog
  <2>3. left \in Seq(Frames) /\ Window(left, toServer[socket], 0)
    BY <2>1, <2>2, PrefixIsWindow
  <2>4. left # <<>> => toServer[socket] # <<>> /\ left[1] = toServer[socket][1]
    BY <2>1, <2>3 DEF Window
  <2>5. toServer'[socket] = left /\ \A c \in Conns : c # socket => toServer'[c] = toServer[c]
    BY <2>1, <2>2 DEF TypeOK
  <2>6. ASSUME NEW c \in Conns, Feeding(c)'
        PROVE  Feeding(c) /\ \E k \in Nat : Window(toServer'[c], toServer[c], k)
    <3>1. CASE c = socket
      BY <2>1, <2>3, <2>4, <2>5, <2>6, <3>1 DEF Feeding
    <3>2. CASE c # socket
      <4>1. toServer[c] \in Seq(Frames) /\ toServer'[c] = toServer[c]
        BY <2>5, <3>2 DEF TypeOK
      <4>2. Window(toServer'[c], toServer[c], 0)
        BY <4>1 DEF Window
      <4> QED BY <2>1, <2>6, <4>1, <4>2 DEF Feeding
    <3> QED BY <3>1, <3>2
  <2>7. Drains
    BY <2>6 DEF Drains
  <2>8. Past' = Past
    BY <2>1 DEF Past
  <2> QED BY <2>1, <2>7, <2>8, DrainsKeepGrowing
<1>7. ASSUME NEW c \in Conns, PipeBreak(c) PROVE Growing'
  BY <1>2, <1>7, PipeBreakMoves DEF PipeBreak, cbVars, srvVars, readerVars
<1>8. ASSUME NEW c \in Conns,
             RefuseRole(c) \/ Resume(c) \/ Register(c) \/ Expire(c) \/ HandleClose(c)
      PROVE  Growing'
  <2>1. Moves /\ UNCHANGED cbVars
    BY <1>8, DaemonActsMove DEF DaemonActs
  <2>2. UNCHANGED <<ring, got>>
    BY <1>8 DEF RefuseRole, Resume, Register, Expire, HandleClose, srvVars, readerVars
  <2> QED BY <1>2, <2>1, <2>2 DEF cbVars
<1>9. ASSUME NEW c \in Conns, OnStdout(c) PROVE Growing'
  <2>1. Moves /\ UNCHANGED <<made, queue>>
    BY <1>9, DaemonActsMove DEF DaemonActs, cbVars
  <2>2. PICK x \in Kept :
           /\ x.n <= made
           /\ \A q \in Elements(queue) : x.n < q
           /\ \A d \in Conns : Feeding(d)' => \A m \in NumbersIn(toServer'[d]) : x.n < m
           /\ \A y \in Past' : y \in Past \/ y = x
    BY <1>9, OnStdoutPushes
  <2> QED BY <2>1, <2>2, MovesDrain, DrainsKeepGrowing
<1>10. CASE DaemonDies
  BY <1>2, <1>10, DaemonDiesMoves DEF DaemonDies, cbVars, readerVars
<1>11. CASE Read
  <2>1. Moves /\ UNCHANGED <<made, queue, ring>>
    BY <1>0, <1>11 DEF Read, cbVars, netVars, srvVars
  <2>2. Past' \subseteq Past
    <3> DEFINE kept == Newest(Fresh(ring[entry]), ReadMax)
    <3>1. kept \in Seq(Kept) /\ got' = got \o kept /\ entry \in Conns
          /\ Elements(kept) \subseteq Elements(ring[entry])
      BY <1>11, ReadElements
    <3>2. got \in Seq(Kept)
      BY DEF TypeOK
    <3> HIDE DEF kept
    <3>3. \A y \in Elements(got') : y \in Elements(got) \/ y \in Elements(kept)
      BY <3>1, <3>2 DEF Elements
    <3> QED BY <2>1, <3>1, <3>3 DEF Past
  <2> QED BY <2>1, <2>2, MovesDrain, DrainsKeepGrowing
<1> QED BY <1>1, <1>3, <1>4, <1>5, <1>6, <1>7, <1>8, <1>9, <1>10, <1>11
        DEF Next, CbStep, CbFault, DaemonStep, Accept

LEMMA SortedInit == Init => Sorted
<1> SUFFICES ASSUME Init PROVE Sorted
  OBVIOUS
<1>1. \A c \in Conns : ring[c] = <<>>
  BY DEF Init
<1>2. got = <<>>
  BY DEF Init
<1>3. \A x : x \notin Past
  BY <1>1, <1>2 DEF Past, Elements
<1> QED BY <1>1, <1>2, <1>3 DEF Sorted, InOrder, ReadInOrder, Elements

LEMMA OnStdoutKeepsSorted ==
  ASSUME TypeOK, TypeOK', Growing, Sorted, NEW c \in Conns, OnStdout(c)
  PROVE  Sorted'
<1>1. PICK x \in Kept :
        /\ x = [n |-> Frame(c).n, at |-> now, via |-> c]
        /\ \A y \in Past : y.n < x.n
        /\ \A y \in Past' : y \in Past \/ y = x
        /\ ring' = [ring EXCEPT ![bound[c]] = Pushed(@, x)]
        /\ bound[c] \in Conns
  BY OnStdoutPushes
<1>2. x.at = now /\ x.at \in Nat /\ x.n \in Nat /\ now \in Nat
  BY <1>1, PastIsTyped DEF TypeOK, Times
<1>3. UNCHANGED <<got, now, cursor>>
  BY DEF OnStdout, readerVars
<1>4. \A y \in Past : y.at <= now /\ y.at \in Nat /\ y.n \in Nat
  BY PastIsTyped DEF Sorted
<1>5. \A y \in Past' : y.at <= now'
  BY <1>1, <1>2, <1>3, <1>4
<1>6. ASSUME NEW y \in Past', NEW z \in Past', y.at < z.at PROVE y.n < z.n
  <2>1. CASE y \in Past /\ z \in Past
    BY <1>6, <2>1 DEF Sorted
  <2>2. CASE z = x
    BY <1>1, <1>2, <1>6, <2>2
  <2>3. CASE y = x /\ z \in Past
    BY <1>2, <1>4, <1>6, <2>3
  <2> QED BY <1>1, <2>1, <2>2, <2>3
<1>7. ASSUME NEW o \in Conns PROVE InOrder(ring'[o])
  <2>1. InOrder(ring[o])
    BY DEF Sorted
  <2>2. CASE o # bound[c]
    BY <1>1, <2>1, <2>2 DEF TypeOK
  <2>3. CASE o = bound[c]
    <3>1. ring'[o] = Pushed(ring[o], x) /\ ring[o] \in Seq(Kept) /\ Len(ring[o]) <= RingMax
      BY <1>1, <2>3 DEF TypeOK
    <3>2. \A y \in Elements(ring[o]) : y.n < x.n /\ y.at <= x.at
      BY <1>1, <1>2, <1>4, PastIsTyped
    <3> QED BY <2>1, <3>1, <3>2, PushedHas
  <2> QED BY <2>2, <2>3
<1> QED BY <1>3, <1>5, <1>6, <1>7 DEF Sorted, ReadInOrder

\* What a read adds is beyond the cursor, and in order.
LEMMA ReadIsLater ==
  ASSUME TypeOK, Sorted, Read
  PROVE  LET kept == Newest(Fresh(ring[entry]), ReadMax)
         IN /\ \A x \in Elements(kept) : cursor < x.at /\ x.at <= cursor'
            /\ InOrder(kept)
            /\ cursor <= cursor'
<1> DEFINE r == ring[entry]
           fresh == Fresh(r)
           kept == Newest(fresh, ReadMax)
           k == Len(r) - Len(fresh)
           l == Len(fresh) - Len(kept)
<1>1. /\ r \in Seq(Kept) /\ fresh \in Seq(Kept) /\ kept \in Seq(Kept)
      /\ Elements(kept) \subseteq Elements(fresh)
      /\ Window(kept, fresh, l) /\ Window(fresh, r, k)
      /\ Len(kept) <= Len(fresh) /\ entry \in Conns
      /\ cursor' = Latest(fresh)
  BY ReadElements
<1>2. Len(fresh) <= Len(r) /\ (fresh # <<>> => fresh[1].at > cursor)
  BY <1>1, FreshIsEnd
<1>3. InOrder(r)
  BY <1>1 DEF Sorted
<1>4. \A x \in Kept : x.at \in Nat
  BY PastIsTyped
<1>5. cursor \in Nat
  BY DEF TypeOK
<1> HIDE DEF r, fresh, kept
<1>6. k \in Nat /\ l \in Nat
  BY <1>1, <1>2
<1>7. \A i \in 1..Len(fresh) : i + k \in 1..Len(r) /\ fresh[i] = r[i + k]
  BY <1>1, <1>6 DEF Window
<1>8. \A i \in 1..Len(kept) : i + l \in 1..Len(fresh) /\ kept[i] = fresh[i + l]
  BY <1>1, <1>6 DEF Window
<1>9. InOrder(fresh)
  <2> SUFFICES ASSUME NEW i \in 1..Len(fresh), NEW j \in 1..Len(fresh), i < j
               PROVE  fresh[i].n < fresh[j].n /\ fresh[i].at <= fresh[j].at
    BY DEF InOrder
  <2>1. i + k < j + k
    BY <1>6
  <2> HIDE DEF k
  <2> QED BY <1>3, <1>7, <2>1 DEF InOrder
<1>10. InOrder(kept)
  <2> SUFFICES ASSUME NEW i \in 1..Len(kept), NEW j \in 1..Len(kept), i < j
               PROVE  kept[i].n < kept[j].n /\ kept[i].at <= kept[j].at
    BY DEF InOrder
  <2>1. i + l < j + l
    BY <1>6
  <2> HIDE DEF l
  <2> QED BY <1>8, <1>9, <2>1 DEF InOrder
<1>11. \A x \in Elements(fresh) : cursor < x.at /\ x.at <= cursor'
  <2> SUFFICES ASSUME NEW i \in 1..Len(fresh)
               PROVE  cursor < fresh[i].at /\ fresh[i].at <= cursor'
    BY DEF Elements
  <2>1. fresh # <<>> /\ 1 \in 1..Len(fresh) /\ Len(fresh) \in 1..Len(fresh)
    BY <1>1
  <2>2. fresh[1] \in Kept /\ fresh[i] \in Kept /\ fresh[Len(fresh)] \in Kept
    BY <1>1, <2>1
  <2>3. fresh[1].at <= fresh[i].at
    BY <1>4, <1>9, <2>1, <2>2 DEF InOrder
  <2>4. fresh[i].at <= fresh[Len(fresh)].at
    BY <1>4, <1>9, <2>1, <2>2 DEF InOrder
  <2>5. cursor' = fresh[Len(fresh)].at
    BY <1>1, <2>1 DEF Latest
  <2>6. fresh[1].at \in Nat /\ fresh[i].at \in Nat
    BY <1>4, <2>2
  <2> QED BY <1>2, <1>5, <2>1, <2>3, <2>4, <2>5, <2>6
<1>12. cursor <= cursor'
  <2>1. CASE fresh = <<>>
    BY <1>1, <1>5, <2>1 DEF Latest
  <2>2. CASE fresh # <<>>
    <3>1. fresh[1] \in Elements(fresh) /\ fresh[1] \in Kept
      BY <1>1, <2>2 DEF Elements
    <3>2. cursor' = fresh[Len(fresh)].at /\ fresh[Len(fresh)] \in Kept
      BY <1>1, <2>2 DEF Latest
    <3> QED BY <1>4, <1>5, <1>11, <3>1, <3>2
  <2> QED BY <2>1, <2>2
<1> QED BY <1>1, <1>10, <1>11, <1>12 DEF kept, fresh, r

LEMMA ReadKeepsSorted ==
  ASSUME TypeOK, TypeOK', Sorted, Read
  PROVE  Sorted'
<1> DEFINE kept == Newest(Fresh(ring[entry]), ReadMax)
<1>1. /\ kept \in Seq(Kept) /\ entry \in Conns
      /\ Elements(kept) \subseteq Elements(ring[entry])
      /\ got' = got \o kept
  BY ReadElements
<1>2. /\ \A x \in Elements(kept) : cursor < x.at /\ x.at <= cursor'
      /\ InOrder(kept)
      /\ cursor <= cursor'
  BY ReadIsLater
<1>3. UNCHANGED <<ring, now>>
  BY DEF Read, srvVars
<1>4. got \in Seq(Kept) /\ cursor \in Nat /\ cursor' \in Nat
  BY DEF TypeOK
<1> HIDE DEF kept
<1>5. \A y \in Elements(got') : y \in Elements(got) \/ y \in Elements(kept)
  BY <1>1, <1>4 DEF Elements
<1>6. Past' \subseteq Past
  BY <1>1, <1>3, <1>5 DEF Past
<1>7. \A y \in Elements(got) : y \in Past /\ y.at <= cursor /\ y.at \in Nat
  BY PastIsTyped DEF Sorted
<1>8. \A y \in Elements(kept) : y \in Past /\ y.at \in Nat
  BY <1>1, PastIsTyped
<1>9. \A y \in Elements(got') : y.at <= cursor'
  BY <1>2, <1>4, <1>5, <1>7
<1>10. ReadInOrder'
  <2> SUFFICES ASSUME NEW i \in 1..Len(got'), NEW j \in 1..Len(got'), i < j
               PROVE  got'[i].n < got'[j].n
    BY DEF ReadInOrder
  <2>1. \A m \in 1..Len(got') :
          /\ m <= Len(got) => m \in 1..Len(got) /\ got'[m] = got[m]
          /\ m > Len(got) => m - Len(got) \in 1..Len(kept) /\ got'[m] = kept[m - Len(got)]
    BY <1>1, <1>4
  <2>2. Len(got) \in Nat
    BY <1>4
  <2>3. CASE j <= Len(got)
    <3>1. i <= Len(got)
      BY <2>2, <2>3
    <3> QED BY <2>1, <2>3, <3>1 DEF Sorted, ReadInOrder
  <2>4. CASE i > Len(got)
    <3>1. j > Len(got) /\ i - Len(got) < j - Len(got)
      BY <2>2, <2>4
    <3> QED BY <1>2, <2>1, <2>4, <3>1 DEF InOrder
  <2>5. CASE i <= Len(got) /\ j > Len(got)
    <3>1. got'[i] \in Elements(got) /\ got'[j] \in Elements(kept)
      BY <2>1, <2>5 DEF Elements
    <3>2. got'[i].at < got'[j].at
      BY <1>2, <1>4, <1>7, <1>8, <3>1
    <3> QED BY <1>7, <1>8, <3>1, <3>2 DEF Sorted
  <2> QED BY <2>2, <2>3, <2>4, <2>5
<1>11. /\ \A x \in Past' : x.at <= now'
       /\ \A x, y \in Past' : x.at < y.at => x.n < y.n
       /\ \A o \in Conns : InOrder(ring'[o])
  BY <1>3, <1>6 DEF Sorted
<1> QED BY <1>9, <1>10, <1>11 DEF Sorted

LEMMA SortedStep == TypeOK /\ TypeOK' /\ Growing /\ Sorted /\ [Next]_vars => Sorted'
<1> SUFFICES ASSUME TypeOK, TypeOK', Growing, Sorted, [Next]_vars PROVE Sorted'
  OBVIOUS
<1>1. ASSUME UNCHANGED <<ring, got, now, cursor>> PROVE Sorted'
  <2>1. Past' = Past
    BY <1>1 DEF Past
  <2> QED BY <1>1, <2>1 DEF Sorted, ReadInOrder
<1>2. CASE CbStep \/ CbFault
  BY <1>1, <1>2 DEF CbStep, CbFault, Connect, OnConnect, SecretRead, OnClose, SendStdout, DialFails,
       SecretGivesUp, Watchdog, srvVars, readerVars
<1>3. ASSUME NEW c \in Conns,
             RefuseRole(c) \/ Resume(c) \/ Register(c) \/ Expire(c) \/ HandleClose(c) \/ PipeBreak(c)
      PROVE  Sorted'
  BY <1>1, <1>3 DEF RefuseRole, Resume, Register, Expire, HandleClose, PipeBreak, srvVars, readerVars
<1>4. ASSUME NEW c \in Conns, OnStdout(c) PROVE Sorted'
  BY <1>4, OnStdoutKeepsSorted
<1>5. CASE SweepDead \/ DaemonDies \/ UNCHANGED vars
  BY <1>1, <1>5 DEF SweepDead, DaemonDies, vars, srvVars, readerVars
<1>6. CASE Tick
  <2>1. UNCHANGED <<ring, got, cursor>> /\ now' = now + 1 /\ now \in Nat
    BY <1>6 DEF Tick, TypeOK, Times, srvVars, readerVars
  <2>2. Past' = Past
    BY <2>1 DEF Past
  <2>3. \A x \in Past' : x.at <= now'
    BY <2>1, <2>2, PastIsTyped DEF Sorted
  <2> QED BY <2>1, <2>2, <2>3 DEF Sorted, ReadInOrder
<1>7. CASE Read
  BY <1>7, ReadKeepsSorted
<1> QED BY <1>2, <1>3, <1>4, <1>5, <1>6, <1>7 DEF Next, DaemonStep, Accept

\* The safety of what is read: a client that polls with the timestamp it got last reads
\* no chunk twice and none after a later one (ring-buffer.ts readSince, beneath resumes,
\* restarts and the queue of pipe-client.ts).
THEOREM ReadsAreInOrder == Spec => []ReadInOrder
<1>1. Init => Shape /\ Growing /\ Sorted
  BY ShapeInit, GrowingInit, SortedInit
<1>2. TypeOK /\ TypeOK' /\ Shape /\ Growing /\ Sorted /\ [Next]_vars => Shape' /\ Growing' /\ Sorted'
  BY ShapeStep, GrowingStep, SortedStep
<1>3. Sorted => ReadInOrder
  BY DEF Sorted
<1> QED BY <1>1, <1>2, <1>3, TypeCorrect, PTL DEF Spec

-----------------------------------------------------------------------------
(* What a poll misses *)

\* A session belongs to a connection that has said hello, and so has no ring before.
Owned ==
  /\ entry # None => bound[entry] # None
  /\ \A c \in Conns : bound[c] # None => bound[bound[c]] # None
  /\ \A o \in Conns : ring[o] # <<>> => bound[o] # None

\* The cursor is the time of a chunk that was read.
CursorRead ==
  /\ cursor <= now
  /\ cursor # 0 => \E y \in Elements(got) : y.at = cursor

Polled == Owned /\ CursorRead /\ SkippedShareMillisecond

LEMMA PolledInit == Init => Polled
BY DEF Init, Polled, Owned, CursorRead, SkippedShareMillisecond, Times, None

LEMMA OwnedStep == TypeOK /\ TypeOK' /\ Owned /\ [Next]_vars => Owned'
<1> SUFFICES ASSUME TypeOK, TypeOK', Owned, [Next]_vars PROVE Owned'
  OBVIOUS
<1> USE BoundsAreConns
<1>1. ASSUME bound' = bound, ring' = ring, entry' \in {entry, None} PROVE Owned'
  BY <1>1 DEF Owned
<1>2. CASE CbStep \/ CbFault \/ Read \/ Tick \/ SweepDead \/ DaemonDies \/ UNCHANGED vars
  BY <1>1, <1>2 DEF CbStep, CbFault, Connect, OnConnect, SecretRead, OnClose, SendStdout, DialFails,
       SecretGivesUp, Watchdog, Read, Tick, SweepDead, DaemonDies, vars, srvVars
<1>3. ASSUME NEW c \in Conns, RefuseRole(c) \/ Expire(c) \/ HandleClose(c) \/ PipeBreak(c)
      PROVE  Owned'
  BY <1>1, <1>3 DEF RefuseRole, Expire, HandleClose, PipeBreak, srvVars
<1>4. ASSUME NEW c \in Conns, Resume(c) PROVE Owned'
  <2>1. entry \in Conns /\ bound' = [bound EXCEPT ![c] = entry] /\ UNCHANGED <<entry, ring>>
    BY <1>4 DEF Resume, CanResume, IsAlive, TypeOK
  <2>2. \A d \in Conns : bound'[d] = IF d = c THEN entry ELSE bound[d]
    BY <2>1 DEF TypeOK
  <2>3. \A d \in Conns : bound[d] # None => bound'[d] # None
    BY <2>1, <2>2 DEF None, Conns
  <2>4. \A d \in Conns : bound[d] # None => bound[d] \in Conns
    BY DEF TypeOK
  <2> QED BY <2>1, <2>2, <2>3, <2>4 DEF Owned
<1>5. ASSUME NEW c \in Conns, Register(c) PROVE Owned'
  <2>1. bound' = [bound EXCEPT ![c] = c] /\ entry' = c /\ ring' = ring
    BY <1>5 DEF Register
  <2>2. \A d \in Conns : bound'[d] = IF d = c THEN c ELSE bound[d]
    BY <2>1 DEF TypeOK
  <2>3. c # None
    BY DEF None, Conns
  <2>4. \A d \in Conns : bound[d] # None => bound[d] \in Conns
    BY DEF TypeOK
  <2> QED BY <2>1, <2>2, <2>3, <2>4 DEF Owned
<1>6. ASSUME NEW c \in Conns, OnStdout(c) PROVE Owned'
  <2>1. UNCHANGED <<bound, entry>> /\ \A o \in Conns : o # bound[c] => ring'[o] = ring[o]
    BY <1>6 DEF OnStdout, TypeOK
  <2>2. bound[c] # None
    BY <1>6 DEF OnStdout
  <2> QED BY <2>1, <2>2 DEF Owned
<1> QED BY <1>2, <1>3, <1>4, <1>5, <1>6 DEF Next, DaemonStep, Accept

LEMMA OnStdoutKeepsPolled ==
  ASSUME TypeOK, TypeOK', Growing, Polled, Owned', NEW c \in Conns, OnStdout(c)
  PROVE  Polled'
<1>1. PICK x \in Kept :
        /\ x = [n |-> Frame(c).n, at |-> now, via |-> c]
        /\ ring' = [ring EXCEPT ![bound[c]] = Pushed(@, x)]
        /\ bound[c] \in Conns
  BY OnStdoutPushes
<1>2. UNCHANGED <<entry, now, cursor, got, cut>> /\ x.at = now
  BY <1>1 DEF OnStdout, readerVars
<1>3. now \in Nat \ {0} /\ cursor \in Nat /\ cursor <= now
  BY DEF TypeOK, Times, Polled, CursorRead
<1>4. CursorRead'
  BY <1>2 DEF Polled, CursorRead
<1>5. ASSUME entry # None, NEW y \in Elements(ring'[entry]), y.at <= cursor
      PROVE  y \in Elements(got) \/ y.n \in cut \/ \E z \in Elements(got) : z.at = y.at
  <2>1. entry \in Conns
    BY <1>5 DEF TypeOK
  <2>2. CASE y \in Elements(ring[entry])
    BY <1>5, <2>2 DEF Polled, SkippedShareMillisecond
  <2>3. CASE y \notin Elements(ring[entry])
    <3>1. entry = bound[c]
      BY <1>1, <1>5, <2>1, <2>3 DEF TypeOK
    <3>2. /\ ring'[entry] = Pushed(ring[entry], x)
          /\ ring[entry] \in Seq(Kept) /\ Len(ring[entry]) <= RingMax
      BY <1>1, <2>1, <3>1 DEF TypeOK
    <3>3. y = x
      BY <1>5, <2>3, <3>2, PushedHas
    <3>4. cursor = now /\ cursor # 0
      BY <1>2, <1>3, <1>5, <3>3
    <3> QED BY <1>2, <3>3, <3>4 DEF Polled, CursorRead
  <2> QED BY <2>2, <2>3
<1>6. SkippedShareMillisecond'
  BY <1>2, <1>5 DEF SkippedShareMillisecond
<1> QED BY <1>4, <1>6 DEF Polled

LEMMA ReadKeepsPolled ==
  ASSUME TypeOK, TypeOK', Sorted, Sorted', Polled, Owned', Read
  PROVE  Polled'
<1> DEFINE r == ring[entry]
           fresh == Fresh(r)
           kept == Newest(fresh, ReadMax)
<1>1. /\ r \in Seq(Kept) /\ fresh \in Seq(Kept) /\ kept \in Seq(Kept)
      /\ fresh # <<>> => kept # <<>> /\ kept[Len(kept)] = fresh[Len(fresh)]
      /\ Window(fresh, r, Len(r) - Len(fresh))
      /\ got' = got \o kept /\ got \in Seq(Kept) /\ entry \in Conns
      /\ cursor' = Latest(fresh)
      /\ cut' = cut \union {x.n : x \in Elements(fresh) \ Elements(kept)}
  BY ReadElements DEF TypeOK
<1>2. \A i \in 1..Len(r) : r[i].at > cursor => i > Len(r) - Len(fresh)
  BY <1>1, FreshIsEnd
<1>3. Len(fresh) <= Len(r)
  BY <1>1, FreshIsEnd
<1>4. UNCHANGED <<entry, ring, now>> /\ cursor \in Nat /\ cursor' \in Nat /\ now \in Nat
  BY DEF Read, srvVars, TypeOK, Times
<1>5. \A x \in Kept : x.at \in Nat
  BY PastIsTyped
<1>6. \A x \in Elements(got') : x.at <= cursor'
  BY DEF Sorted
<1> HIDE DEF r, fresh, kept
<1>7. Elements(got') = Elements(got) \union Elements(kept)
  <2>1. \A y \in Elements(got') : y \in Elements(got) \/ y \in Elements(kept)
    BY <1>1 DEF Elements
  <2>2. \A i \in 1..Len(got) : i \in 1..Len(got') /\ got'[i] = got[i]
    BY <1>1
  <2>3. \A i \in 1..Len(kept) : i + Len(got) \in 1..Len(got') /\ got'[i + Len(got)] = kept[i]
    BY <1>1
  <2>4. \A y \in Elements(got) : y \in Elements(got')
    BY <2>2 DEF Elements
  <2>5. \A y \in Elements(kept) : y \in Elements(got')
    BY <2>3 DEF Elements
  <2> QED BY <2>1, <2>4, <2>5
<1>8. fresh # <<>> => \E y \in Elements(got') : y.at = cursor'
  <2> HAVE fresh # <<>>
  <2>1. cursor' = kept[Len(kept)].at /\ kept # <<>>
    BY <1>1 DEF Latest
  <2>2. kept[Len(kept)] \in Elements(kept)
    BY <1>1, <2>1 DEF Elements
  <2> QED BY <1>7, <2>1, <2>2
<1>9. fresh = <<>> => cursor' = cursor
  BY <1>1 DEF Latest
<1>10. fresh # <<>> => cursor' <= now
  <2> HAVE fresh # <<>>
  <2>1. PICK y \in Elements(got') : y.at = cursor'
    BY <1>8
  <2>2. y \in Past'
    <3>1. y \in Kept
      BY <2>1 DEF TypeOK, Elements
    <3> QED BY <2>1, <3>1 DEF Past
  <2> QED BY <1>4, <2>1, <2>2 DEF Sorted
<1>11. CursorRead'
  BY <1>4, <1>7, <1>8, <1>9, <1>10 DEF Polled, CursorRead
<1>12. ASSUME NEW x \in Elements(r), x.at <= cursor', entry # None
       PROVE  x \in Elements(got') \/ x.n \in cut' \/ \E y \in Elements(got') : y.at = x.at
  <2>1. PICK i \in 1..Len(r) : x = r[i]
    BY DEF Elements
  <2>2. CASE x.at <= cursor
    <3>1. x \in Elements(got) \/ x.n \in cut \/ \E y \in Elements(got) : y.at = x.at
      BY <1>12, <2>2 DEF Polled, SkippedShareMillisecond, r
    <3> QED BY <1>1, <1>7, <3>1
  <2>3. CASE x.at > cursor
    <3>1. i > Len(r) - Len(fresh)
      BY <1>2, <2>1, <2>3
    <3> DEFINE m == i - (Len(r) - Len(fresh))
    <3>2. m \in 1..Len(fresh) /\ m + (Len(r) - Len(fresh)) = i
      BY <1>1, <1>3, <3>1
    <3>3. fresh[m] = x
      BY <1>1, <2>1, <3>2 DEF Window
    <3>4. x \in Elements(fresh)
      BY <3>2, <3>3 DEF Elements
    <3> QED BY <1>1, <1>7, <3>4
  <2>4. x.at \in Nat
    BY <1>1, <1>5, <2>1
  <2> QED BY <1>4, <2>2, <2>3, <2>4
<1>13. SkippedShareMillisecond'
  BY <1>4, <1>12 DEF SkippedShareMillisecond, r
<1> QED BY <1>11, <1>13 DEF Polled

LEMMA PolledStep ==
  TypeOK /\ TypeOK' /\ Growing /\ Sorted /\ Sorted' /\ Polled /\ [Next]_vars => Polled'
<1> SUFFICES ASSUME TypeOK, TypeOK', Growing, Sorted, Sorted', Polled, [Next]_vars PROVE Polled'
  OBVIOUS
<1>0. Owned'
  BY OwnedStep DEF Polled
<1>1. ASSUME UNCHANGED <<ring, got, now, cursor, cut>>, entry' \in {entry, None} PROVE Polled'
  BY <1>0, <1>1 DEF Polled, CursorRead, SkippedShareMillisecond
<1>2. CASE CbStep \/ CbFault \/ SweepDead \/ DaemonDies \/ UNCHANGED vars
  BY <1>1, <1>2 DEF CbStep, CbFault, Connect, OnConnect, SecretRead, OnClose, SendStdout, DialFails,
       SecretGivesUp, Watchdog, SweepDead, DaemonDies, vars, srvVars, readerVars
<1>3. ASSUME NEW c \in Conns,
             RefuseRole(c) \/ Resume(c) \/ Expire(c) \/ HandleClose(c) \/ PipeBreak(c)
      PROVE  Polled'
  BY <1>1, <1>3 DEF RefuseRole, Resume, Expire, HandleClose, PipeBreak, srvVars, readerVars
<1>4. ASSUME NEW c \in Conns, Register(c) PROVE Polled'
  <2>1. UNCHANGED <<ring, got, now, cursor, cut>> /\ entry' = c /\ bound[c] = None
    BY <1>4 DEF Register, HelloFirst, readerVars
  <2>2. ring[c] = <<>>
    BY <2>1 DEF Polled, Owned
  <2>3. Elements(ring'[entry']) = {}
    BY <2>1, <2>2 DEF Elements
  <2> QED BY <1>0, <2>1, <2>3 DEF Polled, CursorRead, SkippedShareMillisecond
<1>5. ASSUME NEW c \in Conns, OnStdout(c) PROVE Polled'
  BY <1>0, <1>5, OnStdoutKeepsPolled
<1>6. CASE Tick
  <2>1. UNCHANGED <<entry, ring, got, cursor, cut>> /\ now' = now + 1
    BY <1>6 DEF Tick, srvVars, readerVars
  <2>2. now \in Nat /\ cursor \in Nat
    BY DEF TypeOK, Times
  <2> QED BY <1>0, <2>1, <2>2 DEF Polled, CursorRead, SkippedShareMillisecond
<1>7. CASE Read
  BY <1>0, <1>7, ReadKeepsPolled
<1> QED BY <1>2, <1>3, <1>4, <1>5, <1>6, <1>7 DEF Next, DaemonStep, Accept

\* What a poll with the timestamp of the answer before never returns is what maxBytes
\* cut off, and what came in the same millisecond as something it had read
\* (ring-buffer.ts readSince).
THEOREM PollsSkipAMillisecond == Spec => []SkippedShareMillisecond
<1>1. Init => Shape /\ Growing /\ Sorted /\ Polled
  BY ShapeInit, GrowingInit, SortedInit, PolledInit
<1>2. TypeOK /\ TypeOK' /\ Shape /\ Growing /\ Sorted /\ Polled /\ [Next]_vars =>
        Shape' /\ Growing' /\ Sorted' /\ Polled'
  BY ShapeStep, GrowingStep, SortedStep, PolledStep
<1>3. Polled => SkippedShareMillisecond
  BY DEF Polled
<1> QED BY <1>1, <1>2, <1>3, TypeCorrect, PTL DEF Spec

-----------------------------------------------------------------------------
(* Gaps *)

\* Frames that follow each other have numbers that do, and no hello comes after output.
NoGap(s) ==
  \A i, j \in 1..Len(s) : j = i + 1 /\ s[i].t = "stdout" =>
    s[j].t = "stdout" /\ s[j].n = s[i].n + 1

Unbroken(r) == \A i, j \in 1..Len(r) : j = i + 1 /\ r[i].via = r[j].via => r[j].n = r[i].n + 1

LastOf(s) == s[Len(s)]

\* What cb prints goes to c, and the daemon may read it.
Live(c) == connected /\ c = socket /\ cEnd[c] = "open" /\ sEnd[c] = "open"

\* The last chunk in the ring of c's session came on c.
LastVia(c) == bound[c] # None /\ ring[bound[c]] # <<>> /\ LastOf(ring[bound[c]]).via = c

\* Nothing is written before the secret has been read.
Silent == ~secret => \A c \in Conns : bound[c] = None /\ toServer[c] = <<>>

ViaBound == \A o \in Conns : \A x \in Elements(ring[o]) : bound[x.via] # None

\* Ring, wire, queue and the next chunk to be printed follow each other on every
\* connection, up to the point where it is lost.
Tight ==
  /\ connected => socket # None /\ sEnd[socket] # "unused" /\ queue = <<>>
  /\ \A i \in 1..Len(queue) : queue[i] + Len(queue) = made + i
  /\ \A c \in Conns : sEnd[c] = "unused" => toServer[c] = <<>>
  /\ \A c \in Conns : NoGap(toServer[c])
  /\ \A c \in Conns : Live(c) /\ toServer[c] # <<>> /\ LastOf(toServer[c]).t = "stdout" =>
       LastOf(toServer[c]).n = made
  /\ \A c \in Conns : LastVia(c) /\ toServer[c] # <<>> /\ toServer[c][1].t = "stdout" =>
       toServer[c][1].n = LastOf(ring[bound[c]]).n + 1
  /\ \A c \in Conns : LastVia(c) /\ toServer[c] = <<>> /\ Live(c) => LastOf(ring[bound[c]]).n = made
  /\ \A o \in Conns : Unbroken(ring[o])

Straight == ~astray => Tight

LEMMA WindowKeepsNoGap ==
  ASSUME NEW s \in Seq(Frames), NEW t \in Seq(Frames), NEW k \in Nat, Window(s, t, k), NoGap(t)
  PROVE  NoGap(s)
<1>1. \A i \in 1..Len(s) : i + k \in 1..Len(t) /\ s[i] = t[i + k]
  BY DEF Window
<1> SUFFICES ASSUME NEW i \in 1..Len(s), NEW j \in 1..Len(s), j = i + 1, s[i].t = "stdout"
             PROVE  s[j].t = "stdout" /\ s[j].n = s[i].n + 1
  BY DEF NoGap
<1>2. j + k = (i + k) + 1
  OBVIOUS
<1>3. \A a, b \in 1..Len(t) : b = a + 1 /\ t[a].t = "stdout" => t[b].t = "stdout" /\ t[b].n = t[a].n + 1
  BY DEF NoGap
<1>4. /\ i + k \in 1..Len(t) /\ s[i] = t[i + k]
      /\ j + k \in 1..Len(t) /\ s[j] = t[j + k]
  BY <1>1
<1>5. t[i + k].t = "stdout"
  BY <1>4
<1>6. t[j + k].t = "stdout" /\ t[j + k].n = t[i + k].n + 1
  BY <1>2, <1>3, <1>4, <1>5
<1> QED BY <1>4, <1>6

\* A wire of the next numbers continues a wire.
LEMMA AppendKeepsNoGap ==
  ASSUME NEW s \in Seq(Frames), NoGap(s), NEW f \in Frames, f.t = "stdout",
         s # <<>> /\ LastOf(s).t = "stdout" => f.n = LastOf(s).n + 1
  PROVE  NoGap(Append(s, f))
<1> DEFINE a == Append(s, f)
<1>1. /\ Len(a) = Len(s) + 1 /\ a[Len(s) + 1] = f
      /\ \A i \in 1..Len(s) : a[i] = s[i]
  OBVIOUS
<1> HIDE DEF a
<1>2. ASSUME NEW i \in 1..Len(a), NEW j \in 1..Len(a), j = i + 1, a[i].t = "stdout"
      PROVE  a[j].t = "stdout" /\ a[j].n = a[i].n + 1
  <2>1. i \in 1..Len(s) /\ a[i] = s[i]
    BY <1>1, <1>2
  <2>2. CASE j = Len(s) + 1
    <3>1. i = Len(s) /\ s # <<>> /\ a[i] = LastOf(s) /\ a[j] = f
      BY <1>1, <1>2, <2>1, <2>2 DEF LastOf
    <3>2. LastOf(s).t = "stdout"
      BY <1>2, <3>1
    <3> QED BY <3>1, <3>2
  <2>3. CASE j \in 1..Len(s)
    BY <1>1, <1>2, <2>1, <2>3 DEF NoGap
  <2> QED BY <1>1, <2>2, <2>3
<1>3. NoGap(a)
  BY <1>2 DEF NoGap
<1> QED BY <1>3 DEF a

LEMMA PushKeepsUnbroken ==
  ASSUME NEW r \in Seq(Kept), Len(r) <= RingMax, NEW x \in Kept, Unbroken(r),
         r # <<>> /\ LastOf(r).via = x.via => x.n = LastOf(r).n + 1
  PROVE  Unbroken(Pushed(r, x)) /\ Pushed(r, x) # <<>> /\ LastOf(Pushed(r, x)) = x
<1> DEFINE p == Pushed(r, x)
           a == Append(r, x)
           k == Len(r) + 1 - Len(p)
<1>1. p \in Seq(Kept) /\ Len(p) <= Len(r) + 1 /\ p # <<>> /\ Window(p, a, k)
  BY PushedIs
<1>2. k \in Nat
  BY <1>1
<1>3. /\ Len(a) = Len(r) + 1 /\ a[Len(r) + 1] = x
      /\ \A i \in 1..Len(r) : a[i] = r[i]
  OBVIOUS
<1>4. p[Len(p)] = x
  BY PushedHas
<1> HIDE DEF a, p
<1>5. \A i \in 1..Len(p) : i + k \in 1..Len(a) /\ p[i] = a[i + k]
  BY <1>1, <1>2 DEF Window
<1>6. ASSUME NEW i \in 1..Len(a), NEW j \in 1..Len(a), j = i + 1, a[i].via = a[j].via
      PROVE  a[j].n = a[i].n + 1
  <2>1. i \in 1..Len(r) /\ a[i] = r[i]
    BY <1>3, <1>6
  <2>2. CASE j = Len(r) + 1
    <3>1. i = Len(r) /\ r # <<>> /\ a[i] = LastOf(r) /\ a[j] = x
      BY <1>3, <1>6, <2>1, <2>2 DEF LastOf
    <3> QED BY <1>6, <3>1
  <2>3. CASE j \in 1..Len(r)
    BY <1>3, <1>6, <2>1, <2>3 DEF Unbroken
  <2> QED BY <1>3, <2>2, <2>3
<1>7. ASSUME NEW i \in 1..Len(p), NEW j \in 1..Len(p), j = i + 1, p[i].via = p[j].via
      PROVE  p[j].n = p[i].n + 1
  <2>1. j + k = (i + k) + 1
    BY <1>2, <1>7
  <2> HIDE DEF k
  <2> QED BY <1>5, <1>6, <1>7, <2>1
<1>8. Unbroken(p)
  BY <1>7 DEF Unbroken
<1> QED BY <1>1, <1>4, <1>8 DEF p, LastOf

LEMMA SilentInit == Init => Silent /\ ViaBound /\ Straight
<1> SUFFICES ASSUME Init PROVE Silent /\ ViaBound /\ Tight
  BY DEF Straight
<1>1. \A c \in Conns : bound[c] = None /\ toServer[c] = <<>> /\ ring[c] = <<>>
  BY DEF Init
<1>2. queue = <<>> /\ ~connected
  BY DEF Init
<1>3. ViaBound
  BY <1>1 DEF ViaBound, Elements
<1>4. Tight
  BY <1>1, <1>2 DEF Tight, NoGap, Unbroken, LastVia
<1> QED BY <1>1, <1>3, <1>4 DEF Silent

\* Losing what is under way on a connection loses the end of what it brings.
LEMMA LossKeepsTight ==
  ASSUME TypeOK, TypeOK', Tight, UNCHANGED <<made, queue, bound, ring>>,
         connected' => connected /\ socket' = socket,
         \A c \in Conns : Window(toServer'[c], toServer[c], 0),
         \A c \in Conns : Live(c)' => Live(c) /\ toServer'[c] = toServer[c],
         \A c \in Conns : sEnd'[c] = "unused" => sEnd[c] = "unused"
  PROVE  Tight'
<1>1. \A c \in Conns : toServer[c] \in Seq(Frames) /\ toServer'[c] \in Seq(Frames)
  BY DEF TypeOK
<1>2. connected' => socket' # None /\ sEnd'[socket'] # "unused" /\ queue' = <<>>
  BY DEF Tight, TypeOK
<1>3. \A c \in Conns : /\ toServer[c] = <<>> => toServer'[c] = <<>>
                       /\ toServer'[c] # <<>> => toServer[c] # <<>> /\ toServer'[c][1] = toServer[c][1]
  <2> TAKE c \in Conns
  <2>1. Len(toServer'[c]) <= Len(toServer[c])
    BY <1>1 DEF Window
  <2>2. \A i \in 1..Len(toServer'[c]) : toServer'[c][i] = toServer[c][i]
    BY <1>1 DEF Window
  <2> QED BY <1>1, <2>1, <2>2
<1>4. \A c \in Conns : sEnd'[c] = "unused" => toServer'[c] = <<>>
  BY <1>3 DEF Tight
<1>5. \A c \in Conns : NoGap(toServer'[c])
  BY <1>1, WindowKeepsNoGap DEF Tight
<1>6. \A c \in Conns : LastVia(c)' = LastVia(c)
  BY DEF LastVia
<1>7. \A c \in Conns : Live(c)' /\ toServer'[c] # <<>> /\ LastOf(toServer'[c]).t = "stdout" =>
        LastOf(toServer'[c]).n = made'
  BY DEF Tight
<1>8. \A c \in Conns : LastVia(c)' /\ toServer'[c] # <<>> /\ toServer'[c][1].t = "stdout" =>
        toServer'[c][1].n = LastOf(ring'[bound'[c]]).n + 1
  BY <1>3, <1>6 DEF Tight
<1>9. \A c \in Conns : LastVia(c)' /\ toServer'[c] = <<>> /\ Live(c)' =>
        LastOf(ring'[bound'[c]]).n = made'
  BY <1>6 DEF Tight
<1> QED BY <1>2, <1>4, <1>5, <1>7, <1>8, <1>9 DEF Tight

\* The daemon reads a hello.
LEMMA HelloKeepsTight ==
  ASSUME TypeOK, TypeOK', Tight, NEW c \in Conns, UNCHANGED <<cbVars, cEnd, ring>>,
         sEnd[c] = "open", toServer[c] # <<>>, toServer'[c] = Tail(toServer[c]), ~LastVia(c)',
         \A d \in Conns \ {c} :
           /\ bound'[d] = bound[d]
           /\ toServer'[d] = toServer[d] \/ (toServer'[d] = <<>> /\ sEnd'[d] # "open"),
         \A d \in Conns : sEnd'[d] = sEnd[d] \/ (sEnd[d] = "open" /\ sEnd'[d] = "destroyed")
  PROVE  Tight'
<1>1. \A d \in Conns : toServer[d] \in Seq(Frames) /\ toServer'[d] \in Seq(Frames)
  BY DEF TypeOK
<1>2. UNCHANGED <<made, queue, connected, socket>>
  BY DEF cbVars
<1>3. connected' => socket' # None /\ sEnd'[socket'] # "unused" /\ queue' = <<>>
  BY <1>2 DEF Tight, TypeOK
<1>4. \A d \in Conns : Live(d)' => Live(d)
  BY <1>2 DEF Live
<1>5. /\ Window(toServer'[c], toServer[c], 1)
      /\ toServer'[c] # <<>> => LastOf(toServer'[c]) = LastOf(toServer[c])
  BY <1>1 DEF Window, LastOf
<1>6. NoGap(toServer'[c])
  BY <1>1, <1>5, WindowKeepsNoGap DEF Tight
<1>7. NoGap(<<>>)
  BY DEF NoGap
<1>8. \A d \in Conns : NoGap(toServer'[d])
  BY <1>6, <1>7 DEF Tight
<1>9. \A d \in Conns : sEnd'[d] = "unused" => toServer'[d] = <<>>
  BY DEF Tight
<1>10. \A d \in Conns : Live(d)' /\ toServer'[d] # <<>> /\ LastOf(toServer'[d]).t = "stdout" =>
         LastOf(toServer'[d]).n = made'
  BY <1>2, <1>4, <1>5 DEF Tight
<1>11. \A d \in Conns \ {c} : LastVia(d)' = LastVia(d)
  BY DEF LastVia
<1>12. \A d \in Conns : LastVia(d)' /\ toServer'[d] # <<>> /\ toServer'[d][1].t = "stdout" =>
         toServer'[d][1].n = LastOf(ring'[bound'[d]]).n + 1
  BY <1>11 DEF Tight
<1>13. \A d \in Conns : LastVia(d)' /\ toServer'[d] = <<>> /\ Live(d)' =>
         LastOf(ring'[bound'[d]]).n = made'
  <2> TAKE d \in Conns
  <2>1. Live(d)' => sEnd'[d] = "open"
    BY DEF Live
  <2> QED BY <1>2, <1>4, <1>11, <2>1 DEF Tight
<1>14. \A i \in 1..Len(queue') : queue'[i] + Len(queue') = made' + i
  BY <1>2 DEF Tight
<1>15. \A o \in Conns : Unbroken(ring'[o])
  BY DEF Tight
<1> QED BY <1>3, <1>8, <1>9, <1>10, <1>12, <1>13, <1>14, <1>15 DEF Tight

LEMMA OnStdoutKeepsTight ==
  ASSUME TypeOK, TypeOK', Growing, Tight, NEW c \in Conns, OnStdout(c)
  PROVE  Tight'
<1> DEFINE s == toServer[c]
           o == bound[c]
<1>1. /\ s \in Seq(Frames) /\ s # <<>> /\ s[1].t = "stdout" /\ Frame(c) = s[1]
      /\ toServer' = [toServer EXCEPT ![c] = Tail(s)]
      /\ UNCHANGED <<cbVars, cEnd, sEnd, bound>> /\ o # None
  BY DEF OnStdout, Readable, Frame, TypeOK
<1>2. PICK x \in Kept :
        /\ x = [n |-> Frame(c).n, at |-> now, via |-> c]
        /\ ring' = [ring EXCEPT ![o] = Pushed(@, x)]
        /\ o \in Conns
  BY OnStdoutPushes
<1>3. x.n = s[1].n /\ x.via = c
  BY <1>1, <1>2
<1>4. UNCHANGED <<made, queue, connected, socket>>
  BY <1>1 DEF cbVars
<1>5. ring[o] \in Seq(Kept) /\ Len(ring[o]) <= RingMax
  BY <1>2 DEF TypeOK
<1>6. ring[o] # <<>> /\ LastOf(ring[o]).via = c => s[1].n = LastOf(ring[o]).n + 1
  BY <1>1, <1>2 DEF Tight, LastVia
<1>7. /\ ring'[o] = Pushed(ring[o], x)
      /\ \A p \in Conns \ {o} : ring'[p] = ring[p]
  BY <1>2 DEF TypeOK
<1>8. Unbroken(ring[o])
  BY <1>2 DEF Tight
<1>9. Unbroken(ring'[o]) /\ ring'[o] # <<>> /\ LastOf(ring'[o]) = x
  BY <1>3, <1>5, <1>6, <1>7, <1>8, PushKeepsUnbroken
<1>10. /\ toServer'[c] = Tail(s)
       /\ \A d \in Conns \ {c} : toServer'[d] = toServer[d]
  BY <1>1 DEF TypeOK
<1>11. NoGap(s)
  BY DEF Tight
<1> HIDE DEF s, o
<1>12. /\ Tail(s) \in Seq(Frames)
       /\ Window(Tail(s), s, 1)
       /\ Tail(s) # <<>> => LastOf(Tail(s)) = LastOf(s) /\ 2 \in 1..Len(s) /\ Tail(s)[1] = s[2]
       /\ Tail(s) = <<>> => LastOf(s) = s[1]
       /\ 1 \in 1..Len(s)
  <2> DEFINE u == Tail(s)
  <2>1. u \in Seq(Frames) /\ Len(u) = Len(s) - 1 /\ Len(s) \in Nat \ {0} /\ Len(u) \in Nat
    BY <1>1
  <2>2. \A i \in 1..Len(u) : i + 1 \in 1..Len(s) /\ u[i] = s[i + 1]
    BY <1>1
  <2>3. u # <<>> => Len(u) \in 1..Len(u) /\ 1 \in 1..Len(u)
    BY <2>1
  <2> HIDE DEF u
  <2>4. u = <<>> => Len(s) = 1
    BY <2>1
  <2>5. Window(u, s, 1)
    BY <2>1, <2>2 DEF Window
  <2>6. u # <<>> => u[Len(u)] = s[Len(s)] /\ 2 \in 1..Len(s) /\ u[1] = s[2]
    BY <2>1, <2>2, <2>3
  <2>7. u = <<>> => s[Len(s)] = s[1]
    BY <2>4
  <2> QED BY <2>1, <2>5, <2>6, <2>7 DEF LastOf, u
<1>13. NoGap(Tail(s))
  BY <1>1, <1>11, <1>12, WindowKeepsNoGap
<1>14. Tail(s) # <<>> => Tail(s)[1].n = s[1].n + 1
  BY <1>1, <1>11, <1>12 DEF NoGap
<1>15. \A d \in Conns : Live(d)' = Live(d)
  BY <1>1, <1>4 DEF Live
<1>16. Live(c) /\ LastOf(s).t = "stdout" => LastOf(s).n = made
  BY <1>1 DEF Tight, s
<1>17. \A d \in Conns \ {c} : LastVia(d)' => LastVia(d) /\ bound[d] # o
  BY <1>1, <1>3, <1>7, <1>9 DEF LastVia, TypeOK
<1>18. connected' => socket' # None /\ sEnd'[socket'] # "unused" /\ queue' = <<>>
  BY <1>1, <1>4 DEF Tight
<1>19. \A i \in 1..Len(queue') : queue'[i] + Len(queue') = made' + i
  BY <1>4 DEF Tight
<1>20. \A d \in Conns : sEnd'[d] = "unused" => toServer'[d] = <<>>
  BY <1>1, <1>10, <1>12 DEF Tight, s
<1>21. \A d \in Conns : NoGap(toServer'[d])
  BY <1>10, <1>13 DEF Tight
<1>22. \A d \in Conns : Live(d)' /\ toServer'[d] # <<>> /\ LastOf(toServer'[d]).t = "stdout" =>
         LastOf(toServer'[d]).n = made'
  BY <1>4, <1>10, <1>12, <1>15, <1>16 DEF Tight
<1>23. \A d \in Conns : LastVia(d)' /\ toServer'[d] # <<>> /\ toServer'[d][1].t = "stdout" =>
         toServer'[d][1].n = LastOf(ring'[bound'[d]]).n + 1
  <2> TAKE d \in Conns
  <2>1. CASE d = c
    BY <1>1, <1>3, <1>9, <1>10, <1>14, <2>1 DEF o
  <2>2. CASE d # c
    <3>1. LastVia(d)' => ring'[bound'[d]] = ring[bound[d]]
      BY <1>1, <1>7, <1>17, <2>2 DEF TypeOK, LastVia
    <3> QED BY <1>10, <1>17, <2>2, <3>1 DEF Tight
  <2> QED BY <2>1, <2>2
<1>24. \A d \in Conns : LastVia(d)' /\ toServer'[d] = <<>> /\ Live(d)' =>
         LastOf(ring'[bound'[d]]).n = made'
  <2> TAKE d \in Conns
  <2>1. CASE d = c
    BY <1>1, <1>3, <1>4, <1>9, <1>10, <1>12, <1>15, <1>16, <2>1 DEF o
  <2>2. CASE d # c
    <3>1. LastVia(d)' => ring'[bound'[d]] = ring[bound[d]]
      BY <1>1, <1>7, <1>17, <2>2 DEF TypeOK, LastVia
    <3> QED BY <1>4, <1>10, <1>15, <1>17, <2>2, <3>1 DEF Tight
  <2> QED BY <2>1, <2>2
<1>25. \A p \in Conns : Unbroken(ring'[p])
  BY <1>7, <1>9 DEF Tight
<1> QED BY <1>18, <1>19, <1>20, <1>21, <1>22, <1>23, <1>24, <1>25 DEF Tight

\* An append to the wire of the current connection.
LEMMA SendStdoutKeepsTight ==
  ASSUME TypeOK, TypeOK', Shape, Tight, SendStdout
  PROVE  Tight'
<1>1. /\ made' = made + 1 /\ made \in Nat /\ made' \in Chunks
      /\ UNCHANGED <<socket, connected, cEnd, sEnd, bound, ring>>
  BY BoundsAreConns DEF SendStdout, srvVars, TypeOK, Chunks
<1>2. \A c \in Conns : LastVia(c)' = LastVia(c) /\ Live(c)' = Live(c)
  BY <1>1 DEF LastVia, Live
<1>3. ASSUME connected PROVE Tight'
  <2>1. /\ socket \in Conns /\ sEnd[socket] # "unused" /\ queue = <<>> /\ queue' = queue
        /\ \A c \in Conns : c # socket => toServer'[c] = toServer[c]
        /\ ~Writable(socket) => toServer'[socket] = toServer[socket]
        /\ Writable(socket) => toServer'[socket] = Append(toServer[socket], Stdout(made + 1))
    BY <1>3, StdoutWrites DEF Tight
  <2>2. CASE ~Writable(socket)
    <3>1. \A c \in Conns : ~Live(c) /\ toServer'[c] = toServer[c]
      BY <2>1, <2>2 DEF Live, Writable
    <3> QED BY <1>1, <1>2, <2>1, <3>1 DEF Tight
  <2>3. CASE Writable(socket)
    <3> DEFINE s == toServer[socket]
               f == Stdout(made + 1)
    <3>1. cEnd[socket] # "dialing"
      BY <2>1 DEF Shape, Opened
    <3>2. Live(socket) /\ sEnd[socket] = "open"
      BY <1>3, <2>1, <2>3, <3>1 DEF Live, Writable
    <3>3. f \in Frames /\ f.t = "stdout" /\ f.n = made + 1
      BY <1>1, FramesAreTyped
    <3>4. s \in Seq(Frames) /\ NoGap(s) /\ toServer'[socket] = Append(s, f)
      BY <2>1, <2>3 DEF TypeOK, Tight
    <3>5. s # <<>> /\ LastOf(s).t = "stdout" => LastOf(s).n = made
      BY <2>1, <3>2 DEF Tight
    <3> HIDE DEF s, f
    <3>6. /\ Append(s, f) # <<>> /\ LastOf(Append(s, f)) = f
          /\ s # <<>> => Append(s, f)[1] = s[1]
          /\ s = <<>> => Append(s, f)[1] = f
      BY <3>3, <3>4 DEF LastOf
    <3>7. NoGap(Append(s, f))
      BY <3>3, <3>4, <3>5, AppendKeepsNoGap
    <3>8. \A c \in Conns : c # socket => ~Live(c)
      BY DEF Live
    <3>9. \A c \in Conns : NoGap(toServer'[c])
      BY <2>1, <3>4, <3>7 DEF Tight
    <3>10. \A c \in Conns : sEnd'[c] = "unused" => toServer'[c] = <<>>
      BY <1>1, <2>1, <3>2 DEF Tight
    <3>11. \A c \in Conns : Live(c)' /\ toServer'[c] # <<>> /\ LastOf(toServer'[c]).t = "stdout" =>
             LastOf(toServer'[c]).n = made'
      BY <1>1, <1>2, <3>3, <3>4, <3>6, <3>8
    <3>12. LastVia(socket) /\ s = <<>> => LastOf(ring[bound[socket]]).n = made
      BY <2>1, <3>2 DEF Tight, s
    <3>13. LastVia(socket) /\ s # <<>> /\ s[1].t = "stdout" => s[1].n = LastOf(ring[bound[socket]]).n + 1
      BY <2>1 DEF Tight, s
    <3>14. \A c \in Conns : LastVia(c)' /\ toServer'[c] # <<>> /\ toServer'[c][1].t = "stdout" =>
             toServer'[c][1].n = LastOf(ring'[bound'[c]]).n + 1
      <4> TAKE c \in Conns
      <4>1. CASE c = socket
        BY <1>1, <1>2, <3>3, <3>4, <3>6, <3>12, <3>13, <4>1
      <4>2. CASE c # socket
        BY <1>1, <1>2, <2>1, <4>2 DEF Tight
      <4> QED BY <4>1, <4>2
    <3>15. \A c \in Conns : LastVia(c)' /\ toServer'[c] = <<>> /\ Live(c)' =>
             LastOf(ring'[bound'[c]]).n = made'
      BY <1>2, <3>4, <3>6, <3>8
    <3>16. connected' => socket' # None /\ sEnd'[socket'] # "unused" /\ queue' = <<>>
      BY <1>1, <2>1 DEF Tight
    <3>17. \A i \in 1..Len(queue') : queue'[i] + Len(queue') = made' + i
      BY <2>1
    <3>18. \A o \in Conns : Unbroken(ring'[o])
      BY <1>1 DEF Tight
    <3> QED BY <3>9, <3>10, <3>11, <3>14, <3>15, <3>16, <3>17, <3>18 DEF Tight
  <2> QED BY <2>2, <2>3
<1>4. ASSUME ~connected PROVE Tight'
  <2>1. queue' = Enqueued(queue, made + 1) /\ toServer' = toServer
    BY <1>4 DEF SendStdout
  <2> DEFINE a == Append(queue, made + 1)
             k == Len(queue) + 1 - Len(queue')
  <2>2. queue \in Seq(Chunks) /\ Len(queue) <= QueueMax /\ made + 1 \in Chunks
    BY <1>1 DEF TypeOK
  <2>3. /\ queue' \in Seq(Chunks) /\ Len(queue') <= Len(queue) + 1
        /\ Window(queue', a, k)
    BY <2>1, <2>2, EnqueuedIs
  <2>4. \A i \in 1..(Len(queue) + 1) : a[i] + Len(queue) + 1 = made + 1 + i
    <3> TAKE i \in 1..(Len(queue) + 1)
    <3>1. CASE i = Len(queue) + 1
      <4>1. a[i] = made + 1
        BY <2>2, <3>1
      <4> QED BY <1>1, <2>2, <3>1, <4>1
    <3>2. CASE i \in 1..Len(queue)
      <4>1. a[i] = queue[i] /\ queue[i] \in Chunks
        BY <2>2, <3>2
      <4>2. queue[i] + Len(queue) = made + i
        BY <3>2 DEF Tight
      <4>3. queue[i] \in Nat
        BY <4>1, BoundsAreConns DEF Chunks
      <4> QED BY <1>1, <2>2, <4>1, <4>2, <4>3
    <3> QED BY <2>2, <3>1, <3>2
  <2>5. \A i \in 1..Len(queue') : queue'[i] + Len(queue') = made' + i
    <3> TAKE i \in 1..Len(queue')
    <3>1. k \in Nat /\ Len(a) = Len(queue) + 1
      BY <2>2, <2>3
    <3>2. i + k \in 1..(Len(queue) + 1) /\ queue'[i] = a[i + k]
      BY <2>3, <3>1 DEF Window
    <3>3. queue'[i] \in Nat
      <4>1. queue'[i] \in Chunks
        BY <2>3
      <4> QED BY <4>1, BoundsAreConns DEF Chunks
    <3> HIDE DEF a
    <3>4. queue'[i] + Len(queue) + 1 = made + 1 + (i + k)
      BY <2>4, <3>2
    <3>5. Len(queue) \in Nat /\ Len(queue') \in Nat /\ i \in Nat
      BY <2>2, <2>3
    <3>6. k + Len(queue') = Len(queue) + 1
      BY <3>5
    <3> HIDE DEF k
    <3>7. ASSUME NEW x \in Nat, NEW m \in Nat, NEW n \in Nat, NEW l \in Nat, NEW y \in Nat,
                 x + n + 1 = made + 1 + (i + y), y + l = n + 1
          PROVE  x + l = made + 1 + i
      BY <1>1, <3>5, <3>7
    <3>8. queue'[i] + Len(queue') = made + 1 + i
      BY <3>1, <3>3, <3>4, <3>5, <3>6, <3>7
    <3> QED BY <1>1, <3>8
  <2>6. ~connected' /\ \A c \in Conns : ~Live(c)'
    BY <1>1, <1>2, <1>4 DEF Live
  <2>7. \A c \in Conns : NoGap(toServer'[c]) /\ (sEnd'[c] = "unused" => toServer'[c] = <<>>)
    BY <1>1, <2>1 DEF Tight
  <2>8. \A c \in Conns : LastVia(c)' /\ toServer'[c] # <<>> /\ toServer'[c][1].t = "stdout" =>
          toServer'[c][1].n = LastOf(ring'[bound'[c]]).n + 1
    BY <1>1, <1>2, <2>1 DEF Tight
  <2>9. \A o \in Conns : Unbroken(ring'[o])
    BY <1>1 DEF Tight
  <2> QED BY <2>5, <2>6, <2>7, <2>8, <2>9 DEF Tight
<1> QED BY <1>3, <1>4

\* What the current socket is sent when it greets has no gap and ends with the last
\* chunk printed.
LEMMA GreetingIsTight ==
  ASSUME TypeOK, Tight
  PROVE  /\ NoGap(Greeting(TRUE))
         /\ LastOf(Greeting(TRUE)).t = "stdout" => LastOf(Greeting(TRUE)).n = made
<1> DEFINE h == Hello(isReconnect)
           d == Drained(queue)
           g == <<h>> \o d
<1>1. h \in Frames /\ h.t = "hello"
  BY FramesAreTyped DEF TypeOK
<1>2. /\ d \in Seq(Frames) /\ Len(d) = Len(queue) /\ queue \in Seq(Chunks)
      /\ \A i \in 1..Len(queue) : d[i].t = "stdout" /\ d[i].n = queue[i]
  <2>1. queue \in Seq(Chunks)
    BY DEF TypeOK
  <2>2. \A i \in 1..Len(queue) : queue[i] \in Chunks
    BY <2>1
  <2> QED BY <2>1, <2>2, DrainedIs, FramesAreTyped
<1>3. Greeting(TRUE) = g
  BY DEF Greeting
<1> HIDE DEF h, d
<1>4. /\ g \in Seq(Frames) /\ Len(g) = Len(queue) + 1 /\ g[1] = h
      /\ \A i \in 1..Len(queue) : g[i + 1] = d[i]
  BY <1>1, <1>2
<1> HIDE DEF g
<1>5. made \in Nat /\ \A i \in 1..Len(queue) : queue[i] \in Nat /\ queue[i] + Len(queue) = made + i
  <2>1. \A i \in 1..Len(queue) : queue[i] \in Chunks
    BY <1>2
  <2>2. Chunks \subseteq Nat /\ made \in Nat
    BY BoundsAreConns DEF Chunks, TypeOK
  <2>3. \A i \in 1..Len(queue) : queue[i] + Len(queue) = made + i
    BY DEF Tight
  <2> QED BY <2>1, <2>2, <2>3
<1>6. \A i \in 1..Len(g) : \/ i = 1 /\ g[i].t = "hello"
                           \/ i - 1 \in 1..Len(queue) /\ g[i].t = "stdout" /\ g[i].n = queue[i - 1]
  <2> TAKE i \in 1..Len(g)
  <2>1. CASE i = 1
    BY <1>1, <1>4, <2>1
  <2>2. CASE i # 1
    <3>1. i - 1 \in 1..Len(queue) /\ (i - 1) + 1 = i
      BY <1>2, <1>4, <2>2
    <3>2. g[(i - 1) + 1] = d[i - 1]
      BY <1>4, <3>1
    <3> QED BY <1>2, <3>1, <3>2
  <2> QED BY <2>1, <2>2
<1>7. NoGap(g)
  <2> SUFFICES ASSUME NEW i \in 1..Len(g), NEW j \in 1..Len(g), j = i + 1, g[i].t = "stdout"
               PROVE  g[j].t = "stdout" /\ g[j].n = g[i].n + 1
    BY DEF NoGap
  <2>1. i - 1 \in 1..Len(queue) /\ g[i].n = queue[i - 1]
    BY <1>6
  <2>2. j - 1 \in 1..Len(queue) /\ g[j].t = "stdout" /\ g[j].n = queue[j - 1] /\ j - 1 = (i - 1) + 1
    BY <1>6, <2>1
  <2>3. Len(queue) \in Nat /\ i - 1 \in Nat
    BY <1>2, <2>1
  <2>4. queue[i - 1] \in Nat /\ queue[i - 1] + Len(queue) = made + (i - 1)
    BY <1>5, <2>1
  <2>5. queue[j - 1] \in Nat /\ queue[j - 1] + Len(queue) = made + (j - 1)
    BY <1>5, <2>2
  <2>6. queue[j - 1] = queue[i - 1] + 1
    BY <1>5, <2>2, <2>3, <2>4, <2>5
  <2> QED BY <2>1, <2>2, <2>6
<1>8. LastOf(g).t = "stdout" => LastOf(g).n = made
  <2> HAVE LastOf(g).t = "stdout"
  <2>1. Len(g) \in 1..Len(g) /\ Len(g) - 1 = Len(queue)
    BY <1>2, <1>4
  <2>2. Len(queue) \in 1..Len(queue) /\ LastOf(g).n = queue[Len(queue)]
    BY <1>6, <2>1 DEF LastOf
  <2> QED BY <1>2, <1>5, <2>2
<1> QED BY <1>3, <1>7, <1>8

\* The sockets of cs are the current one, and it has been sent nothing.
LEMMA GreetKeepsTight ==
  ASSUME TypeOK, TypeOK', Tight, NEW cs \in Seq(Conns), Greet(cs), cs # <<>>,
         UNCHANGED <<made, socket, bound, ring>>, socket \in Conns,
         \A i \in 1..Len(cs) : cs[i] = socket,
         toServer[socket] = <<>>, bound[socket] = None,
         sEnd'[socket] # "unused",
         \A c \in Conns : sEnd'[c] = "unused" => sEnd[c] = "unused"
  PROVE  Tight'
<1>1. queue' = <<>> /\ connected'
  BY DEF Greet, AfterDrain
<1>2. cs[1] = socket
  OBVIOUS
<1>3. ASSUME NEW c \in Conns, c # socket PROVE toServer'[c] = toServer[c]
  <2>1. toServer'[c] = toServer[c] \/ \E i \in 1..Len(cs) : cs[i] = c
    BY GreetWrites
  <2> QED BY <1>3, <2>1
<1>4. toServer'[socket] = <<>> \/ toServer'[socket] = Greeting(TRUE)
  <2>1. CASE toServer'[socket] = toServer[socket]
    BY <2>1
  <2>2. CASE toServer'[socket] = toServer[socket] \o Greeting(socket = cs[1])
    <3>1. (socket = cs[1]) = TRUE
      BY <1>2
    <3>2. Greeting(socket = cs[1]) = Greeting(TRUE)
      BY <3>1
    <3>3. Greeting(TRUE) \in Seq(Frames)
      BY GreetingIsTyped
    <3>4. <<>> \o Greeting(TRUE) = Greeting(TRUE)
      BY <3>3
    <3> QED BY <2>2, <3>2, <3>4
  <2> QED BY <2>1, <2>2, GreetWrites
<1>5. NoGap(<<>>)
  BY DEF NoGap
<1>6. \A c \in Conns : NoGap(toServer'[c])
  BY <1>3, <1>4, <1>5, GreetingIsTight DEF Tight
<1>7. \A c \in Conns : Live(c)' => c = socket
  BY DEF Live
<1>8. \A c \in Conns : Live(c)' /\ toServer'[c] # <<>> /\ LastOf(toServer'[c]).t = "stdout" =>
        LastOf(toServer'[c]).n = made'
  BY <1>4, <1>7, GreetingIsTight
<1>9. \A c \in Conns : LastVia(c)' = LastVia(c)
  BY DEF LastVia
<1>10. ~LastVia(socket)
  BY DEF LastVia
<1>11. \A c \in Conns : LastVia(c)' /\ toServer'[c] # <<>> /\ toServer'[c][1].t = "stdout" =>
         toServer'[c][1].n = LastOf(ring'[bound'[c]]).n + 1
  BY <1>3, <1>9, <1>10 DEF Tight
<1>12. \A c \in Conns : LastVia(c)' /\ toServer'[c] = <<>> /\ Live(c)' =>
         LastOf(ring'[bound'[c]]).n = made'
  BY <1>7, <1>9, <1>10
<1>13. \A c \in Conns : sEnd'[c] = "unused" => toServer'[c] = <<>>
  BY <1>3 DEF Tight
<1>14. \A o \in Conns : Unbroken(ring'[o])
  BY DEF Tight
<1>15. socket' # None /\ sEnd'[socket'] # "unused"
  BY DEF None, Conns
<1> QED BY <1>1, <1>6, <1>8, <1>11, <1>12, <1>13, <1>14, <1>15 DEF Tight

LEMMA SilentStep == TypeOK /\ Shape /\ Silent /\ [Next]_vars => Silent'
<1> SUFFICES ASSUME TypeOK, Shape, Silent, [Next]_vars, ~secret'
             PROVE  \A c \in Conns : bound'[c] = None /\ toServer'[c] = <<>>
  BY DEF Silent
<1>1. ASSUME ~secret, UNCHANGED bound, \A c \in Conns : toServer'[c] \in {toServer[c], <<>>}
      PROVE  \A c \in Conns : bound'[c] = None /\ toServer'[c] = <<>>
  BY <1>1 DEF Silent
<1>2. ASSUME ~secret, Moves
      PROVE  \A c \in Conns : bound'[c] = None /\ toServer'[c] = <<>>
  BY <1>2 DEF Moves, Silent, Feeding
<1>3. CASE Connect \/ DialFails \/ SecretGivesUp \/ OnClose \/ SweepDead \/ Tick \/ Read \/ UNCHANGED vars
  <2>1. UNCHANGED <<secret, bound, toServer>>
    BY <1>3 DEF Connect, DialFails, SecretGivesUp, OnClose, SweepDead, Tick, Read, vars, cbVars,
                netVars, srvVars
  <2> QED BY <1>1, <2>1
<1>4. CASE SendStdout
  <2>1. ~connected /\ secret' = secret /\ bound' = bound
    BY <1>4 DEF SendStdout, srvVars, Shape, Secrets
  <2>2. toServer' = toServer
    BY <1>4, <2>1 DEF SendStdout
  <2> QED BY <1>1, <2>1, <2>2
<1>5. CASE OnConnect
  BY <1>1, <1>5 DEF OnConnect, Greet, srvVars
<1>6. CASE SecretRead
  BY <1>6 DEF SecretRead, Greet
<1>7. CASE Watchdog
  BY <1>7 DEF Watchdog, cbVars, Shape, Secrets
<1>8. ASSUME NEW c \in Conns, DaemonActs(c)
      PROVE  \A d \in Conns : bound'[d] = None /\ toServer'[d] = <<>>
  BY <1>2, <1>8, DaemonActsMove DEF cbVars
<1>9. ASSUME NEW c \in Conns, PipeBreak(c)
      PROVE  \A d \in Conns : bound'[d] = None /\ toServer'[d] = <<>>
  <2>1. ~secret
    BY <1>9 DEF PipeBreak, cbVars
  <2> QED BY <1>2, <1>9, <2>1, PipeBreakMoves
<1>10. CASE DaemonDies
  <2>1. ~secret
    BY <1>10 DEF DaemonDies, cbVars
  <2> QED BY <1>2, <1>10, <2>1, DaemonDiesMoves
<1> QED
  BY <1>3, <1>4, <1>5, <1>6, <1>7, <1>8, <1>9, <1>10
  DEF Next, CbStep, CbFault, DaemonStep, Accept, DaemonActs

LEMMA ViaBoundStep ==
  TypeOK /\ TypeOK' /\ Growing /\ ViaBound /\ [Next]_vars => ViaBound'
<1> SUFFICES ASSUME TypeOK, TypeOK', Growing, ViaBound, [Next]_vars PROVE ViaBound'
  OBVIOUS
<1>1. \A o \in Conns : \A x \in Elements(ring[o]) : x.via \in Conns
  <2> TAKE o \in Conns
  <2> TAKE x \in Elements(ring[o])
  <2>1. PICK i \in 1..Len(ring[o]) : x = ring[o][i]
    BY DEF Elements
  <2>2. ring[o] \in Seq(Kept)
    BY DEF TypeOK
  <2>3. x \in Kept
    BY <2>1, <2>2
  <2> QED BY <2>3 DEF Kept
<1>2. ASSUME ring' = ring, \A d \in Conns : bound[d] # None => bound'[d] # None PROVE ViaBound'
  BY <1>1, <1>2 DEF ViaBound
<1>3. CASE CbStep \/ CbFault \/ Read \/ Tick \/ SweepDead \/ DaemonDies \/ UNCHANGED vars
  BY <1>2, <1>3 DEF CbStep, CbFault, Connect, OnConnect, SecretRead, OnClose, SendStdout, DialFails,
       SecretGivesUp, Watchdog, Read, Tick, SweepDead, DaemonDies, vars, srvVars
<1>4. ASSUME NEW c \in Conns, RefuseRole(c) \/ Expire(c) \/ HandleClose(c) \/ PipeBreak(c)
      PROVE  ViaBound'
  BY <1>2, <1>4 DEF RefuseRole, Expire, HandleClose, PipeBreak, srvVars
<1>5. ASSUME NEW c \in Conns, Resume(c) \/ Register(c) PROVE ViaBound'
  <2>1. ring' = ring /\ \A d \in Conns \ {c} : bound'[d] = bound[d]
    BY <1>5 DEF Resume, Register, TypeOK
  <2>2. bound[c] = None
    BY <1>5 DEF Resume, Register, HelloFirst
  <2> QED BY <1>2, <2>1, <2>2
<1>6. ASSUME NEW c \in Conns, OnStdout(c) PROVE ViaBound'
  <2>1. PICK x \in Kept :
          /\ x = [n |-> Frame(c).n, at |-> now, via |-> c]
          /\ ring' = [ring EXCEPT ![bound[c]] = Pushed(@, x)]
          /\ bound[c] \in Conns
    BY <1>6, OnStdoutPushes
  <2>2. bound' = bound /\ bound[c] # None /\ x.via = c
    BY <1>6, <2>1 DEF OnStdout
  <2>3. ASSUME NEW o \in Conns, NEW y \in Elements(ring'[o]) PROVE bound[y.via] # None
    <3>1. CASE y \in Elements(ring[o])
      BY <3>1 DEF ViaBound
    <3>2. CASE y \notin Elements(ring[o])
      <4>1. o = bound[c]
        BY <2>1, <2>3, <3>2 DEF TypeOK
      <4>2. ring'[o] = Pushed(ring[o], x) /\ ring[o] \in Seq(Kept) /\ Len(ring[o]) <= RingMax
        BY <2>1, <4>1 DEF TypeOK
      <4>3. y = x
        BY <2>3, <3>2, <4>2, PushedHas
      <4> QED BY <2>2, <4>3
    <3> QED BY <3>1, <3>2
  <2> QED BY <2>2, <2>3 DEF ViaBound
<1> QED BY <1>3, <1>4, <1>5, <1>6 DEF Next, DaemonStep, Accept

LEMMA StraightStep ==
  /\ TypeOK /\ TypeOK' /\ Shape /\ Growing /\ Owned /\ Silent /\ ViaBound /\ Straight
  /\ [Next]_vars
  => Straight'
<1> SUFFICES ASSUME TypeOK, TypeOK', Shape, Growing, Owned, Silent, ViaBound, Straight,
                    [Next]_vars, ~astray'
             PROVE  Tight'
  BY DEF Straight
<1>1. ASSUME ~astray, UNCHANGED <<made, queue, bound, ring>>,
             connected' => connected /\ socket' = socket,
             \A c \in Conns : toServer'[c] = toServer[c] \/ toServer'[c] = <<>>,
             \A c \in Conns : sEnd'[c] = "open" => sEnd[c] = "open" /\ toServer'[c] = toServer[c],
             \A c \in Conns : cEnd'[c] = "open" => cEnd[c] = "open",
             \A c \in Conns : sEnd'[c] = "unused" => sEnd[c] = "unused"
      PROVE  Tight'
  <2>1. \A c \in Conns : Window(toServer'[c], toServer[c], 0)
    <3> TAKE c \in Conns
    <3>1. toServer[c] \in Seq(Frames) /\ Len(toServer[c]) \in Nat
      BY DEF TypeOK
    <3>2. CASE toServer'[c] = toServer[c]
      BY <3>1, <3>2 DEF Window
    <3>3. CASE toServer'[c] = <<>>
      BY <3>1, <3>3 DEF Window
    <3> QED BY <1>1, <3>2, <3>3
  <2>2. \A c \in Conns : Live(c)' => Live(c) /\ toServer'[c] = toServer[c]
    BY <1>1 DEF Live
  <2>3. Tight
    BY <1>1 DEF Straight
  <2> QED BY <1>1, <2>1, <2>2, <2>3, LossKeepsTight
<1>2. ASSUME ~astray, UNCHANGED <<made, queue, bound, ring, toServer>>, ~connected',
             \A c \in Conns : sEnd'[c] = "unused" => sEnd[c] = "unused"
      PROVE  Tight'
  <2>1. \A c \in Conns : Window(toServer'[c], toServer[c], 0)
    BY <1>2 DEF Window, TypeOK
  <2>2. \A c \in Conns : ~Live(c)'
    BY <1>2 DEF Live
  <2>3. Tight
    BY <1>2 DEF Straight
  <2> QED BY <1>2, <2>1, <2>2, <2>3, LossKeepsTight
<1>3. CASE SendStdout
  <2>1. Tight
    BY <1>3 DEF SendStdout, Straight
  <2> QED BY <1>3, <2>1, SendStdoutKeepsTight
<1>4. CASE Connect
  <2>1. ~astray /\ UNCHANGED <<made, queue, connected, bound, ring, toServer, sEnd>> /\ socket = None
    BY <1>4 DEF Connect, srvVars, Shape, Opened
  <2>2. ~connected'
    BY <2>1 DEF Straight, Tight
  <2> QED BY <1>2, <2>1, <2>2
<1>5. CASE SecretGivesUp \/ OnClose
  <2>1. /\ ~astray /\ ~connected'
        /\ UNCHANGED <<made, queue, bound, ring, toServer, sEnd>>
    BY <1>5 DEF SecretGivesUp, OnClose, srvVars
  <2> QED BY <1>2, <2>1
<1>6. CASE DialFails \/ SweepDead \/ Tick \/ Read \/ UNCHANGED vars
  <2>1. UNCHANGED <<astray, made, queue, connected, socket, bound, ring, toServer, sEnd>>
    BY <1>6 DEF DialFails, SweepDead, Tick, Read, vars, cbVars, netVars, srvVars
  <2>2. \A c \in Conns : cEnd'[c] = "open" => cEnd[c] = "open"
    BY <1>6 DEF DialFails, SweepDead, Tick, Read, vars, netVars, TypeOK
  <2> QED BY <1>1, <2>1, <2>2
<1>7. CASE OnConnect
  <2>1. /\ socket \in Conns /\ sEnd[socket] = "unused" /\ bound[socket] = None
        /\ UNCHANGED <<made, socket, bound, ring>>
        /\ \A c \in Conns : sEnd'[c] = IF c = socket THEN "open" ELSE sEnd[c]
    BY <1>7 DEF OnConnect, TypeOK, Shape, Opened, Wires, srvVars
  <2>2. CASE Greet(<<socket>>)
    <3>1. Tight
      BY <2>2 DEF Greet, Straight
    <3>2. <<socket>> \in Seq(Conns) /\ \A i \in 1..Len(<<socket>>) : <<socket>>[i] = socket
      BY <2>1
    <3>3. toServer[socket] = <<>>
      BY <2>1, <3>1 DEF Tight
    <3> QED BY <2>1, <2>2, <3>1, <3>2, <3>3, GreetKeepsTight
  <2>3. CASE ~secret /\ UNCHANGED <<secret, toServer, queue, connected, astray>>
    <3>1. ~connected'
      BY <2>3 DEF Shape, Secrets
    <3> QED BY <1>2, <2>1, <2>3, <3>1
  <2> QED BY <1>7, <2>2, <2>3 DEF OnConnect
<1>8. CASE SecretRead
  <2>1. /\ greeting \in Seq(Conns) /\ greeting # <<>> /\ Greet(greeting) /\ ~secret
        /\ UNCHANGED <<made, socket, bound, ring, sEnd>>
    BY <1>8 DEF SecretRead, TypeOK, Shape, Secrets, srvVars
  <2>2. ~astray /\ \A i \in 1..Len(greeting) : cEnd[greeting[i]] # "closed"
    BY <2>1 DEF Greet
  <2>3. ASSUME NEW i \in 1..Len(greeting)
        PROVE  greeting[i] = socket /\ greeting[i] \in Conns /\ sEnd[greeting[i]] # "unused"
    <3>1. greeting[i] \in Conns /\ sEnd[greeting[i]] # "unused"
      BY <2>1 DEF Shape, Secrets
    <3>2. cEnd[greeting[i]] \in {"unused", "dialing", "open", "closed"}
      BY <3>1 DEF TypeOK
    <3>3. cEnd[greeting[i]] \notin {"unused", "dialing"}
      BY <3>1 DEF Shape, Opened
    <3>4. cEnd[greeting[i]] = "open"
      BY <2>2, <3>2, <3>3
    <3> QED BY <3>1, <3>4 DEF Shape, Opened
  <2>4. 1 \in 1..Len(greeting)
    BY <2>1
  <2>5. socket \in Conns /\ sEnd[socket] # "unused"
    BY <2>3, <2>4
  <2>6. toServer[socket] = <<>> /\ bound[socket] = None
    BY <2>1, <2>5 DEF Silent
  <2>7. Tight
    BY <2>2 DEF Straight
  <2> QED BY <2>1, <2>3, <2>5, <2>6, <2>7, GreetKeepsTight
<1>9. CASE Watchdog
  <2>1. /\ socket \in Conns /\ UNCHANGED <<made, queue, connected, socket, astray, bound, ring, sEnd>>
        /\ cEnd' = [cEnd EXCEPT ![socket] = "closed"]
    BY <1>9 DEF Watchdog, cbVars, srvVars, TypeOK
  <2>2. PICK left \in Prefixes(toServer[socket]) : toServer' = [toServer EXCEPT ![socket] = left]
    BY <1>9 DEF Watchdog
  <2>3. Window(left, toServer[socket], 0)
    BY <2>1, <2>2, PrefixIsWindow DEF TypeOK
  <2>4. \A c \in Conns : Window(toServer[c], toServer[c], 0)
    BY DEF Window, TypeOK
  <2>5. \A c \in Conns : Window(toServer'[c], toServer[c], 0)
    BY <2>1, <2>2, <2>3, <2>4 DEF TypeOK
  <2>6. \A c \in Conns : Live(c)' => Live(c) /\ toServer'[c] = toServer[c]
    BY <2>1, <2>2 DEF Live, TypeOK
  <2>7. Tight
    BY <2>1 DEF Straight
  <2> QED BY <2>1, <2>5, <2>6, <2>7, LossKeepsTight
<1>10. ASSUME NEW c \in Conns, PipeBreak(c) PROVE Tight'
  <2>1. /\ UNCHANGED <<made, queue, connected, socket, astray, bound, ring>>
        /\ \A d \in Conns : /\ cEnd'[d] = IF d = c THEN "closed" ELSE cEnd[d]
                            /\ sEnd'[d] = IF d = c THEN "destroyed" ELSE sEnd[d]
                            /\ toServer'[d] = IF d = c THEN <<>> ELSE toServer[d]
    BY <1>10 DEF PipeBreak, cbVars, srvVars, TypeOK
  <2> QED BY <1>1, <2>1
<1>11. CASE DaemonDies
  <2>1. /\ UNCHANGED <<made, queue, connected, socket, astray, bound, ring, cEnd>>
        /\ \A d \in Conns : /\ sEnd'[d] = IF sEnd[d] = "unused" THEN "unused" ELSE "closed"
                            /\ toServer'[d] = IF sEnd[d] = "unused" THEN toServer[d] ELSE <<>>
    BY <1>11 DEF DaemonDies, cbVars, TypeOK
  <2> QED BY <1>1, <2>1
<1>12. ASSUME NEW D, Destroy(D),
              UNCHANGED <<made, queue, connected, socket, astray, bound, ring, cEnd>>
       PROVE  Tight'
  <2>1. \A d \in Conns : /\ sEnd'[d] = IF d \in D /\ sEnd[d] = "open" THEN "destroyed" ELSE sEnd[d]
                         /\ toServer'[d] = IF d \in D THEN <<>> ELSE toServer[d]
    BY <1>12 DEF Destroy
  <2> QED BY <1>1, <1>12, <2>1
<1>13. ASSUME NEW c \in Conns, RefuseRole(c) PROVE Tight'
  BY <1>12, <1>13 DEF RefuseRole, cbVars, srvVars
<1>14. ASSUME NEW c \in Conns, Expire(c) PROVE Tight'
  <2>1. \E D : Destroy(D)
    BY <1>14 DEF Expire
  <2> QED BY <1>12, <1>14, <2>1 DEF Expire, cbVars
<1>15. ASSUME NEW c \in Conns, HandleClose(c) PROVE Tight'
  <2>1. /\ UNCHANGED <<made, queue, connected, socket, astray, bound, ring, cEnd, toServer>>
        /\ \A d \in Conns : sEnd'[d] = IF d = c THEN "closed" ELSE sEnd[d]
    BY <1>15 DEF HandleClose, cbVars, TypeOK
  <2> QED BY <1>1, <2>1
<1>16. ASSUME NEW c \in Conns, Resume(c) PROVE Tight'
  <2> DEFINE old == {pipe[entry]} \ {None, c}
  <2>1. /\ UNCHANGED <<cbVars, cEnd, ring>> /\ bound[c] = None /\ entry \in Conns
        /\ sEnd[c] = "open" /\ toServer[c] # <<>>
        /\ bound' = [bound EXCEPT ![c] = entry]
        /\ c \notin old
        /\ \A d \in Conns : /\ sEnd'[d] = IF d \in old /\ sEnd[d] = "open" THEN "destroyed" ELSE sEnd[d]
                            /\ toServer'[d] = IF d = c THEN Tail(toServer[c])
                                              ELSE IF d \in old THEN <<>> ELSE toServer[d]
    BY <1>16 DEF Resume, HelloFirst, Readable, CanResume, IsAlive, TypeOK
  <2> HIDE DEF old
  <2>2. ~LastVia(c)'
    <3>1. bound'[c] = entry /\ ring' = ring /\ ring[entry] \in Seq(Kept)
      BY <2>1 DEF TypeOK
    <3>2. ring[entry] # <<>> => Len(ring[entry]) \in 1..Len(ring[entry])
      BY <3>1
    <3>3. ring[entry] # <<>> => LastOf(ring[entry]) \in Elements(ring[entry])
      BY <3>2 DEF LastOf, Elements
    <3>4. ring[entry] # <<>> => bound[LastOf(ring[entry]).via] # None
      BY <2>1, <3>3 DEF ViaBound
    <3> QED BY <2>1, <3>1, <3>4 DEF LastVia
  <2>3. \A d \in Conns \ {c} :
          /\ bound'[d] = bound[d]
          /\ toServer'[d] = toServer[d] \/ (toServer'[d] = <<>> /\ sEnd'[d] # "open")
    BY <2>1 DEF TypeOK
  <2>4. Tight
    BY <2>1 DEF cbVars, Straight
  <2>5. \A d \in Conns : sEnd'[d] = sEnd[d] \/ (sEnd[d] = "open" /\ sEnd'[d] = "destroyed")
    BY <2>1
  <2> QED BY <2>1, <2>2, <2>3, <2>4, <2>5, HelloKeepsTight
<1>17. ASSUME NEW c \in Conns, Register(c) PROVE Tight'
  <2>1. /\ UNCHANGED <<cbVars, cEnd, sEnd, ring>> /\ bound[c] = None
        /\ sEnd[c] = "open" /\ toServer[c] # <<>>
        /\ \A d \in Conns : /\ bound'[d] = IF d = c THEN c ELSE bound[d]
                            /\ toServer'[d] = IF d = c THEN Tail(toServer[c]) ELSE toServer[d]
    BY <1>17 DEF Register, HelloFirst, Readable, TypeOK
  <2>2. ring[c] = <<>>
    BY <2>1 DEF Owned
  <2>3. ~LastVia(c)'
    BY <2>1, <2>2 DEF LastVia
  <2>4. Tight
    BY <2>1 DEF cbVars, Straight
  <2> QED BY <2>1, <2>3, <2>4, HelloKeepsTight
<1>18. ASSUME NEW c \in Conns, OnStdout(c) PROVE Tight'
  <2>1. Tight
    BY <1>18 DEF OnStdout, cbVars, Straight
  <2> QED BY <1>18, <2>1, OnStdoutKeepsTight
<1> QED
  BY <1>3, <1>4, <1>5, <1>6, <1>7, <1>8, <1>9, <1>10, <1>11, <1>13, <1>14, <1>15, <1>16, <1>17, <1>18
  DEF Next, CbStep, CbFault, DaemonStep, Accept

\* The rings: whatever is lost, queued or resumed, the output is in the order of its
\* printing and of time; and what a connection brought has a gap only after
\* handleOnConnect() went on for a closed socket (pipe-client.ts, ring-buffer.ts).
THEOREM RingsAreInOrder == Spec => []OutputInOrder
<1>1. Init => Shape /\ Growing /\ Sorted /\ Polled /\ Silent /\ ViaBound /\ Straight
  BY ShapeInit, GrowingInit, SortedInit, PolledInit, SilentInit
<1>2. /\ TypeOK /\ TypeOK' /\ Shape /\ Growing /\ Sorted /\ Polled /\ Silent /\ ViaBound /\ Straight
      /\ [Next]_vars
      => Shape' /\ Growing' /\ Sorted' /\ Polled' /\ Silent' /\ ViaBound' /\ Straight'
  <2>1. Polled => Owned
    BY DEF Polled
  <2> QED BY <2>1, ShapeStep, GrowingStep, SortedStep, PolledStep, SilentStep, ViaBoundStep, StraightStep
<1>3. Sorted /\ Straight => OutputInOrder
  BY DEF Sorted, InOrder, Straight, Tight, Unbroken, OutputInOrder
<1> QED BY <1>1, <1>2, <1>3, TypeCorrect, PTL DEF Spec
=============================================================================
