------------------------------ MODULE Framing ------------------------------
(***************************************************************************)
(* Length-prefixed frames on a byte stream that arrives in chunks, and the *)
(* ways in which the programs feed their decoders.                         *)
(*                                                                         *)
(*   "own"     the daemon and cb: a decoder belongs to one open socket and *)
(*             one data handler pushes each chunk into it                  *)
(*   "newest"  bridge-mcp: the handlers of all open sockets push into the  *)
(*             decoder of the socket that was opened last                  *)
(*   "twice"   the watch client: the handshake's handler stays when the    *)
(*             steady-state handler is added, and both push each chunk     *)
(*                                                                         *)
(* A stream is a sequence of units, several bytes each: a frame of size n  *)
(* is Header units and n units of payload. A payload of the right units is *)
(* JSON; units of several frames, or out of place, are not: among them are *)
(* the zero bytes of a header, or pieces of different texts. Units that    *)
(* are taken for a header and are none have any value.                     *)
(***************************************************************************)
EXTENDS Naturals, Sequences, FiniteSetsExt

CONSTANTS
  Readers,    \* the ways of feeding that are looked at
  MaxConns,   \* bound: connections opened
  MaxFrames,  \* bound: frames sent on all connections
  Header,     \* the 4 bytes of a length, in units
  FirstCap,   \* MAX_FIRST_FRAME_BYTES, in units
  Cap         \* MAX_FRAME_BYTES, in units: encodeFrame() makes no larger ones

ASSUME SizesAssumption ==
  /\ Readers \subseteq {"own", "newest", "twice"}
  /\ {MaxConns, MaxFrames, FirstCap} \subseteq Nat
  /\ {Header, Cap} \subseteq Nat \ {0}

Conns == 1..MaxConns
Nr    == Nat \ {0}
Unit  == [c : Conns, i : Nr, k : Nr]

VARIABLES
  reader,     \* how this reader feeds its decoder
  newest,     \* the socket that was opened last
  sock,       \* "unused", "open", "closed", or "failed": destroyed for a decode error
  sizes,      \* the sizes of the frames sent on a connection
  wire,       \* the units of these frames
  arrived,    \* how many of them have arrived
  buf,        \* the chunks of the decoder
  emitted,    \* framesEmitted
  handled,    \* the frames of a connection that were handed to a handler that wants them
  before,     \* history: the frames that had arrived when the last chunk came
  fouled      \* history: a chunk met a piece of a frame that it does not continue

vars == <<reader, newest, sock, sizes, wire, arrived, buf, emitted, handled, before, fouled>>

TypeOK ==
  /\ reader \in {"own", "newest", "twice"}
  /\ newest \in 0..MaxConns
  /\ sock \in [Conns -> {"unused", "open", "closed", "failed"}]
  /\ sizes \in [Conns -> Seq(1..Cap)]
  /\ wire \in [Conns -> Seq(Unit)]
  /\ arrived \in [Conns -> Nat]
  /\ buf \in Seq(Unit)
  /\ emitted \in Nat
  /\ handled \in [Conns -> Seq(Nr)]
  /\ before \in [Conns -> Nat]
  /\ fouled \in BOOLEAN

Init ==
  /\ reader \in Readers
  /\ newest = 0
  /\ sock = [c \in Conns |-> "unused"]
  /\ sizes = [c \in Conns |-> <<>>]
  /\ wire = [c \in Conns |-> <<>>]
  /\ arrived = [c \in Conns |-> 0]
  /\ buf = <<>>
  /\ emitted = 0
  /\ handled = [c \in Conns |-> <<>>]
  /\ before = [c \in Conns |-> 0]
  /\ fouled = FALSE

-----------------------------------------------------------------------------
(* The stream *)

\* The units that a payload of this size takes.
Needed(len) == Header + len

\* encodeFrame(): the units of a frame.
Framed(c, i, size) == [k \in 1..Needed(size) |-> [c |-> c, i |-> i, k |-> k]]

\* The units of frame i of connection c.
Encoded(c, i) == Framed(c, i, sizes[c][i])

\* The first u units of c end with a frame.
AtFrameEnd(c, u) == u = 0 \/ wire[c][u].k = Needed(sizes[c][wire[c][u].i])

\* How many frames the first u units of c complete.
Complete(c, u) ==
  IF u = 0 THEN 0 ELSE IF AtFrameEnd(c, u) THEN wire[c][u].i ELSE wire[c][u].i - 1

-----------------------------------------------------------------------------
(* The decoder: push() *)

IsHeader(b) == \A k \in 1..Header : b[k].k = k /\ b[k].c = b[1].c /\ b[k].i = b[1].i

\* peekLen(): what the first units say, or what they happen to say.
Lengths(b) == IF IsHeader(b) THEN {sizes[b[1].c][b[1].i]} ELSE 0..(Cap + 1)

\* Fault: the cap never relaxes.
CapForFirst(n) == FirstCap

\* The cap relaxes after the first frame; the watch client has none.
CapFor(n) == IF reader = "twice" THEN Cap + 1 ELSE IF n = 0 THEN FirstCap ELSE Cap

Parses(b) == Len(b) > Header /\ b = Encoded(b[1].c, b[1].i)

\* Where the loop of push() is: in the decoder, emitted, decoded by this call, and whether
\* it goes on, has left the loop or has thrown, which loses the frames of the call.
Loop(b, n, out, at) == [buf |-> b, emitted |-> n, out |-> out, at |-> at]

\* One turn of the loop, with the length that was read.
Turn(s, len) ==
  LET frame == SubSeq(s.buf, 1, Needed(len))
      rest  == SubSeq(s.buf, Needed(len) + 1, Len(s.buf))
      first == s.buf[1]
  IN IF len > CapFor(s.emitted) THEN Loop(s.buf, s.emitted, <<>>, "thrown")
     ELSE IF Len(s.buf) < Needed(len) THEN Loop(s.buf, s.emitted, s.out, "left")
     ELSE IF Parses(frame)
     THEN Loop(rest, s.emitted + 1, Append(s.out, [c |-> first.c, i |-> first.i]), "on")
     ELSE Loop(rest, s.emitted, <<>>, "thrown")

Turns(s) ==
  IF s.at # "on" THEN {s}
  ELSE IF Len(s.buf) < Header THEN {Loop(s.buf, s.emitted, s.out, "left")}
  ELSE {Turn(s, len) : len \in Lengths(s.buf)}

\* The loop of push() with b in the decoder and n frames emitted before. A turn takes a
\* unit at least, unless it is the last.
Decode(b, n) ==
  LET after[m \in 0..(Len(b) + 1)] ==
        IF m = 0 THEN {Loop(b, n, <<>>, "on")} ELSE UNION {Turns(s) : s \in after[m - 1]}
  IN after[Len(b) + 1]

\* Fault: what the last chunk left is forgotten.
PushAlone(chunk, b, n) == Decode(chunk, n)

Push(chunk, b, n) == Decode(b \o chunk, n)

-----------------------------------------------------------------------------
(* Connections *)

\* connect(): a new socket and a new decoder. Only bridge-mcp does so while it has
\* another one open.
Connect ==
  /\ newest < MaxConns
  /\ reader # "newest" => \A c \in Conns : sock[c] # "open"
  /\ newest' = newest + 1
  /\ sock' = [sock EXCEPT ![newest + 1] = "open"]
  /\ buf' = <<>>
  /\ emitted' = 0
  /\ UNCHANGED <<reader, sizes, wire, arrived, handled, before, fouled>>

\* The bound on the frames of all connections is not reached.
Room == MapThenSumSet(LAMBDA c : Len(sizes[c]), Conns) < MaxFrames

\* The peer sends a frame. The first one to the watch client is the ack, and the
\* others are answers to requests it makes when it has read the ack.
Send(c, size) ==
  /\ sock[c] = "open"
  /\ Room
  /\ reader = "twice" /\ sizes[c] # <<>> => handled[c] # <<>>
  /\ sizes' = [sizes EXCEPT ![c] = Append(@, size)]
  /\ wire' = [wire EXCEPT ![c] = @ \o Framed(c, Len(sizes[c]) + 1, size)]
  /\ UNCHANGED <<reader, newest, sock, arrived, buf, emitted, handled, before, fouled>>

\* Fault: an answer is taken whether or not its request is pending.
TakenAlways(done, i) == Append(done, i)

\* The daemon and cb take every frame; the clients an answer whose request is pending.
Taken(done, i) ==
  IF reader # "own" /\ i \in Range(done) THEN done ELSE Append(done, i)

Dispatched(done, f) == [done EXCEPT ![f.c] = Taken(@, f.i)]

\* The frames that push() returns are dispatched one by one.
HandledWith(out) ==
  LET done[m \in 0..Len(out)] ==
        IF m = 0 THEN handled ELSE Dispatched(done[m - 1], out[m])
  IN done[Len(out)]

\* The piece of a frame that has arrived last on c.
Piece(c) ==
  IF AtFrameEnd(c, arrived[c]) THEN <<>>
  ELSE SubSeq(wire[c], arrived[c] - wire[c][arrived[c]].k + 1, arrived[c])

\* A chunk of u units arrives on c; it continues what the decoder holds, or fouls it.
Arrives(c, u) ==
  /\ sock[c] = "open"
  /\ arrived[c] + u <= Len(wire[c])
  /\ arrived' = [arrived EXCEPT ![c] = @ + u]
  /\ before' = [before EXCEPT ![c] = Complete(c, arrived[c])]
  /\ fouled' = \/ fouled
               \/ buf # Piece(c)
               \/ reader = "twice" /\ handled[c] # <<>> /\ ~AtFrameEnd(c, arrived[c] + u)

Chunk(c, u) == SubSeq(wire[c], arrived[c] + 1, arrived[c] + u)

\* One handler pushes the chunk: its frames are handled, or the socket is destroyed. The
\* watch client gives up its handshake and leaves the socket to itself.
FedOnce(c, u) ==
  /\ reader # "twice" \/ handled[c] = <<>>
  /\ Arrives(c, u)
  /\ \E r \in Push(Chunk(c, u), buf, emitted) :
       /\ buf' = r.buf
       /\ emitted' = r.emitted
       /\ handled' = HandledWith(r.out)
       /\ sock' = [sock EXCEPT ![c] = IF r.at = "thrown" /\ reader # "twice" THEN "failed" ELSE @]
  /\ UNCHANGED <<reader, newest, sizes, wire>>

\* Both handlers of the watch client push the chunk. The first one does not care for
\* answers, and errors are swallowed.
FedTwice(c, u) ==
  /\ reader = "twice" /\ handled[c] # <<>>
  /\ Arrives(c, u)
  /\ \E first \in Push(Chunk(c, u), buf, emitted) :
       \E second \in Push(Chunk(c, u), first.buf, first.emitted) :
         /\ buf' = second.buf
         /\ emitted' = second.emitted
         /\ handled' = HandledWith(second.out)
  /\ UNCHANGED <<reader, newest, sock, sizes, wire>>

\* The socket is closed for another reason: a lost pipe, a request that timed out.
Close(c) ==
  /\ sock[c] = "open"
  /\ sock' = [sock EXCEPT ![c] = "closed"]
  /\ UNCHANGED <<reader, newest, sizes, wire, arrived, buf, emitted, handled, before, fouled>>

Next ==
  \/ Connect
  \/ \E c \in Conns :
       \/ \E size \in 1..Cap : Send(c, size)
       \/ \E u \in 1..Len(wire[c]) : FedOnce(c, u) \/ FedTwice(c, u)
       \/ Close(c)

Spec == Init /\ [][Next]_vars

-----------------------------------------------------------------------------
(* Properties *)

\* How a stream is cut into chunks does not matter: on an open socket the frames
\* that have arrived are the frames that were handled, no later and in order. The
\* exceptions are a decoder that two sockets have fed with pieces of frames, and an
\* answer to the watch client that did not arrive in one piece (framing.ts push).
WholeFramesAreHandled ==
  ~fouled => \A c \in Conns : sock[c] = "open" =>
    handled[c] = [i \in 1..Complete(c, arrived[c]) |-> i]

\* Nothing is made up or repeated, not even by a decoder that was fouled: what is
\* handled as a frame of a connection has arrived on it whole, and once; and nothing
\* overtakes, except for the watch client, whose two handlers may see different
\* frames in a chunk (framing.ts push, watch-client.mjs onData).
OnlyWhatWasSent ==
  \A c \in Conns : \A i, j \in 1..Len(handled[c]) :
    /\ handled[c][i] <= Complete(c, arrived[c])
    /\ i < j => /\ handled[c][i] # handled[c][j]
                /\ ~(reader = "twice" /\ fouled) => handled[c][i] < handled[c][j]

\* A decoder that is not fouled refuses nothing but a first frame above its cap, and
\* what had arrived with earlier chunks was handled before. For the decoder of
\* bridge-mcp the first frame may be a later one, of the socket opened before
\* (framing.ts caps, daemon-client.ts doConnect).
RefusesForAReason ==
  ~fouled => \A c \in Conns : sock[c] = "failed" =>
    /\ handled[c] = [i \in 1..before[c] |-> i]
    /\ sizes[c][before[c] + 1] > FirstCap
    /\ reader = "own" => before[c] = 0
=============================================================================
