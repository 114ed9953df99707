----------------------------- MODULE FramingProof -----------------------------
(***************************************************************************)
(* The safety properties of Framing, for every number of connections and   *)
(* frames, every size and every way of cutting the streams into chunks.    *)
(***************************************************************************)
EXTENDS Framing, WellFoundedInduction, TLAPS

-----------------------------------------------------------------------------
(* Recursion over an interval of naturals *)

\* A nonempty set of naturals has a least element.
LEMMA LeastNatural ==
  ASSUME NEW S \in SUBSET Nat, S # {}
  PROVE  \E m \in S : \A k \in S : m <= k
<1>1. PICK m \in S : \A k \in S : ~(<<k, m>> \in OpToRel(<, Nat))
  BY NatLessThanWellFounded, WFMin
<1>2. ASSUME NEW k \in S PROVE m <= k
  <2>1. ~(k < m)
    BY <1>1 DEF OpToRel
  <2> QED BY <2>1
<1> QED BY <1>2

\* A set that has 0 and every successor has every natural.
LEMMA Naturals0AndUp ==
  ASSUME NEW P, 0 \in P, \A m \in Nat : m \in P => m + 1 \in P
  PROVE  \A m \in Nat : m \in P
<1> SUFFICES ASSUME Nat \ P # {} PROVE FALSE
  OBVIOUS
<1>1. PICK m \in Nat \ P : \A k \in Nat \ P : m <= k
  BY LeastNatural
<1>2. m # 0
  BY <1>1
<1>3. m - 1 \in Nat /\ (m - 1) + 1 = m /\ ~(m <= m - 1)
  BY <1>1, <1>2
<1>4. m - 1 \in P
  BY <1>1, <1>3
<1> QED BY <1>1, <1>3, <1>4

\* A function on 0..n can be defined from its value at 0, each value from the one before.
Iterates(h, n, a, F) == h[0] = a /\ \A m \in 1..n : h[m] = F[<<m, h[m - 1]>>]

\* A step function has an iteration from a of any length.
LEMMA Recursion ==
  ASSUME NEW S, NEW a \in S, NEW F \in [Nat \X S -> S], NEW n \in Nat
  PROVE  \E h \in [0..n -> S] : Iterates(h, n, a, F)
<1> DEFINE P == {l \in Nat :
       \E h \in [0..l -> S] : h[0] = a /\ \A m \in 1..l : h[m] = F[<<m, h[m - 1]>>]}
<1>1. 0 \in P
  <2> DEFINE h == [m \in 0..0 |-> a]
  <2>1. h \in [0..0 -> S] /\ h[0] = a /\ \A m \in 1..0 : h[m] = F[<<m, h[m - 1]>>]
    OBVIOUS
  <2> QED BY <2>1
<1>2. ASSUME NEW l \in Nat, l \in P PROVE l + 1 \in P
  <2>1. PICK h \in [0..l -> S] : h[0] = a /\ \A m \in 1..l : h[m] = F[<<m, h[m - 1]>>]
    BY <1>2
  <2> DEFINE g == [m \in 0..(l + 1) |-> IF m = l + 1 THEN F[<<l + 1, h[l]>>] ELSE h[m]]
  <2>2. F[<<l + 1, h[l]>>] \in S
    OBVIOUS
  <2>3. \A m \in 0..(l + 1) : m # l + 1 => m \in 0..l
    OBVIOUS
  <2>4. g \in [0..(l + 1) -> S]
    BY <2>2, <2>3
  <2>5. g[0] = a
    BY <2>1
  <2>6. \A m \in 0..l : g[m] = h[m]
    OBVIOUS
  <2>7. g[l + 1] = F[<<l + 1, h[l]>>]
    OBVIOUS
  <2> HIDE DEF g
  <2>8. ASSUME NEW m \in 1..(l + 1) PROVE g[m] = F[<<m, g[m - 1]>>]
    <3>1. CASE m = l + 1
      <4>1. m - 1 = l /\ l \in 0..l
        BY <3>1
      <4> QED BY <2>6, <2>7, <3>1, <4>1
    <3>2. CASE m # l + 1
      <4>1. m \in 1..l /\ m \in 0..l /\ m - 1 \in 0..l
        BY <3>2
      <4> QED BY <2>1, <2>6, <4>1
    <3> QED BY <3>1, <3>2
  <2> QED BY <2>4, <2>5, <2>8
<1> HIDE DEF P
<1>3. n \in P
  BY <1>1, <1>2, Naturals0AndUp
<1> QED BY <1>3 DEF P, Iterates

-----------------------------------------------------------------------------
(* The loop of push() *)

\* A unit of a frame that was sent.
Known == {x \in Unit : x.i \in 1..Len(sizes[x.c])}

Frame == [c : Conns, i : Nr]

Loops == [buf : Seq(Known), emitted : Nat, out : Seq(Frame), at : {"on", "left", "thrown"}]

SizesTyped == sizes \in [Conns -> Seq(1..Cap)]

\* The fields of a state of push()'s loop.
LEMMA LoopParts ==
  ASSUME NEW b, NEW n, NEW out, NEW at
  PROVE  /\ Loop(b, n, out, at).buf = b /\ Loop(b, n, out, at).emitted = n
         /\ Loop(b, n, out, at).out = out /\ Loop(b, n, out, at).at = at
BY DEF Loop

LEMMA LoopTyped ==
  ASSUME NEW b \in Seq(Known), NEW n \in Nat, NEW out \in Seq(Frame), NEW at \in {"on", "left", "thrown"}
  PROVE  Loop(b, n, out, at) \in Loops
BY DEF Loop, Loops

\* Cutting a sequence in two at l.
LEMMA CutTyped ==
  ASSUME NEW S, NEW b \in Seq(S), NEW l \in 0..Len(b)
  PROVE  /\ SubSeq(b, l + 1, Len(b)) \in Seq(S)
         /\ Len(SubSeq(b, l + 1, Len(b))) = Len(b) - l
         /\ \A p \in 1..(Len(b) - l) : SubSeq(b, l + 1, Len(b))[p] = b[l + p]
         /\ SubSeq(b, 1, l) \in Seq(S)
         /\ Len(SubSeq(b, 1, l)) = l
         /\ \A p \in 1..l : SubSeq(b, 1, l)[p] = b[p]
OBVIOUS

\* The elements of a concatenation.
LEMMA JoinTyped ==
  ASSUME NEW S, NEW s \in Seq(S), NEW t \in Seq(S)
  PROVE  /\ s \o t \in Seq(S) /\ Len(s \o t) = Len(s) + Len(t)
         /\ \A p \in 1..(Len(s) + Len(t)) :
              \/ p \in 1..Len(s) /\ (s \o t)[p] = s[p]
              \/ p - Len(s) \in 1..Len(t) /\ (s \o t)[p] = t[p - Len(s)]
OBVIOUS

LEMMA ElementTyped ==
  ASSUME NEW S, NEW s \in Seq(S), NEW i \in 1..Len(s)
  PROVE  s[i] \in S
OBVIOUS

LEMMA WiderSequence ==
  ASSUME NEW S, NEW T, S \subseteq T, NEW s \in Seq(S)
  PROVE  s \in Seq(T)
<1>1. \A p \in 1..Len(s) : s[p] \in T
  BY ElementTyped
<1>2. s = [p \in 1..Len(s) |-> s[p]] /\ Len(s) \in Nat
  OBVIOUS
<1> QED BY <1>1, <1>2

LEMMA SequenceTyped ==
  ASSUME NEW S, NEW k \in Nat, NEW f \in [1..k -> S]
  PROVE  f \in Seq(S) /\ Len(f) = k
OBVIOUS

LEMMA EmptySequence ==
  ASSUME NEW S, NEW s \in Seq(S), Len(s) = 0
  PROVE  s = <<>>
OBVIOUS

LEMMA SameSequence ==
  ASSUME NEW S, NEW s \in Seq(S), NEW t \in Seq(S), Len(s) = Len(t),
         \A p \in 1..Len(s) : s[p] = t[p]
  PROVE  s = t
<1>1. s = [p \in 1..Len(s) |-> s[p]] /\ t = [p \in 1..Len(t) |-> t[p]]
  OBVIOUS
<1> QED BY <1>1

LEMMA SizeTyped ==
  ASSUME SizesTyped, NEW c \in Conns, NEW i \in 1..Len(sizes[c])
  PROVE  sizes[c][i] \in 1..Cap
<1>1. sizes[c] \in Seq(1..Cap)
  BY DEF SizesTyped
<1> QED BY <1>1, ElementTyped

LEMMA LengthsTyped ==
  ASSUME SizesTyped, NEW b \in Seq(Known), Len(b) >= Header, NEW len \in Lengths(b)
  PROVE  len \in Nat /\ Needed(len) \in Nat \ {0} /\ Needed(len) >= Header
<1>1. Header \in Nat \ {0} /\ Cap \in Nat
  BY SizesAssumption
<1>2. len \in Nat
  <2>1. CASE IsHeader(b)
    <3>1. b[1] \in Known
      BY <1>1
    <3>2. b[1].c \in Conns /\ b[1].i \in 1..Len(sizes[b[1].c])
      BY <3>1 DEF Known, Unit
    <3>3. sizes[b[1].c][b[1].i] \in 1..Cap
      BY <3>2, SizeTyped
    <3> QED BY <1>1, <2>1, <3>3 DEF Lengths
  <2>2. CASE ~IsHeader(b)
    BY <1>1, <2>2 DEF Lengths
  <2> QED BY <2>1, <2>2
<1> QED BY <1>1, <1>2 DEF Needed

\* What a turn can be, one by one.
LEMMA TurnCases ==
  ASSUME SizesTyped, NEW s \in Loops, s.at = "on", NEW t \in Turns(s)
  PROVE  \/ Len(s.buf) < Header /\ t = Loop(s.buf, s.emitted, s.out, "left")
         \/ \E len \in Lengths(s.buf) :
              /\ Len(s.buf) >= Header
              /\ len \in Nat /\ Needed(len) \in Nat \ {0}
              /\ \/ len > CapFor(s.emitted) /\ t = Loop(s.buf, s.emitted, <<>>, "thrown")
                 \/ /\ ~(len > CapFor(s.emitted))
                    /\ Len(s.buf) < Needed(len)
                    /\ t = Loop(s.buf, s.emitted, s.out, "left")
                 \/ /\ Needed(len) \in 1..Len(s.buf)
                    /\ ~Parses(SubSeq(s.buf, 1, Needed(len)))
                    /\ t = Loop(SubSeq(s.buf, Needed(len) + 1, Len(s.buf)), s.emitted, <<>>, "thrown")
                 \/ /\ Needed(len) \in 1..Len(s.buf)
                    /\ ~(len > CapFor(s.emitted))
                    /\ Parses(SubSeq(s.buf, 1, Needed(len)))
                    /\ t = Loop(SubSeq(s.buf, Needed(len) + 1, Len(s.buf)), s.emitted + 1,
                                Append(s.out, [c |-> s.buf[1].c, i |-> s.buf[1].i]), "on")
<1>1. s.buf \in Seq(Known) /\ Len(s.buf) \in Nat /\ Header \in Nat
  BY SizesAssumption DEF Loops
<1>2. CASE Len(s.buf) < Header
  BY <1>2 DEF Turns
<1>3. CASE ~(Len(s.buf) < Header)
  <2>1. PICK len \in Lengths(s.buf) : t = Turn(s, len)
    BY <1>3 DEF Turns
  <2>2. Len(s.buf) >= Header
    BY <1>1, <1>3
  <2>3. len \in Nat /\ Needed(len) \in Nat \ {0}
    BY <1>1, <2>2, LengthsTyped
  <2>4. Len(s.buf) < Needed(len) \/ Needed(len) \in 1..Len(s.buf)
    BY <1>1, <2>3
  <2>5. \/ len > CapFor(s.emitted) /\ t = Loop(s.buf, s.emitted, <<>>, "thrown")
        \/ /\ ~(len > CapFor(s.emitted)) /\ Len(s.buf) < Needed(len)
           /\ t = Loop(s.buf, s.emitted, s.out, "left")
        \/ /\ ~(len > CapFor(s.emitted)) /\ ~(Len(s.buf) < Needed(len))
           /\ ~Parses(SubSeq(s.buf, 1, Needed(len)))
           /\ t = Loop(SubSeq(s.buf, Needed(len) + 1, Len(s.buf)), s.emitted, <<>>, "thrown")
        \/ /\ ~(len > CapFor(s.emitted)) /\ ~(Len(s.buf) < Needed(len))
           /\ Parses(SubSeq(s.buf, 1, Needed(len)))
           /\ t = Loop(SubSeq(s.buf, Needed(len) + 1, Len(s.buf)), s.emitted + 1,
                       Append(s.out, [c |-> s.buf[1].c, i |-> s.buf[1].i]), "on")
    BY <2>1 DEF Turn
  <2> QED BY <2>2, <2>3, <2>4, <2>5
<1> QED BY <1>2, <1>3

\* A turn of the loop keeps the types, does nothing once the loop is left, and otherwise
\* takes something from the decoder or leaves the loop: the ground of push()'s termination.
LEMMA TurnsTyped ==
  ASSUME SizesTyped, NEW s \in Loops, NEW t \in Turns(s)
  PROVE  /\ t \in Loops
         /\ s.at # "on" => t = s
         /\ s.at = "on" /\ t.at = "on" => Len(t.buf) < Len(s.buf)
<1>1. CASE s.at # "on"
  BY <1>1 DEF Turns
<1>2. CASE s.at = "on"
  <2>1. /\ s.buf \in Seq(Known) /\ s.emitted \in Nat /\ s.out \in Seq(Frame) /\ <<>> \in Seq(Frame)
        /\ Len(s.buf) \in Nat
    BY DEF Loops
  <2>2. CASE \/ t = Loop(s.buf, s.emitted, s.out, "left")
             \/ t = Loop(s.buf, s.emitted, <<>>, "thrown")
    <3>1. t \in Loops
      BY <2>1, <2>2, LoopTyped
    <3>2. t.at # "on"
      BY <2>2, LoopParts
    <3> QED BY <1>2, <3>1, <3>2
  <2>3. ASSUME NEW l \in 1..Len(s.buf),
               \/ t = Loop(SubSeq(s.buf, l + 1, Len(s.buf)), s.emitted, <<>>, "thrown")
               \/ t = Loop(SubSeq(s.buf, l + 1, Len(s.buf)), s.emitted + 1,
                           Append(s.out, [c |-> s.buf[1].c, i |-> s.buf[1].i]), "on")
        PROVE  t \in Loops /\ Len(t.buf) < Len(s.buf)
    <3> DEFINE rest == SubSeq(s.buf, l + 1, Len(s.buf))
    <3>1. rest \in Seq(Known) /\ Len(rest) < Len(s.buf)
      BY <2>1, CutTyped
    <3>2. s.buf[1] \in Known
      BY <2>1, <2>3
    <3>3. [c |-> s.buf[1].c, i |-> s.buf[1].i] \in Frame
      BY <3>2 DEF Known, Unit, Frame
    <3>4. Append(s.out, [c |-> s.buf[1].c, i |-> s.buf[1].i]) \in Seq(Frame) /\ s.emitted + 1 \in Nat
      BY <2>1, <3>3
    <3> HIDE DEF rest
    <3>5. CASE t = Loop(rest, s.emitted, <<>>, "thrown")
      <4>1. t \in Loops
        BY <2>1, <3>1, <3>5, LoopTyped
      <4>2. t.buf = rest
        BY <3>5, LoopParts
      <4> QED BY <3>1, <4>1, <4>2
    <3>6. CASE t = Loop(rest, s.emitted + 1,
                        Append(s.out, [c |-> s.buf[1].c, i |-> s.buf[1].i]), "on")
      <4>1. t \in Loops
        BY <3>1, <3>4, <3>6, LoopTyped
      <4>2. t.buf = rest
        BY <3>6, LoopParts
      <4> QED BY <3>1, <4>1, <4>2
    <3> QED BY <2>3, <3>5, <3>6 DEF rest
  <2> QED BY <1>2, <2>2, <2>3, TurnCases
<1> QED BY <1>1, <1>2

\* Decode() is what a function on the turns has at its end.
LEMMA DecodeIs ==
  ASSUME SizesTyped, NEW b \in Seq(Known), NEW n \in Nat
  PROVE  \E g \in [0..(Len(b) + 1) -> SUBSET Loops] :
           /\ g[0] = {Loop(b, n, <<>>, "on")}
           /\ \A m \in 1..(Len(b) + 1) : g[m] = UNION {Turns(s) : s \in g[m - 1]}
           /\ Decode(b, n) = g[Len(b) + 1]
<1> DEFINE start == {Loop(b, n, <<>>, "on")}
           D == 0..(Len(b) + 1)
           Body(g) == [m \in D |-> IF m = 0 THEN start ELSE UNION {Turns(s) : s \in g[m - 1]}]
           F == [x \in Nat \X SUBSET Loops |-> UNION {Turns(s) : s \in x[2]}]
<1>1. Len(b) + 1 \in Nat
  OBVIOUS
<1>2. start \in SUBSET Loops
  <2>1. <<>> \in Seq(Frame)
    OBVIOUS
  <2> QED BY <2>1, LoopTyped
<1>3. F \in [Nat \X SUBSET Loops -> SUBSET Loops]
  BY TurnsTyped
<1>4. PICK h \in [D -> SUBSET Loops] :
        h[0] = start /\ \A m \in 1..(Len(b) + 1) : h[m] = F[<<m, h[m - 1]>>]
  <2> DEFINE T == SUBSET Loops
  <2>1. start \in T /\ F \in [Nat \X T -> T]
    BY <1>2, <1>3
  <2> HIDE DEF F, start, T
  <2>2. \E h \in [D -> T] : Iterates(h, Len(b) + 1, start, F)
    BY <1>1, <2>1, Recursion
  <2> QED BY <2>2 DEF T, Iterates
<1>5. \A m \in 1..(Len(b) + 1) : h[m] = UNION {Turns(s) : s \in h[m - 1]}
  <2> SUFFICES ASSUME NEW m \in 1..(Len(b) + 1)
               PROVE  h[m] = UNION {Turns(s) : s \in h[m - 1]}
    OBVIOUS
  <2>1. m \in Nat /\ m - 1 \in D
    BY <1>1
  <2>2. <<m, h[m - 1]>> \in Nat \X SUBSET Loops
    BY <2>1
  <2> QED BY <1>4, <2>2
<1>6. h = Body(h)
  <2>1. \A m \in D : m = 0 \/ m \in 1..(Len(b) + 1)
    BY <1>1
  <2>2. ASSUME NEW m \in D PROVE h[m] = IF m = 0 THEN start ELSE UNION {Turns(s) : s \in h[m - 1]}
    BY <1>4, <1>5, <2>1
  <2> QED BY <2>2
<1> DEFINE after == CHOOSE g : g = Body(g)
<1>7. after = Body(after)
  <2> HIDE DEF Body
  <2> QED BY <1>6
<1>8. Decode(b, n) = after[Len(b) + 1]
  BY DEF Decode
<1>9. after[0] = start
  <2>1. 0 \in D
    BY <1>1
  <2> HIDE DEF after
  <2> QED BY <1>7, <2>1
<1>10. \A m \in 1..(Len(b) + 1) : after[m] = UNION {Turns(s) : s \in after[m - 1]}
  <2>1. \A m \in 1..(Len(b) + 1) : m \in D /\ m # 0
    BY <1>1
  <2> HIDE DEF after
  <2> QED BY <1>7, <2>1
<1>11. after \in [D -> SUBSET Loops]
  <2> DEFINE P == {m \in Nat : m \in D => after[m] \in SUBSET Loops}
  <2> HIDE DEF after, start
  <2>1. 0 \in P
    BY <1>2, <1>9
  <2>2. ASSUME NEW m \in Nat, m \in P PROVE m + 1 \in P
    <3> SUFFICES ASSUME m + 1 \in D PROVE after[m + 1] \in SUBSET Loops
      OBVIOUS
    <3>1. m + 1 \in 1..(Len(b) + 1) /\ (m + 1) - 1 = m /\ m \in D
      BY <1>1
    <3>2. after[m + 1] = UNION {Turns(s) : s \in after[m]}
      BY <1>10, <3>1
    <3>3. after[m] \in SUBSET Loops
      BY <2>2, <3>1
    <3> QED BY <3>2, <3>3, TurnsTyped
  <2> HIDE DEF P
  <2>3. \A m \in Nat : m \in P
    BY <2>1, <2>2, Naturals0AndUp
  <2>4. \A m \in D : after[m] \in SUBSET Loops
    BY <1>1, <2>3 DEF P
  <2>5. after = [m \in D |-> after[m]]
    BY <1>7
  <2> QED BY <2>4, <2>5
<1> HIDE DEF after
<1> QED BY <1>8, <1>9, <1>10, <1>11

\* What the turns preserve holds of what push() ends with; and the loop does end.
LEMMA LoopInduction ==
  ASSUME SizesTyped, NEW b \in Seq(Known), NEW n \in Nat, NEW I \in SUBSET Loops,
         Loop(b, n, <<>>, "on") \in I, \A s \in I : Turns(s) \subseteq I
  PROVE  \A r \in Decode(b, n) : r \in I /\ r.at # "on"
<1>1. PICK g \in [0..(Len(b) + 1) -> SUBSET Loops] :
         /\ g[0] = {Loop(b, n, <<>>, "on")}
         /\ \A m \in 1..(Len(b) + 1) : g[m] = UNION {Turns(s) : s \in g[m - 1]}
         /\ Decode(b, n) = g[Len(b) + 1]
  BY DecodeIs
<1> DEFINE P == {m \in Nat : m \in 0..(Len(b) + 1) =>
                   \A s \in g[m] : s \in I /\ (s.at = "on" => Len(s.buf) + m <= Len(b))}
<1>2. Len(b) \in Nat
  OBVIOUS
<1>3. 0 \in P
  BY <1>1, <1>2, LoopParts
<1>4. ASSUME NEW m \in Nat, m \in P PROVE m + 1 \in P
  <2> SUFFICES ASSUME m + 1 \in 0..(Len(b) + 1), NEW t \in g[m + 1]
               PROVE  t \in I /\ (t.at = "on" => Len(t.buf) + (m + 1) <= Len(b))
    OBVIOUS
  <2>1. m + 1 \in 1..(Len(b) + 1) /\ (m + 1) - 1 = m /\ m \in 0..(Len(b) + 1)
    BY <1>2
  <2>2. PICK s \in g[m] : t \in Turns(s)
    BY <1>1, <2>1
  <2>3. s \in I /\ (s.at = "on" => Len(s.buf) + m <= Len(b))
    BY <1>4, <2>1
  <2>4. t \in I /\ s \in Loops /\ t \in Loops
    BY <2>2, <2>3
  <2>5. ASSUME t.at = "on" PROVE Len(t.buf) + (m + 1) <= Len(b)
    <3>1. s.at = "on" /\ Len(t.buf) < Len(s.buf)
      BY <2>2, <2>4, <2>5, TurnsTyped
    <3>2. Len(t.buf) \in Nat /\ Len(s.buf) \in Nat
      BY <2>4 DEF Loops
    <3> QED BY <1>2, <2>3, <3>1, <3>2
  <2> QED BY <2>4, <2>5
<1> HIDE DEF P
<1>5. Len(b) + 1 \in P
  BY <1>2, <1>3, <1>4, Naturals0AndUp
<1>6. ASSUME NEW r \in g[Len(b) + 1] PROVE r \in I /\ r.at # "on"
  <2>1. r \in I /\ (r.at = "on" => Len(r.buf) + (Len(b) + 1) <= Len(b))
    <3>1. Len(b) + 1 \in 0..(Len(b) + 1)
      BY <1>2
    <3> QED BY <1>5, <1>6, <3>1 DEF P
  <2>2. Len(r.buf) \in Nat
    BY <2>1 DEF Loops
  <2> QED BY <1>2, <2>1, <2>2
<1> QED BY <1>1, <1>6

-----------------------------------------------------------------------------
(* The frames that push() returns *)

Taking == [Conns -> Seq(Nr)]

\* What a handler does with a frame it is given: it takes it, or has it already.
LEMMA TakenTyped ==
  ASSUME NEW done \in Seq(Nr), NEW i \in Nr
  PROVE  /\ Taken(done, i) \in Seq(Nr)
         /\ \/ reader # "own" /\ i \in Range(done) /\ Taken(done, i) = done
            \/ ~(reader # "own" /\ i \in Range(done)) /\ Taken(done, i) = Append(done, i)
BY DEF Taken

\* Dispatching a frame touches the connection of the frame only.
LEMMA DispatchedTyped ==
  ASSUME NEW h \in Taking, NEW f \in Frame
  PROVE  /\ Dispatched(h, f) \in Taking
         /\ Dispatched(h, f)[f.c] = Taken(h[f.c], f.i)
         /\ \A d \in Conns : d # f.c => Dispatched(h, f)[d] = h[d]
<1>1. f.c \in Conns /\ f.i \in Nr
  BY DEF Frame
<1>2. h[f.c] \in Seq(Nr)
  BY <1>1 DEF Taking
<1>3. Taken(h[f.c], f.i) \in Seq(Nr)
  BY <1>1, <1>2, TakenTyped
<1> QED BY <1>1, <1>3 DEF Dispatched, Taking

\* HandledWith() is what a function on the frames has at its end.
LEMMA HandledIs ==
  ASSUME handled \in Taking, NEW out \in Seq(Frame)
  PROVE  \E g \in [0..Len(out) -> Taking] :
           /\ g[0] = handled
           /\ \A m \in 1..Len(out) : g[m] = Dispatched(g[m - 1], out[m])
           /\ HandledWith(out) = g[Len(out)]
<1> DEFINE D == 0..Len(out)
           Body(g) == [m \in D |-> IF m = 0 THEN handled ELSE Dispatched(g[m - 1], out[m])]
           F == [x \in Nat \X Taking |->
                   IF x[1] \in 1..Len(out) THEN Dispatched(x[2], out[x[1]]) ELSE x[2]]
<1>1. Len(out) \in Nat /\ \A m \in 1..Len(out) : out[m] \in Frame
  BY ElementTyped
<1>2. F \in [Nat \X Taking -> Taking]
  BY <1>1, DispatchedTyped
<1>3. PICK h \in [D -> Taking] :
        h[0] = handled /\ \A m \in 1..Len(out) : h[m] = F[<<m, h[m - 1]>>]
  <2> HIDE DEF F
  <2>1. \E h \in [0..Len(out) -> Taking] : Iterates(h, Len(out), handled, F)
    BY <1>1, <1>2, Recursion
  <2> QED BY <2>1 DEF Iterates
<1>4. ASSUME NEW m \in 1..Len(out) PROVE h[m] = Dispatched(h[m - 1], out[m])
  <2>1. m \in Nat /\ m - 1 \in D
    BY <1>1
  <2>2. <<m, h[m - 1]>> \in Nat \X Taking
    BY <2>1
  <2> QED BY <1>3, <2>2
<1>5. h = Body(h)
  <2>1. \A m \in D : m = 0 \/ m \in 1..Len(out)
    BY <1>1
  <2>2. ASSUME NEW m \in D PROVE h[m] = IF m = 0 THEN handled ELSE Dispatched(h[m - 1], out[m])
    BY <1>3, <1>4, <2>1
  <2> QED BY <2>2
<1> DEFINE done == CHOOSE g : g = Body(g)
<1>6. done = Body(done)
  <2> HIDE DEF Body
  <2> QED BY <1>5
<1>7. HandledWith(out) = done[Len(out)]
  BY DEF HandledWith
<1>8. done[0] = handled
  <2>1. 0 \in D
    BY <1>1
  <2> HIDE DEF done
  <2> QED BY <1>6, <2>1
<1>9. \A m \in 1..Len(out) : done[m] = Dispatched(done[m - 1], out[m])
  <2>1. \A m \in 1..Len(out) : m \in D /\ m # 0
    BY <1>1
  <2> HIDE DEF done
  <2> QED BY <1>6, <2>1
<1>10. done \in [D -> Taking]
  <2> DEFINE P == {m \in Nat : m \in D => done[m] \in Taking}
  <2> HIDE DEF done
  <2>1. 0 \in P
    BY <1>8
  <2>2. ASSUME NEW m \in Nat, m \in P PROVE m + 1 \in P
    <3> SUFFICES ASSUME m + 1 \in D PROVE done[m + 1] \in Taking
      OBVIOUS
    <3>1. m + 1 \in 1..Len(out) /\ (m + 1) - 1 = m /\ m \in D
      BY <1>1
    <3>2. done[m + 1] = Dispatched(done[m], out[m + 1])
      BY <1>9, <3>1
    <3>3. done[m] \in Taking /\ out[m + 1] \in Frame
      BY <1>1, <2>2, <3>1
    <3> QED BY <3>2, <3>3, DispatchedTyped
  <2> HIDE DEF P
  <2>3. \A m \in Nat : m \in P
    BY <2>1, <2>2, Naturals0AndUp
  <2>4. \A m \in D : done[m] \in Taking
    BY <1>1, <2>3 DEF P
  <2>5. done = [m \in D |-> done[m]]
    BY <1>6
  <2> QED BY <2>4, <2>5
<1> HIDE DEF done
<1> QED BY <1>7, <1>8, <1>9, <1>10

\* What dispatching a frame preserves, as more of them are, holds when all of them are.
LEMMA DispatchInduction ==
  ASSUME handled \in Taking, NEW out \in Seq(Frame), NEW J,
         <<0, handled>> \in J,
         \A m \in 1..Len(out) : \A h \in Taking :
           <<m - 1, h>> \in J => <<m, Dispatched(h, out[m])>> \in J
  PROVE  HandledWith(out) \in Taking /\ <<Len(out), HandledWith(out)>> \in J
<1>1. PICK g \in [0..Len(out) -> Taking] :
         /\ g[0] = handled
         /\ \A m \in 1..Len(out) : g[m] = Dispatched(g[m - 1], out[m])
         /\ HandledWith(out) = g[Len(out)]
  BY HandledIs
<1> DEFINE P == {m \in Nat : m \in 0..Len(out) => <<m, g[m]>> \in J}
<1>2. Len(out) \in Nat
  OBVIOUS
<1>3. 0 \in P
  BY <1>1
<1>4. ASSUME NEW m \in Nat, m \in P PROVE m + 1 \in P
  <2> SUFFICES ASSUME m + 1 \in 0..Len(out) PROVE <<m + 1, g[m + 1]>> \in J
    OBVIOUS
  <2>1. m + 1 \in 1..Len(out) /\ (m + 1) - 1 = m /\ m \in 0..Len(out)
    BY <1>2
  <2>2. g[m + 1] = Dispatched(g[m], out[m + 1]) /\ g[m] \in Taking
    BY <1>1, <2>1
  <2>3. <<m, g[m]>> \in J
    BY <1>4, <2>1
  <2> QED BY <2>1, <2>2, <2>3
<1> HIDE DEF P
<1>5. Len(out) \in P
  BY <1>2, <1>3, <1>4, Naturals0AndUp
<1>6. <<Len(out), g[Len(out)]>> \in J /\ g[Len(out)] \in Taking
  <2>1. Len(out) \in 0..Len(out)
    BY <1>2
  <2> QED BY <1>5, <2>1 DEF P
<1> QED BY <1>1, <1>6

-----------------------------------------------------------------------------
(* The stream *)

WireTyped == SizesTyped /\ wire \in [Conns -> Seq(Unit)]

UnitOf(c, i, k) == [c |-> c, i |-> i, k |-> k]

\* The units of a connection come in this order.
Before(x, y) == x.i < y.i \/ (x.i = y.i /\ x.k < y.k)

\* The unit at place p stands in its frame, all of which is on the wire, after the frame before.
PlaceOK(c, p, i, k, n) ==
  /\ k \in 1..n
  /\ wire[c][p] = UnitOf(c, i, k)
  /\ k <= p /\ p - k + n <= Len(wire[c])
  /\ \A m \in 1..n : wire[c][p - k + m] = UnitOf(c, i, m)
  /\ k = 1 /\ p = 1 => i = 1
  /\ k = 1 /\ p # 1 => AtFrameEnd(c, p - 1) /\ wire[c][p - 1].i = i - 1

UnitOK(c, p) ==
  /\ wire[c][p].i \in 1..Len(sizes[c])
  /\ PlaceOK(c, p, wire[c][p].i, wire[c][p].k, Needed(sizes[c][wire[c][p].i]))

\* The frames of c are on the wire one after the other, and in order.
WireOK(c) ==
  /\ \A p \in 1..Len(wire[c]) : UnitOK(c, p)
  /\ \A p, q \in 1..Len(wire[c]) : p < q => Before(wire[c][p], wire[c][q])
  /\ Len(sizes[c]) = 0 => Len(wire[c]) = 0
  /\ Len(sizes[c]) # 0 =>
       /\ Len(wire[c]) # 0
       /\ wire[c][Len(wire[c])].i = Len(sizes[c])
       /\ AtFrameEnd(c, Len(wire[c]))

LEMMA UnitParts ==
  ASSUME NEW c, NEW i, NEW k
  PROVE  UnitOf(c, i, k).c = c /\ UnitOf(c, i, k).i = i /\ UnitOf(c, i, k).k = k
BY DEF UnitOf

\* A frame that was sent takes more than its header.
LEMMA NeededTyped ==
  ASSUME WireTyped, NEW c \in Conns, NEW i \in 1..Len(sizes[c])
  PROVE  /\ sizes[c][i] \in Nat \ {0} /\ Needed(sizes[c][i]) \in Nat
         /\ Needed(sizes[c][i]) > Header /\ Needed(sizes[c][i]) > 1
         /\ Len(sizes[c]) \in Nat /\ i \in Nat \ {0}
<1>1. sizes[c][i] \in 1..Cap
  BY SizeTyped DEF WireTyped
<1>2. sizes[c] \in Seq(1..Cap)
  BY DEF WireTyped, SizesTyped
<1>3. Header \in Nat \ {0} /\ Cap \in Nat
  BY SizesAssumption
<1>4. Len(sizes[c]) \in Nat
  BY <1>2
<1> QED BY <1>1, <1>3, <1>4 DEF Needed

LEMMA WireLen ==
  ASSUME WireTyped, NEW c \in Conns
  PROVE  wire[c] \in Seq(Unit) /\ Len(wire[c]) \in Nat /\ Len(sizes[c]) \in Nat
BY DEF WireTyped, SizesTyped

\* What is at place p.
LEMMA PlaceIs ==
  ASSUME WireTyped, NEW c \in Conns, WireOK(c), NEW p \in 1..Len(wire[c])
  PROVE  /\ wire[c][p].i \in 1..Len(sizes[c]) /\ wire[c][p].i \in Nat \ {0}
         /\ Needed(sizes[c][wire[c][p].i]) \in Nat /\ Needed(sizes[c][wire[c][p].i]) > 1
         /\ wire[c][p].k \in 1..Needed(sizes[c][wire[c][p].i])
         /\ PlaceOK(c, p, wire[c][p].i, wire[c][p].k, Needed(sizes[c][wire[c][p].i]))
         /\ wire[c][p].c = c
         /\ AtFrameEnd(c, p) <=> wire[c][p].k = Needed(sizes[c][wire[c][p].i])
         /\ Complete(c, p) = IF wire[c][p].k = Needed(sizes[c][wire[c][p].i])
                             THEN wire[c][p].i ELSE wire[c][p].i - 1
<1> DEFINE i == wire[c][p].i
           k == wire[c][p].k
           N == Needed(sizes[c][i])
<1>1. i \in 1..Len(sizes[c]) /\ PlaceOK(c, p, i, k, N)
  BY DEF WireOK, UnitOK
<1>2. wire[c][p] = UnitOf(c, i, k) /\ k \in 1..N
  BY <1>1 DEF PlaceOK
<1>3. wire[c][p].c = c
  BY <1>2, UnitParts
<1>4. p # 0
  BY WireLen
<1>5. AtFrameEnd(c, p) <=> k = N
  BY <1>4 DEF AtFrameEnd
<1>6. Complete(c, p) = IF k = N THEN i ELSE i - 1
  BY <1>4, <1>5 DEF Complete
<1>7. i \in Nat \ {0} /\ N \in Nat /\ N > 1
  BY <1>1, NeededTyped
<1> HIDE DEF i, k, N
<1> QED BY <1>1, <1>2, <1>3, <1>5, <1>6, <1>7 DEF i, k, N

\* No more frames are complete than were sent.
LEMMA CompleteTyped ==
  ASSUME WireTyped, NEW c \in Conns, WireOK(c), NEW a \in 0..Len(wire[c])
  PROVE  Complete(c, a) \in Nat /\ Complete(c, a) <= Len(sizes[c])
<1>1. CASE a = 0
  BY <1>1, WireLen DEF Complete
<1>2. CASE a # 0
  <2>1. a \in 1..Len(wire[c])
    BY <1>2, WireLen
  <2>2. PICK i \in 1..Len(sizes[c]) : Complete(c, a) = i \/ Complete(c, a) = i - 1
    <3>1. wire[c][a].i \in 1..Len(sizes[c])
      BY <2>1, PlaceIs
    <3>2. Complete(c, a) = wire[c][a].i \/ Complete(c, a) = wire[c][a].i - 1
      BY <2>1, PlaceIs
    <3> QED BY <3>1, <3>2
  <2> QED BY <2>2, WireLen
<1> QED BY <1>1, <1>2

\* Where the frame begins that the first a units of c break off in.
Start(c, a) == IF AtFrameEnd(c, a) THEN a ELSE a - wire[c][a].k

\* The frame that is arriving starts at the end of a frame, and is not complete.
LEMMA StartIs ==
  ASSUME WireTyped, NEW c \in Conns, WireOK(c), NEW a \in 0..Len(wire[c])
  PROVE  /\ Start(c, a) \in 0..a
         /\ AtFrameEnd(c, Start(c, a))
         /\ Complete(c, Start(c, a)) = Complete(c, a)
<1>1. CASE AtFrameEnd(c, a)
  BY <1>1, WireLen DEF Start
<1>2. CASE ~AtFrameEnd(c, a)
  <2>1. a \in 1..Len(wire[c])
    BY <1>2, WireLen DEF AtFrameEnd
  <2> DEFINE i == wire[c][a].i
             k == wire[c][a].k
             s == a - k
             N == Needed(sizes[c][i])
  <2>2. /\ PlaceOK(c, a, i, k, N) /\ i \in 1..Len(sizes[c])
        /\ i \in Nat \ {0} /\ N \in Nat /\ N > 1 /\ k \in 1..N
        /\ AtFrameEnd(c, a) <=> k = N
        /\ Complete(c, a) = IF k = N THEN i ELSE i - 1
    BY <2>1, PlaceIs
  <2>3. Start(c, a) = s
    BY <1>2 DEF Start
  <2> HIDE DEF i, k, N
  <2>4. Complete(c, a) = i - 1 /\ k <= a /\ a - k + N <= Len(wire[c])
    BY <1>2, <2>2 DEF PlaceOK
  <2>5. s \in 0..a /\ s + 1 \in 1..Len(wire[c])
    BY <2>1, <2>2, <2>4, WireLen
  <2>6. wire[c][s + 1] = UnitOf(c, i, 1)
    BY <2>2 DEF PlaceOK
  <2>7. PlaceOK(c, s + 1, wire[c][s + 1].i, wire[c][s + 1].k, Needed(sizes[c][wire[c][s + 1].i]))
    BY <2>5, PlaceIs
  <2>8. PlaceOK(c, s + 1, i, 1, N)
    BY <2>6, <2>7, UnitParts DEF N
  <2>9. CASE s = 0
    <3>1. i = 1
      BY <2>8, <2>9 DEF PlaceOK
    <3>2. Complete(c, s) = 0 /\ AtFrameEnd(c, s)
      BY <2>9 DEF AtFrameEnd, Complete
    <3> QED BY <2>3, <2>4, <2>5, <3>1, <3>2
  <2>10. CASE s # 0
    <3>1. s + 1 # 1 /\ (s + 1) - 1 = s
      BY <2>5, <2>10
    <3>2. AtFrameEnd(c, s) /\ wire[c][s].i = i - 1
      BY <2>8, <3>1 DEF PlaceOK
    <3>3. Complete(c, s) = i - 1
      BY <2>10, <3>2 DEF Complete
    <3> QED BY <2>3, <2>4, <2>5, <3>2, <3>3
  <2> QED BY <2>9, <2>10
<1> QED BY <1>1, <1>2

\* The units of the frame that begins where the first e units of c end.
NextNeeded(c, e) == Needed(sizes[c][Complete(c, e) + 1])

\* The frame that begins where another one has ended.
LEMMA NextFrame ==
  ASSUME WireTyped, NEW c \in Conns, WireOK(c), NEW e \in 0..Len(wire[c]), e < Len(wire[c]),
         AtFrameEnd(c, e)
  PROVE  /\ Complete(c, e) + 1 \in 1..Len(sizes[c])
         /\ NextNeeded(c, e) \in Nat /\ NextNeeded(c, e) > 1
         /\ e + NextNeeded(c, e) \in 0..Len(wire[c])
         /\ \A m \in 1..NextNeeded(c, e) : wire[c][e + m] = UnitOf(c, Complete(c, e) + 1, m)
         /\ AtFrameEnd(c, e + NextNeeded(c, e))
         /\ Complete(c, e + NextNeeded(c, e)) = Complete(c, e) + 1
         /\ \A a \in e..(e + NextNeeded(c, e) - 1) :
              Start(c, a) = e /\ Complete(c, a) = Complete(c, e)
<1>1. e + 1 \in 1..Len(wire[c]) /\ e \in Nat
  BY WireLen
<1> DEFINE i == wire[c][e + 1].i
           k == wire[c][e + 1].k
           N == Needed(sizes[c][i])
<1>2. PlaceOK(c, e + 1, i, k, N) /\ i \in 1..Len(sizes[c])
  BY <1>1, PlaceIs
<1>3. N \in Nat /\ N > 1 /\ i \in Nat \ {0} /\ k \in 1..N
  BY <1>1, PlaceIs
<1> HIDE DEF i, k
<1>4. k = 1
  <2> SUFFICES ASSUME k # 1 PROVE FALSE
    OBVIOUS
  <2>1. k - 1 \in 1..N /\ (e + 1) - k + (k - 1) = e
    BY <1>1, <1>3
  <2>2. wire[c][e] = UnitOf(c, i, k - 1)
    BY <1>2, <2>1 DEF PlaceOK
  <2>3. e \in 1..Len(wire[c])
    BY <1>1, <1>2, <1>3 DEF PlaceOK
  <2>4. wire[c][e].k = N
    BY <2>2, <2>3, UnitParts DEF AtFrameEnd
  <2> QED BY <1>3, <2>2, <2>4, UnitParts
<1>5. \A m \in 1..N : wire[c][e + m] = UnitOf(c, i, m)
  <2> SUFFICES ASSUME NEW m \in 1..N PROVE wire[c][e + m] = UnitOf(c, i, m)
    OBVIOUS
  <2>1. (e + 1) - k + m = e + m
    BY <1>1, <1>3, <1>4
  <2> QED BY <1>2, <2>1 DEF PlaceOK
<1>6. e + N \in 1..Len(wire[c]) /\ e + N # 0
  BY <1>1, <1>2, <1>3, <1>4, WireLen DEF PlaceOK
<1>7. wire[c][e + N].k = N /\ wire[c][e + N].i = i
  BY <1>3, <1>5, UnitParts
<1>8. AtFrameEnd(c, e + N) /\ Complete(c, e + N) = i
  BY <1>6, <1>7 DEF AtFrameEnd, Complete
<1>9. i = Complete(c, e) + 1
  <2>1. CASE e = 0
    BY <1>2, <1>3, <1>4, <2>1 DEF PlaceOK, Complete
  <2>2. CASE e # 0
    <3>1. e + 1 # 1 /\ (e + 1) - 1 = e
      BY <1>1, <2>2
    <3>2. wire[c][e].i = i - 1
      BY <1>2, <1>4, <3>1 DEF PlaceOK
    <3> QED BY <1>3, <2>2, <3>2 DEF Complete
  <2> QED BY <2>1, <2>2
<1>10. ASSUME NEW a \in e..(e + N - 1)
       PROVE  Start(c, a) = e /\ Complete(c, a) = Complete(c, e)
  <2>1. CASE a = e
    BY <2>1 DEF Start
  <2>2. CASE a # e
    <3>1. a - e \in 1..N /\ e + (a - e) = a /\ a - e # N /\ a # 0
      BY <1>1, <1>3, <2>2
    <3>2. wire[c][a] = UnitOf(c, i, a - e)
      BY <1>5, <3>1
    <3>3. wire[c][a].i = i /\ wire[c][a].k = a - e
      BY <3>2, UnitParts
    <3>4. ~AtFrameEnd(c, a)
      BY <3>1, <3>3 DEF AtFrameEnd
    <3>5. Complete(c, a) = i - 1
      BY <3>1, <3>3, <3>4 DEF Complete
    <3>6. Start(c, a) = a - (a - e)
      BY <3>3, <3>4 DEF Start
    <3>7. a \in Nat /\ a - (a - e) = e
      BY <1>1, <1>3
    <3>8. Complete(c, e) \in Nat
      BY CompleteTyped
    <3> QED BY <1>3, <1>9, <3>5, <3>6, <3>7, <3>8
  <2> QED BY <2>1, <2>2
<1>11. N = NextNeeded(c, e)
  BY <1>9 DEF NextNeeded
<1>12. e + N \in 0..Len(wire[c])
  BY <1>6, WireLen
<1> HIDE DEF N
<1> QED BY <1>2, <1>3, <1>5, <1>8, <1>9, <1>10, <1>11, <1>12

\* More units complete no fewer frames.
LEMMA CompleteGrows ==
  ASSUME WireTyped, NEW c \in Conns, WireOK(c), NEW a \in 0..Len(wire[c]),
         NEW b \in 0..Len(wire[c]), a <= b
  PROVE  Complete(c, a) <= Complete(c, b)
<1>1. Complete(c, a) \in Nat /\ Complete(c, b) \in Nat
  BY CompleteTyped
<1>2. CASE a = 0 \/ a = b
  BY <1>1, <1>2 DEF Complete
<1>3. CASE a # 0 /\ a # b
  <2>1. a \in 1..Len(wire[c]) /\ b \in 1..Len(wire[c]) /\ a < b
    BY <1>3, WireLen
  <2> DEFINE i == wire[c][a].i
             k == wire[c][a].k
  <2>2. /\ i \in Nat /\ Needed(sizes[c][i]) \in Nat /\ k \in 1..Needed(sizes[c][i])
        /\ Complete(c, a) = IF k = Needed(sizes[c][i]) THEN i ELSE i - 1
    BY <2>1, PlaceIs
  <2> DEFINE j == wire[c][b].i
             l == wire[c][b].k
  <2>3. /\ j \in Nat /\ Needed(sizes[c][j]) \in Nat /\ l \in 1..Needed(sizes[c][j])
        /\ Complete(c, b) = IF l = Needed(sizes[c][j]) THEN j ELSE j - 1
    BY <2>1, PlaceIs
  <2>4. i < j \/ (i = j /\ k < l)
    BY <2>1 DEF WireOK, Before
  <2> HIDE DEF i, j, k, l
  <2> QED BY <2>2, <2>3, <2>4
<1> QED BY <1>2, <1>3

LastOf(f) == UnitOf(f.c, f.i, Needed(sizes[f.c][f.i]))

\* A frame is complete when its last unit has arrived.
LEMMA LastCompletes ==
  ASSUME WireTyped, NEW c \in Conns, WireOK(c), NEW a \in 0..Len(wire[c]),
         NEW q \in 1..a, NEW i \in 1..Len(sizes[c]),
         wire[c][q] = UnitOf(c, i, Needed(sizes[c][i]))
  PROVE  i <= Complete(c, a)
<1>1. q \in 1..Len(wire[c]) /\ q \in 0..Len(wire[c]) /\ q <= a /\ q # 0
  BY WireLen
<1>2. wire[c][q].i = i /\ wire[c][q].k = Needed(sizes[c][i])
  BY UnitParts
<1>3. Complete(c, q) = i
  BY <1>1, <1>2 DEF Complete, AtFrameEnd
<1> QED BY <1>1, <1>3, CompleteGrows

\* What arrives next belongs to no frame that is complete.
LEMMA NewIsBeyond ==
  ASSUME WireTyped, NEW c \in Conns, WireOK(c), NEW a \in 0..Len(wire[c]),
         NEW q \in (a + 1)..Len(wire[c])
  PROVE  wire[c][q].i > Complete(c, a)
<1>1. q \in 1..Len(wire[c]) /\ a < q
  BY WireLen
<1> DEFINE j == wire[c][q].i
           l == wire[c][q].k
<1>2. j \in Nat \ {0} /\ Needed(sizes[c][j]) \in Nat /\ l \in 1..Needed(sizes[c][j])
  BY <1>1, PlaceIs
<1>4. CASE a = 0
  BY <1>2, <1>4 DEF Complete
<1>5. CASE a # 0
  <2>1. a \in 1..Len(wire[c])
    BY <1>1, <1>5, WireLen
  <2> DEFINE i == wire[c][a].i
             k == wire[c][a].k
  <2>2. /\ i \in Nat /\ Needed(sizes[c][i]) \in Nat /\ k \in 1..Needed(sizes[c][i])
        /\ Complete(c, a) = IF k = Needed(sizes[c][i]) THEN i ELSE i - 1
    BY <2>1, PlaceIs
  <2>3. i < j \/ (i = j /\ k < l)
    BY <1>1, <2>1 DEF WireOK, Before
  <2> HIDE DEF i, j, k, l
  <2> QED BY <1>2, <2>2, <2>3 DEF j
<1> QED BY <1>4, <1>5

-----------------------------------------------------------------------------
(* push() on a stream that begins with a frame *)

LEMMA WireKnown ==
  ASSUME WireTyped, NEW c \in Conns, WireOK(c)
  PROVE  wire[c] \in Seq(Known)
<1>1. wire[c] \in Seq(Unit)
  BY WireLen
<1>2. ASSUME NEW p \in 1..Len(wire[c]) PROVE wire[c][p] \in Known
  <2>1. wire[c][p] \in Unit
    BY <1>1, ElementTyped
  <2>2. wire[c][p].c = c /\ wire[c][p].i \in 1..Len(sizes[c])
    BY PlaceIs
  <2> QED BY <2>1, <2>2 DEF Known
<1>3. wire[c] = [p \in 1..Len(wire[c]) |-> wire[c][p]] /\ Len(wire[c]) \in Nat
  BY <1>1
<1> QED BY <1>2, <1>3

\* The units of c from e + 1 to a.
Part(c, e, a) == SubSeq(wire[c], e + 1, a)

\* A part of a stream, unit by unit.
LEMMA PartIs ==
  ASSUME WireTyped, NEW c \in Conns, WireOK(c), NEW a \in 0..Len(wire[c]), NEW e \in 0..a
  PROVE  /\ Part(c, e, a) \in Seq(Known)
         /\ Len(Part(c, e, a)) = a - e
         /\ \A p \in 1..(a - e) : Part(c, e, a)[p] = wire[c][e + p]
<1>1. wire[c] \in Seq(Known) /\ Len(wire[c]) \in Nat
  BY WireKnown
<1>2. e \in Nat /\ a \in Nat /\ e <= a /\ a <= Len(wire[c])
  BY <1>1
<1>3. Part(c, e, a) \in Seq(Known)
  BY <1>1, <1>2 DEF Part
<1>4. Len(Part(c, e, a)) = a - e
  BY <1>1, <1>2 DEF Part
<1>5. \A p \in 1..(a - e) : Part(c, e, a)[p] = wire[c][e + p]
  BY <1>1, <1>2 DEF Part
<1> QED BY <1>3, <1>4, <1>5

\* The rest of a part is a part.
LEMMA PartRest ==
  ASSUME WireTyped, NEW c \in Conns, WireOK(c), NEW a \in 0..Len(wire[c]), NEW e \in 0..a,
         NEW l \in 0..(a - e)
  PROVE  SubSeq(Part(c, e, a), l + 1, Len(Part(c, e, a))) = Part(c, e + l, a)
<1> DEFINE b == Part(c, e, a)
           r == SubSeq(b, l + 1, Len(b))
           q == Part(c, e + l, a)
<1>1. a \in Nat /\ e \in Nat /\ l \in Nat /\ e + l \in 0..a /\ a - (e + l) = (a - e) - l
  BY WireLen
<1>2. b \in Seq(Known) /\ Len(b) = a - e /\ \A p \in 1..(a - e) : b[p] = wire[c][e + p]
  BY PartIs
<1>3. q \in Seq(Known) /\ Len(q) = a - (e + l)
      /\ \A p \in 1..(a - (e + l)) : q[p] = wire[c][(e + l) + p]
  BY <1>1, PartIs
<1> HIDE DEF b, q
<1>4. /\ r \in Seq(Known) /\ Len(r) = (a - e) - l
      /\ \A p \in 1..((a - e) - l) : r[p] = b[l + p]
  BY <1>2, CutTyped
<1> HIDE DEF r
<1>5. ASSUME NEW p \in 1..((a - e) - l) PROVE r[p] = q[p]
  <2>1. l + p \in 1..(a - e) /\ e + (l + p) = (e + l) + p
    BY <1>1
  <2> QED BY <1>1, <1>2, <1>3, <1>4, <2>1
<1>6. r = q
  BY <1>1, <1>3, <1>4, <1>5, SameSequence
<1> QED BY <1>6 DEF b, r, q

\* A longer sequence has the same parts.
LEMMA SamePart ==
  ASSUME NEW S, NEW s \in Seq(S), NEW t \in Seq(S), Len(t) >= Len(s),
         \A p \in 1..Len(s) : t[p] = s[p], NEW a \in 0..Len(s), NEW e \in 0..a
  PROVE  SubSeq(s, e + 1, a) = SubSeq(t, e + 1, a)
<1> DEFINE x == SubSeq(s, e + 1, a)
           y == SubSeq(t, e + 1, a)
<1>1. a \in Nat /\ e \in Nat /\ Len(s) \in Nat /\ Len(t) \in Nat /\ a <= Len(t)
  OBVIOUS
<1>2. x \in Seq(S) /\ Len(x) = a - e /\ \A p \in 1..(a - e) : x[p] = s[e + p]
  BY <1>1
<1>3. y \in Seq(S) /\ Len(y) = a - e /\ \A p \in 1..(a - e) : y[p] = t[e + p]
  BY <1>1
<1> HIDE DEF x, y
<1>4. ASSUME NEW p \in 1..(a - e) PROVE x[p] = y[p]
  <2>1. e + p \in 1..Len(s)
    BY <1>1
  <2> QED BY <1>2, <1>3, <2>1
<1>5. x = y
  BY <1>2, <1>3, <1>4, SameSequence
<1> QED BY <1>5 DEF x, y

\* The frames of c after the first m, up to n.
FramesOf(c, m, n) == [t \in 1..(n - m) |-> [c |-> c, i |-> m + t]]

\* The frames m+1..n in order, and one more.
LEMMA FramesGrow ==
  ASSUME NEW c \in Conns, NEW m \in Nat, NEW n \in Nat, m <= n
  PROVE  /\ FramesOf(c, m, n) \in Seq(Frame)
         /\ Len(FramesOf(c, m, n)) = n - m
         /\ \A t \in 1..(n - m) : FramesOf(c, m, n)[t] = [c |-> c, i |-> m + t]
         /\ Append(FramesOf(c, m, n), [c |-> c, i |-> n + 1]) = FramesOf(c, m, n + 1)
<1> DEFINE f == FramesOf(c, m, n)
           x == [c |-> c, i |-> n + 1]
           g == FramesOf(c, m, n + 1)
<1>1. \A t \in 1..(n - m) : [c |-> c, i |-> m + t] \in Frame
  BY DEF Frame, Nr
<1>2. n - m \in Nat /\ (n + 1) - m = (n - m) + 1
  OBVIOUS
<1>3. /\ f \in Seq(Frame) /\ Len(f) = n - m
      /\ \A t \in 1..(n - m) : f[t] = [c |-> c, i |-> m + t]
  <2>1. f = [t \in 1..(n - m) |-> [c |-> c, i |-> m + t]]
    BY DEF FramesOf
  <2> HIDE DEF f
  <2>2. f \in [1..(n - m) -> Frame] /\ \A t \in 1..(n - m) : f[t] = [c |-> c, i |-> m + t]
    BY <1>1, <2>1
  <2>3. f \in Seq(Frame) /\ Len(f) = n - m
    BY <1>2, <2>2, SequenceTyped
  <2> QED BY <2>2, <2>3
<1>4. x \in Frame
  BY DEF Frame, Nr
<1>5. g = [t \in 1..((n - m) + 1) |-> [c |-> c, i |-> m + t]]
  BY <1>2 DEF FramesOf
<1> HIDE DEF f, g
<1>6. Append(f, x) = g
  <2>1. Append(f, x) \in Seq(Frame) /\ Len(Append(f, x)) = (n - m) + 1
    BY <1>3, <1>4
  <2>2. ASSUME NEW t \in 1..((n - m) + 1) PROVE Append(f, x)[t] = [c |-> c, i |-> m + t]
    <3>1. CASE t = (n - m) + 1
      <4>1. m + t = n + 1
        BY <3>1
      <4> QED BY <1>3, <3>1, <4>1
    <3>2. CASE t # (n - m) + 1
      <4>1. t \in 1..(n - m)
        BY <1>2, <3>2
      <4> QED BY <1>3, <4>1
    <3> QED BY <3>1, <3>2
  <2>3. Append(f, x) = [t \in 1..((n - m) + 1) |-> Append(f, x)[t]]
    BY <2>1
  <2> QED BY <1>5, <2>2, <2>3
<1> QED BY <1>3, <1>6 DEF f, g

LEMMA NoFrames ==
  ASSUME NEW c \in Conns, NEW m \in Nat
  PROVE  FramesOf(c, m, m) = <<>>
<1>1. m - m = 0 /\ m <= m
  OBVIOUS
<1>2. FramesOf(c, m, m) \in Seq(Frame) /\ Len(FramesOf(c, m, m)) = m - m
  BY <1>1, FramesGrow
<1> QED BY <1>1, <1>2, EmptySequence

\* push() may refuse the first frame it ever sees, if that is too large.
Refused(c, m, n) ==
  /\ n = 0 /\ reader # "twice"
  /\ m + 1 \in 1..Len(sizes[c])
  /\ sizes[c][m + 1] > FirstCap

\* The loop of push() that began after m frames of c with n emitted: it has decoded the frames
\* up to e, and leaves with the piece of a frame.
CleanAt(c, a, m, n, e, s) ==
  /\ e \in 0..a /\ AtFrameEnd(c, e)
  /\ m <= Complete(c, e)
  /\ s.buf = Part(c, e, a)
  /\ s.out = FramesOf(c, m, Complete(c, e))
  /\ s.emitted = n + (Complete(c, e) - m)
  /\ s.at = "left" => e = Start(c, a)

Clean(c, a, m, n, s) ==
  /\ s.at = "thrown" => s.out = <<>> /\ Refused(c, m, n)
  /\ s.at # "thrown" => \E e \in Nat : CleanAt(c, a, m, n, e, s)

\* With a header in front, the length is read that was written.
LEMMA RightLength ==
  ASSUME WireTyped, NEW c \in Conns, WireOK(c), NEW a \in 0..Len(wire[c]), NEW e \in 0..a,
         AtFrameEnd(c, e), a - e >= Header
  PROVE  /\ e < Len(wire[c]) /\ a - e >= 1
         /\ Lengths(Part(c, e, a)) = {sizes[c][Complete(c, e) + 1]}
         /\ Part(c, e, a)[1].c = c /\ Part(c, e, a)[1].i = Complete(c, e) + 1
<1> DEFINE b == Part(c, e, a)
           i == Complete(c, e) + 1
           N == NextNeeded(c, e)
<1>1. Header \in Nat \ {0} /\ a \in Nat /\ e \in Nat /\ a <= Len(wire[c]) /\ Len(wire[c]) \in Nat
  BY SizesAssumption, WireLen
<1>2. e < Len(wire[c]) /\ a - e >= 1
  BY <1>1
<1>3. i \in 1..Len(sizes[c]) /\ N \in Nat /\ \A m \in 1..N : wire[c][e + m] = UnitOf(c, i, m)
  BY <1>2, NextFrame
<1>4. N > Header
  BY <1>3, NeededTyped DEF NextNeeded
<1>5. \A p \in 1..(a - e) : b[p] = wire[c][e + p]
  BY PartIs
<1> HIDE DEF b, i, N
<1>6. ASSUME NEW k \in 1..Header PROVE b[k] = UnitOf(c, i, k)
  <2>1. k \in 1..N /\ k \in 1..(a - e)
    BY <1>1, <1>3, <1>4
  <2> QED BY <1>3, <1>5, <2>1
<1>7. b[1] = UnitOf(c, i, 1)
  BY <1>1, <1>6
<1>8. b[1].c = c /\ b[1].i = i
  BY <1>7, UnitParts
<1>9. IsHeader(b)
  BY <1>6, <1>8, UnitParts DEF IsHeader
<1>10. Lengths(b) = {sizes[c][i]}
  BY <1>8, <1>9 DEF Lengths
<1> QED BY <1>2, <1>8, <1>10 DEF b, i

\* A whole frame parses.
LEMMA WholeParses ==
  ASSUME WireTyped, NEW c \in Conns, WireOK(c), NEW a \in 0..Len(wire[c]), NEW e \in 0..a,
         AtFrameEnd(c, e), a - e >= Header, NextNeeded(c, e) <= a - e
  PROVE  Parses(SubSeq(Part(c, e, a), 1, NextNeeded(c, e)))
<1> DEFINE b == Part(c, e, a)
           i == Complete(c, e) + 1
           N == NextNeeded(c, e)
           f == SubSeq(b, 1, N)
<1>1. e < Len(wire[c]) /\ Header \in Nat
  BY RightLength, SizesAssumption
<1>2. i \in 1..Len(sizes[c]) /\ N \in Nat /\ \A m \in 1..N : wire[c][e + m] = UnitOf(c, i, m)
  BY <1>1, NextFrame
<1>3. N > Header /\ N > 1 /\ N = Needed(sizes[c][i])
  BY <1>2, NeededTyped DEF NextNeeded
<1>4. b \in Seq(Known) /\ Len(b) = a - e /\ \A p \in 1..(a - e) : b[p] = wire[c][e + p]
  BY PartIs
<1>5. a \in Nat /\ e \in Nat /\ N \in 0..Len(b)
  BY <1>2, <1>4, WireLen
<1> HIDE DEF b, i, N
<1>6. f \in Seq(Known) /\ Len(f) = N /\ \A p \in 1..N : f[p] = b[p]
  BY <1>4, <1>5, CutTyped
<1> HIDE DEF f
<1>7. ASSUME NEW p \in 1..N PROVE f[p] = UnitOf(c, i, p)
  <2>1. p \in 1..(a - e)
    BY <1>4, <1>5
  <2> QED BY <1>2, <1>4, <1>6, <2>1
<1>8. f[1] = UnitOf(c, i, 1)
  BY <1>2, <1>3, <1>7
<1>9. f[1].c = c /\ f[1].i = i
  BY <1>8, UnitParts
<1>10. Encoded(c, i) = [p \in 1..N |-> UnitOf(c, i, p)]
  BY <1>3 DEF Encoded, Framed, UnitOf
<1>11. f = [p \in 1..N |-> f[p]]
  BY <1>6
<1>12. f = Encoded(c, i)
  BY <1>7, <1>10, <1>11
<1>13. Parses(f)
  BY <1>3, <1>6, <1>9, <1>12 DEF Parses
<1> QED BY <1>13 DEF f, b, N

\* A turn that reads a length has the length of the next frame.
LEMMA CleanLength ==
  ASSUME WireTyped, NEW c \in Conns, WireOK(c), NEW a \in 0..Len(wire[c]), NEW e \in 0..a,
         AtFrameEnd(c, e), a - e >= Header, NEW len \in Lengths(Part(c, e, a))
  PROVE  /\ len = sizes[c][Complete(c, e) + 1] /\ len \in 1..Cap
         /\ Complete(c, e) + 1 \in 1..Len(sizes[c])
         /\ Needed(len) = NextNeeded(c, e) /\ NextNeeded(c, e) \in Nat /\ NextNeeded(c, e) > 1
         /\ Complete(c, e) \in Nat
<1>1. e < Len(wire[c]) /\ len = sizes[c][Complete(c, e) + 1]
  BY RightLength
<1>2. /\ Complete(c, e) + 1 \in 1..Len(sizes[c])
      /\ NextNeeded(c, e) \in Nat /\ NextNeeded(c, e) > 1
  BY <1>1, NextFrame
<1>3. len \in 1..Cap
  BY <1>1, <1>2, SizeTyped DEF WireTyped
<1>4. e \in 0..Len(wire[c])
  BY WireLen
<1> QED BY <1>1, <1>2, <1>3, <1>4, CompleteTyped DEF NextNeeded

\* A turn on a decoder that holds a part of one stream keeps it in step with the stream.
LEMMA CleanTurn ==
  ASSUME WireTyped, NEW c \in Conns, WireOK(c), NEW a \in 0..Len(wire[c]),
         NEW m \in Nat, NEW n \in Nat,
         NEW s \in Loops, Clean(c, a, m, n, s), NEW t \in Turns(s)
  PROVE  Clean(c, a, m, n, t)
<1>1. CASE s.at # "on"
  BY <1>1, TurnsTyped DEF WireTyped
<1>2. CASE s.at = "on"
  <2>1. PICK e \in Nat : CleanAt(c, a, m, n, e, s)
    BY <1>2 DEF Clean
  <2> DEFINE b == Part(c, e, a)
             i == Complete(c, e) + 1
             N == NextNeeded(c, e)
  <2>2. /\ e \in 0..a /\ AtFrameEnd(c, e) /\ m <= Complete(c, e)
        /\ s.buf = b /\ s.out = FramesOf(c, m, Complete(c, e))
        /\ s.emitted = n + (Complete(c, e) - m)
    BY <2>1 DEF CleanAt
  <2>3. e \in 0..Len(wire[c]) /\ a \in Nat /\ e \in Nat /\ a <= Len(wire[c]) /\ Len(wire[c]) \in Nat
    BY <2>2, WireLen
  <2>4. Complete(c, e) \in Nat /\ Header \in Nat \ {0}
    BY <2>3, CompleteTyped, SizesAssumption
  <2>5. b \in Seq(Known) /\ Len(b) = a - e
    BY <2>2, PartIs
  <2>6. ASSUME a - e < Header \/ (a - e >= Header /\ a - e < N) PROVE e = Start(c, a)
    <3>1. CASE e = a
      BY <2>2, <3>1 DEF Start
    <3>2. CASE e # a
      <4>1. e < Len(wire[c])
        BY <2>2, <2>3, <3>2
      <4>2. /\ i \in 1..Len(sizes[c]) /\ N \in Nat
            /\ \A z \in e..(e + N - 1) : Start(c, z) = e
        BY <2>2, <2>3, <4>1, NextFrame
      <4>3. N > Header
        BY <4>2, NeededTyped DEF NextNeeded
      <4>4. a \in e..(e + N - 1)
        BY <2>2, <2>3, <2>4, <2>6, <4>2, <4>3
      <4> QED BY <4>2, <4>4
    <3> QED BY <3>1, <3>2
  <2>7. ASSUME t = Loop(s.buf, s.emitted, s.out, "left"), e = Start(c, a)
        PROVE  Clean(c, a, m, n, t)
    <3>1. CleanAt(c, a, m, n, e, t)
      BY <2>2, <2>7, LoopParts DEF CleanAt
    <3> QED BY <2>3, <2>7, <3>1, LoopParts DEF Clean
  <2>8. CASE Len(s.buf) < Header /\ t = Loop(s.buf, s.emitted, s.out, "left")
    BY <2>2, <2>5, <2>6, <2>7, <2>8
  <2>9. ASSUME NEW len \in Lengths(s.buf), Len(s.buf) >= Header,
               \/ len > CapFor(s.emitted) /\ t = Loop(s.buf, s.emitted, <<>>, "thrown")
               \/ /\ ~(len > CapFor(s.emitted))
                  /\ Len(s.buf) < Needed(len)
                  /\ t = Loop(s.buf, s.emitted, s.out, "left")
               \/ /\ Needed(len) \in 1..Len(s.buf)
                  /\ ~Parses(SubSeq(s.buf, 1, Needed(len)))
                  /\ t = Loop(SubSeq(s.buf, Needed(len) + 1, Len(s.buf)), s.emitted, <<>>, "thrown")
               \/ /\ Needed(len) \in 1..Len(s.buf)
                  /\ ~(len > CapFor(s.emitted))
                  /\ Parses(SubSeq(s.buf, 1, Needed(len)))
                  /\ t = Loop(SubSeq(s.buf, Needed(len) + 1, Len(s.buf)), s.emitted + 1,
                              Append(s.out, [c |-> s.buf[1].c, i |-> s.buf[1].i]), "on")
        PROVE  Clean(c, a, m, n, t)
    <3>1. a - e >= Header /\ len \in Lengths(b)
      BY <2>2, <2>5, <2>9
    <3>2. /\ len = sizes[c][i] /\ len \in 1..Cap /\ i \in 1..Len(sizes[c])
          /\ Needed(len) = N /\ N \in Nat /\ N > 1
      BY <2>2, <3>1, CleanLength
    <3>3. CASE len > CapFor(s.emitted) /\ t = Loop(s.buf, s.emitted, <<>>, "thrown")
      <4>1. Cap \in Nat /\ len <= Cap
        BY <3>2, SizesAssumption
      <4>2. reader # "twice" /\ s.emitted = 0 /\ len > FirstCap
        BY <3>2, <3>3, <4>1 DEF CapFor
      <4>3. n = 0 /\ Complete(c, e) = m
        BY <2>2, <2>4, <4>2
      <4>4. Refused(c, m, n)
        BY <3>2, <4>2, <4>3 DEF Refused
      <4> QED BY <3>3, <4>4, LoopParts DEF Clean
    <3>4. CASE Len(s.buf) < Needed(len) /\ t = Loop(s.buf, s.emitted, s.out, "left")
      BY <2>2, <2>5, <2>6, <2>7, <3>1, <3>2, <3>4
    <3>5. CASE Needed(len) \in 1..Len(s.buf) /\ ~Parses(SubSeq(s.buf, 1, Needed(len)))
      <4>1. N <= a - e
        BY <2>2, <2>3, <2>5, <3>2, <3>5
      <4> QED BY <2>2, <3>1, <3>2, <3>5, <4>1, WholeParses
    <3>6. CASE /\ Needed(len) \in 1..Len(s.buf)
               /\ t = Loop(SubSeq(s.buf, Needed(len) + 1, Len(s.buf)), s.emitted + 1,
                           Append(s.out, [c |-> s.buf[1].c, i |-> s.buf[1].i]), "on")
      <4>1. N \in 0..(a - e) /\ e + N \in 0..a /\ e + N \in Nat
        BY <2>2, <2>3, <2>5, <3>2, <3>6
      <4>2. SubSeq(b, N + 1, Len(b)) = Part(c, e + N, a)
        BY <2>2, <4>1, PartRest
      <4>3. e < Len(wire[c]) /\ b[1].c = c /\ b[1].i = i
        BY <2>2, <3>1, RightLength
      <4>4. AtFrameEnd(c, e + N) /\ Complete(c, e + N) = i
        BY <2>2, <2>3, <4>3, NextFrame
      <4>5. Append(FramesOf(c, m, Complete(c, e)), [c |-> c, i |-> i]) = FramesOf(c, m, i)
        BY <2>2, <2>4, FramesGrow
      <4>6. t = Loop(Part(c, e + N, a), s.emitted + 1, FramesOf(c, m, i), "on")
        BY <2>2, <3>2, <3>6, <4>2, <4>3, <4>5
      <4>7. /\ t.buf = Part(c, e + N, a) /\ t.emitted = s.emitted + 1
            /\ t.out = FramesOf(c, m, i) /\ t.at = "on"
        BY <4>6, LoopParts
      <4>8. t.emitted = n + (i - m) /\ m <= i
        BY <2>2, <2>4, <4>7
      <4>9. CleanAt(c, a, m, n, e + N, t)
        BY <4>1, <4>4, <4>7, <4>8 DEF CleanAt
      <4> QED BY <4>1, <4>7, <4>9 DEF Clean
    <3> QED BY <2>9, <3>3, <3>4, <3>5, <3>6
  <2> QED BY <1>2, <2>8, <2>9, TurnCases DEF WireTyped
<1> QED BY <1>1, <1>2

\* How push() ends on the units of c that have arrived since the last frame was complete.
LEMMA CleanPush ==
  ASSUME WireTyped, NEW c \in Conns, WireOK(c), NEW a \in 0..Len(wire[c]), NEW old \in 0..a,
         NEW n \in Nat, NEW r \in Decode(Part(c, Start(c, old), a), n)
  PROVE  /\ r \in Loops
         /\ \/ /\ r.at = "left"
               /\ r.buf = Part(c, Start(c, a), a)
               /\ r.out = FramesOf(c, Complete(c, old), Complete(c, a))
               /\ r.emitted = n + (Complete(c, a) - Complete(c, old))
            \/ r.at = "thrown" /\ r.out = <<>> /\ Refused(c, Complete(c, old), n)
<1> DEFINE m == Complete(c, old)
           e == Start(c, old)
           b == Part(c, e, a)
           first == Loop(b, n, <<>>, "on")
           I == {s \in Loops : Clean(c, a, m, n, s)}
<1>1. old \in 0..Len(wire[c]) /\ a \in Nat /\ old \in Nat
  BY WireLen
<1>2. e \in 0..old /\ AtFrameEnd(c, e) /\ Complete(c, e) = m /\ m \in Nat
  BY <1>1, StartIs, CompleteTyped
<1>3. e \in 0..a /\ e \in Nat
  BY <1>1, <1>2
<1>4. b \in Seq(Known)
  BY <1>3, PartIs
<1> HIDE DEF m, e, b
<1>5. first \in Loops
  <2>1. <<>> \in Seq(Frame)
    OBVIOUS
  <2> QED BY <1>4, <2>1, LoopTyped
<1>6. first \in I
  <2>1. FramesOf(c, m, m) = <<>>
    <3> HIDE DEF first, I
    <3> QED BY <1>2, NoFrames
  <2>2. first.buf = b /\ first.emitted = n /\ first.out = <<>> /\ first.at = "on"
    BY LoopParts
  <2>3. CleanAt(c, a, m, n, e, first)
    <3> HIDE DEF first
    <3> QED BY <1>2, <1>3, <2>1, <2>2 DEF CleanAt, b
  <2> QED BY <1>3, <1>5, <2>2, <2>3 DEF Clean
<1>7. \A s \in I : Turns(s) \subseteq I
  BY <1>2, TurnsTyped, CleanTurn DEF WireTyped
<1> HIDE DEF I, first
<1>8. I \in SUBSET Loops
  BY DEF I
<1>9. r \in I /\ r.at # "on"
  BY <1>4, <1>6, <1>7, <1>8, LoopInduction DEF WireTyped, first, b, e
<1>10. r \in Loops /\ Clean(c, a, m, n, r) /\ r.at \in {"left", "thrown"}
  BY <1>9 DEF I, Loops
<1>11. CASE r.at = "thrown"
  BY <1>10, <1>11 DEF Clean, m
<1>12. CASE r.at = "left"
  <2>1. PICK z \in Nat : CleanAt(c, a, m, n, z, r)
    BY <1>10, <1>12 DEF Clean
  <2>2. z = Start(c, a)
    BY <1>12, <2>1 DEF CleanAt
  <2>3. Complete(c, z) = Complete(c, a)
    BY <2>2, StartIs
  <2> QED BY <1>10, <1>12, <2>1, <2>2, <2>3 DEF CleanAt, m
<1> QED BY <1>10, <1>11, <1>12

-----------------------------------------------------------------------------
(* push() on anything *)

\* The units of each connection are in their order.
Sorted(b) ==
  \A p, q \in 1..Len(b) : p < q /\ b[p].c = b[q].c => Before(b[p], b[q])

\* The frames of each connection are.
InOrder(out) ==
  \A t, u \in 1..Len(out) : t < u /\ out[t].c = out[u].c => out[t].i < out[u].i

\* A frame whose last unit is among the first e units of b.
EndsIn(b, e, f) ==
  /\ f \in Frame /\ f.i \in 1..Len(sizes[f.c])
  /\ \E p \in 1..e : b[p] = LastOf(f)

\* The loop of push() on b, when e units have been taken.
SoundAt(b, e, s) ==
  /\ e \in 0..Len(b)
  /\ s.buf = SubSeq(b, e + 1, Len(b))
  /\ \A t \in 1..Len(s.out) : EndsIn(b, e, s.out[t])
  /\ Sorted(b) => InOrder(s.out)

Sound(b, s) == \E e \in Nat : SoundAt(b, e, s)

\* The last unit of a frame comes after all its other units.
LEMMA LastIsLast ==
  ASSUME WireTyped, NEW f \in Frame, f.i \in 1..Len(sizes[f.c]), NEW g \in Frame,
         g.i \in 1..Len(sizes[g.c]), f.c = g.c, Before(LastOf(f), LastOf(g))
  PROVE  f.i < g.i
<1>1. f.c \in Conns /\ g.c \in Conns /\ f.i \in Nr /\ g.i \in Nr
  BY DEF Frame
<1>2. LastOf(f).i = f.i /\ LastOf(f).k = Needed(sizes[f.c][f.i])
  BY UnitParts DEF LastOf
<1>3. LastOf(g).i = g.i /\ LastOf(g).k = Needed(sizes[g.c][g.i])
  BY UnitParts DEF LastOf
<1>4. Needed(sizes[f.c][f.i]) \in Nat
  BY <1>1, NeededTyped
<1>5. f.i < g.i \/ (f.i = g.i /\ Needed(sizes[f.c][f.i]) < Needed(sizes[g.c][g.i]))
  BY <1>2, <1>3 DEF Before
<1>6. f.i = g.i => Needed(sizes[f.c][f.i]) = Needed(sizes[g.c][g.i])
  OBVIOUS
<1> QED BY <1>4, <1>5, <1>6

\* Dropping e elements and then l is dropping e + l.
LEMMA CutTwice ==
  ASSUME NEW S, NEW b \in Seq(S), NEW e \in 0..Len(b), NEW l \in 0..(Len(b) - e)
  PROVE  /\ e + l \in 0..Len(b)
         /\ SubSeq(SubSeq(b, e + 1, Len(b)), l + 1, Len(SubSeq(b, e + 1, Len(b))))
              = SubSeq(b, (e + l) + 1, Len(b))
<1> DEFINE x == SubSeq(b, e + 1, Len(b))
           y == SubSeq(x, l + 1, Len(x))
           z == SubSeq(b, (e + l) + 1, Len(b))
<1>1. Len(b) \in Nat /\ e \in Nat /\ l \in Nat /\ e + l \in 0..Len(b)
      /\ (Len(b) - e) - l = Len(b) - (e + l)
  OBVIOUS
<1>2. /\ x \in Seq(S) /\ Len(x) = Len(b) - e
      /\ \A p \in 1..(Len(b) - e) : x[p] = b[e + p]
  BY CutTyped
<1>3. /\ z \in Seq(S) /\ Len(z) = Len(b) - (e + l)
      /\ \A p \in 1..(Len(b) - (e + l)) : z[p] = b[(e + l) + p]
  BY <1>1, CutTyped
<1> HIDE DEF x, z
<1>4. /\ y \in Seq(S) /\ Len(y) = (Len(b) - e) - l
      /\ \A p \in 1..((Len(b) - e) - l) : y[p] = x[l + p]
  <2>1. l \in 0..Len(x)
    BY <1>2
  <2>2. /\ y \in Seq(S) /\ Len(y) = Len(x) - l
        /\ \A p \in 1..(Len(x) - l) : y[p] = x[l + p]
    BY <1>2, <2>1, CutTyped
  <2> HIDE DEF y
  <2> QED BY <1>2, <2>2
<1> HIDE DEF y
<1>5. ASSUME NEW p \in 1..Len(y) PROVE y[p] = z[p]
  <2>1. p \in 1..(Len(b) - (e + l)) /\ l + p \in 1..(Len(b) - e) /\ e + (l + p) = (e + l) + p
    BY <1>1, <1>4
  <2> QED BY <1>1, <1>2, <1>3, <1>4, <2>1
<1>6. y = z
  BY <1>1, <1>3, <1>4, <1>5, SameSequence
<1> QED BY <1>1, <1>6 DEF x, y, z

\* What parses is a frame that was sent, to its last unit.
LEMMA ParsedIs ==
  ASSUME WireTyped, NEW f \in Seq(Known), Len(f) > 0, Parses(f),
         NEW g, g = [c |-> f[1].c, i |-> f[1].i]
  PROVE  /\ g \in Frame /\ g.i \in 1..Len(sizes[g.c])
         /\ f[Len(f)] = LastOf(g)
<1> DEFINE c == f[1].c
           i == f[1].i
           N == Needed(sizes[c][i])
<1>1. f[1] \in Known
  BY ElementTyped
<1>2. c \in Conns /\ i \in Nr /\ i \in 1..Len(sizes[c])
  BY <1>1 DEF Known, Unit
<1>3. g \in Frame /\ g.c = c /\ g.i = i
  BY <1>2 DEF Frame
<1>4. f = [k \in 1..N |-> UnitOf(c, i, k)]
  BY DEF Parses, Encoded, Framed, UnitOf
<1>5. N \in Nat /\ N > 1
  BY <1>2, NeededTyped
<1>6. Len(f) = N /\ N \in 1..N
  <2> HIDE DEF N, c, i
  <2>1. DOMAIN f = 1..N /\ DOMAIN f = 1..Len(f) /\ Len(f) \in Nat
    <3>1. DOMAIN f = 1..N
      BY <1>4
    <3>2. DOMAIN f = 1..Len(f) /\ Len(f) \in Nat
      OBVIOUS
    <3> QED BY <3>1, <3>2
  <2>2. Len(f) \in 1..N /\ N \in 1..Len(f)
    BY <1>5, <2>1
  <2> QED BY <1>5, <2>1, <2>2
<1>7. f[Len(f)] = UnitOf(c, i, N)
  <2> HIDE DEF N, c, i
  <2> QED BY <1>4, <1>6
<1>8. LastOf(g) = UnitOf(c, i, N)
  BY <1>3 DEF LastOf
<1> QED BY <1>2, <1>3, <1>7, <1>8

\* A turn on any decoder decodes nothing but frames that are whole in it, in their order.
LEMMA SoundTurn ==
  ASSUME WireTyped, NEW b \in Seq(Known), NEW s \in Loops, Sound(b, s), NEW t \in Turns(s)
  PROVE  Sound(b, t)
<1>1. CASE s.at # "on"
  BY <1>1, TurnsTyped DEF WireTyped
<1>2. CASE s.at = "on"
  <2>1. PICK e \in Nat : SoundAt(b, e, s)
    BY DEF Sound
  <2>2. /\ e \in 0..Len(b) /\ s.buf = SubSeq(b, e + 1, Len(b))
        /\ \A z \in 1..Len(s.out) : EndsIn(b, e, s.out[z])
        /\ Sorted(b) => InOrder(s.out)
    BY <2>1 DEF SoundAt
  <2>3. /\ s.buf \in Seq(Known) /\ Len(s.buf) = Len(b) - e /\ Len(b) \in Nat
        /\ \A p \in 1..(Len(b) - e) : s.buf[p] = b[e + p]
    BY <2>2, CutTyped
  <2>4. s.out \in Seq(Frame) /\ Len(s.out) \in Nat
    BY DEF Loops
  <2>5. CASE t = Loop(s.buf, s.emitted, s.out, "left")
    <3>1. SoundAt(b, e, t)
      <4>1. t.buf = s.buf /\ t.out = s.out
        BY <2>5, LoopParts
      <4> QED BY <2>2, <4>1 DEF SoundAt
    <3> QED BY <3>1 DEF Sound
  <2>6. CASE t = Loop(s.buf, s.emitted, <<>>, "thrown")
    <3>1. SoundAt(b, e, t)
      <4>1. t.buf = s.buf /\ t.out = <<>>
        BY <2>6, LoopParts
      <4> QED BY <2>2, <4>1 DEF SoundAt, InOrder
    <3> QED BY <3>1 DEF Sound
  <2>7. ASSUME NEW l \in 1..Len(s.buf),
               \/ t = Loop(SubSeq(s.buf, l + 1, Len(s.buf)), s.emitted, <<>>, "thrown")
               \/ /\ Parses(SubSeq(s.buf, 1, l))
                  /\ t = Loop(SubSeq(s.buf, l + 1, Len(s.buf)), s.emitted + 1,
                              Append(s.out, [c |-> s.buf[1].c, i |-> s.buf[1].i]), "on")
        PROVE  Sound(b, t)
    <3> DEFINE rest == SubSeq(s.buf, l + 1, Len(s.buf))
               g == [c |-> s.buf[1].c, i |-> s.buf[1].i]
               f == SubSeq(s.buf, 1, l)
    <3>1. l \in 0..(Len(b) - e) /\ l > 0 /\ e + l \in Nat /\ l \in 0..Len(s.buf) /\ l \in 1..l
      BY <2>3
    <3>2. e + l \in 0..Len(b) /\ rest = SubSeq(b, (e + l) + 1, Len(b))
      BY <2>2, <3>1, CutTwice
    <3>3. f \in Seq(Known) /\ Len(f) = l /\ \A p \in 1..l : f[p] = s.buf[p]
      BY <2>3, <3>1, CutTyped
    <3> HIDE DEF rest, f
    <3>4. CASE t = Loop(rest, s.emitted, <<>>, "thrown")
      <4>1. t.buf = rest /\ t.out = <<>>
        BY <3>4, LoopParts
      <4>2. SoundAt(b, e + l, t)
        BY <3>2, <4>1 DEF SoundAt, InOrder
      <4> QED BY <3>1, <4>2 DEF Sound
    <3>5. CASE Parses(f) /\ t = Loop(rest, s.emitted + 1, Append(s.out, g), "on")
      <4> HIDE DEF g
      <4> DEFINE longer == Append(s.out, g)
      <4>0. Parses(f) /\ t = Loop(rest, s.emitted + 1, longer, "on")
        BY <3>5 DEF g
      <4> HIDE DEF longer
      <4>1. t.buf = rest /\ t.out = longer
        BY <4>0, LoopParts
      <4> USE DEF longer
      <4>2. g = [c |-> f[1].c, i |-> f[1].i]
        <5>1. 1 \in 1..l
          BY <3>1
        <5> QED BY <3>3, <5>1 DEF g
      <4>3. g \in Frame /\ g.i \in 1..Len(sizes[g.c]) /\ f[l] = LastOf(g)
        BY <3>1, <3>3, <3>5, <4>2, ParsedIs
      <4>4. b[e + l] = LastOf(g) /\ e + l \in 1..(e + l)
        BY <2>3, <3>1, <3>3, <4>3
      <4>5. /\ Len(t.out) = Len(s.out) + 1 /\ t.out[Len(s.out) + 1] = g
            /\ \A z \in 1..Len(s.out) : t.out[z] = s.out[z]
        BY <2>4, <4>1, <4>3
      <4>6. ASSUME NEW z \in 1..Len(t.out) PROVE EndsIn(b, e + l, t.out[z])
        <5>1. CASE z = Len(s.out) + 1
          BY <4>3, <4>4, <4>5, <5>1 DEF EndsIn
        <5>2. CASE z # Len(s.out) + 1
          <6>1. z \in 1..Len(s.out)
            BY <2>4, <4>5, <5>2
          <6>2. EndsIn(b, e, t.out[z])
            BY <2>2, <4>5, <6>1
          <6>3. \A p \in 1..e : p \in 1..(e + l)
            BY <3>1
          <6> QED BY <6>2, <6>3 DEF EndsIn
        <5> QED BY <5>1, <5>2
      <4>7. ASSUME Sorted(b), NEW y \in 1..Len(t.out), NEW z \in 1..Len(t.out),
                   y < z, t.out[y].c = t.out[z].c
            PROVE  t.out[y].i < t.out[z].i
        <5>1. y \in 1..Len(s.out)
          BY <2>4, <4>5, <4>7
        <5>2. CASE z = Len(s.out) + 1
          <6>1. PICK p \in 1..e : b[p] = LastOf(t.out[y])
            BY <2>2, <4>5, <5>1 DEF EndsIn
          <6>2. t.out[y] \in Frame /\ t.out[y].i \in 1..Len(sizes[t.out[y].c])
            BY <4>6 DEF EndsIn
          <6>3. p \in 1..Len(b) /\ e + l \in 1..Len(b) /\ p < e + l
            BY <2>2, <2>3, <3>1, <3>2
          <6>4. t.out[z] = g
            BY <4>5, <5>2
          <6>5. b[p].c = t.out[y].c /\ b[e + l].c = g.c
            BY <4>4, <6>1, UnitParts DEF LastOf
          <6>6. Before(b[p], b[e + l])
            BY <4>7, <6>3, <6>4, <6>5 DEF Sorted
          <6> QED BY <4>3, <4>4, <4>7, <6>1, <6>2, <6>4, <6>6, LastIsLast
        <5>3. CASE z # Len(s.out) + 1
          <6>1. z \in 1..Len(s.out)
            BY <2>4, <4>5, <5>3
          <6> QED BY <2>2, <4>5, <4>7, <5>1, <6>1 DEF InOrder
        <5> QED BY <5>2, <5>3
      <4>8. SoundAt(b, e + l, t)
        BY <3>2, <4>1, <4>6, <4>7 DEF SoundAt, InOrder
      <4> QED BY <3>1, <4>8 DEF Sound
    <3> QED BY <2>7, <3>4, <3>5 DEF rest, f, g
  <2>8. ASSUME NEW len \in Lengths(s.buf), Needed(len) \in 1..Len(s.buf),
               \/ t = Loop(SubSeq(s.buf, Needed(len) + 1, Len(s.buf)), s.emitted, <<>>, "thrown")
               \/ /\ Parses(SubSeq(s.buf, 1, Needed(len)))
                  /\ t = Loop(SubSeq(s.buf, Needed(len) + 1, Len(s.buf)), s.emitted + 1,
                              Append(s.out, [c |-> s.buf[1].c, i |-> s.buf[1].i]), "on")
        PROVE  Sound(b, t)
    BY <2>7, <2>8
  <2> QED BY <1>2, <2>5, <2>6, <2>8, TurnCases DEF WireTyped
<1> QED BY <1>1, <1>2

\* So does the whole of push().
LEMMA SoundPush ==
  ASSUME WireTyped, NEW b \in Seq(Known), NEW n \in Nat, NEW r \in Decode(b, n)
  PROVE  r \in Loops /\ r.at # "on" /\ Sound(b, r)
<1> DEFINE first == Loop(b, n, <<>>, "on")
           I == {s \in Loops : Sound(b, s)}
<1>1. <<>> \in Seq(Frame) /\ 0 \in 0..Len(b) /\ SubSeq(b, 1, Len(b)) = b
  OBVIOUS
<1>2. first \in Loops
  BY <1>1, LoopTyped
<1>3. first.buf = b /\ first.out = <<>>
  BY LoopParts
<1> HIDE DEF first
<1>4. Sound(b, first)
  <2>1. SoundAt(b, 0, first)
    BY <1>1, <1>3 DEF SoundAt, InOrder
  <2> QED BY <2>1 DEF Sound
<1>5. first \in I /\ I \in SUBSET Loops
  BY <1>2, <1>4
<1>6. \A s \in I : Turns(s) \subseteq I
  BY TurnsTyped, SoundTurn DEF WireTyped
<1> HIDE DEF I
<1>7. r \in I /\ r.at # "on"
  BY <1>5, <1>6, LoopInduction DEF WireTyped, first
<1> QED BY <1>7 DEF I

-----------------------------------------------------------------------------
(* What has arrived, is held and is handled *)

ArrivedIn(a) == {x \in Known : \E q \in 1..a[x.c] : wire[x.c][q] = x}

\* What is handled comes before what b has, units or frames.
Behind(h, b) == \A p \in 1..Len(b) : \A j \in 1..Len(h[b[p].c]) : h[b[p].c][j] < b[p].i

FramesBehind(out, b) ==
  \A t \in 1..Len(out) : \A p \in 1..Len(b) : b[p].c = out[t].c => out[t].i < b[p].i

Increasing(s) == \A i, j \in 1..Len(s) : i < j => s[i] < s[j]

Distinct(s) == \A i, j \in 1..Len(s) : i < j => s[i] # s[j]

Bounded(h, top) == \A c \in Conns : \A j \in 1..Len(h[c]) : h[c][j] <= top[c]

LEMMA HeldIsKnown ==
  ASSUME NEW a, NEW b \in Seq(ArrivedIn(a))
  PROVE  b \in Seq(Known)
<1>1. ArrivedIn(a) \subseteq Known
  BY DEF ArrivedIn
<1> QED BY <1>1, WiderSequence

\* A unit that has arrived belongs to a frame that was sent.
LEMMA ArrivedTyped ==
  ASSUME WireTyped, \A c \in Conns : WireOK(c), NEW a \in [Conns -> Nat],
         \A c \in Conns : a[c] <= Len(wire[c]), NEW x \in ArrivedIn(a)
  PROVE  /\ x.c \in Conns /\ x.i \in 1..Len(sizes[x.c]) /\ x.i \in Nat
         /\ x.k \in Nat /\ x.k <= Needed(sizes[x.c][x.i])
<1>1. x \in Known
  BY DEF ArrivedIn
<1>2. x.c \in Conns /\ x.i \in 1..Len(sizes[x.c]) /\ x.i \in Nat /\ x.k \in Nat
  BY <1>1 DEF Known, Unit, Nr
<1>3. PICK q \in 1..a[x.c] : wire[x.c][q] = x
  BY DEF ArrivedIn
<1>4. q \in 1..Len(wire[x.c])
  BY <1>2, WireLen
<1>5. wire[x.c][q].k \in 1..Needed(sizes[x.c][wire[x.c][q].i])
      /\ Needed(sizes[x.c][wire[x.c][q].i]) \in Nat
  BY <1>2, <1>4, PlaceIs
<1> QED BY <1>2, <1>3, <1>5

\* What push() returns has arrived whole, and what it keeps has arrived.
LEMMA PushArrived ==
  ASSUME WireTyped, \A c \in Conns : WireOK(c), NEW a \in [Conns -> Nat],
         \A c \in Conns : a[c] <= Len(wire[c]),
         NEW b \in Seq(ArrivedIn(a)), NEW n \in Nat, NEW r \in Decode(b, n)
  PROVE  /\ r \in Loops /\ r.at # "on"
         /\ r.buf \in Seq(ArrivedIn(a))
         /\ \A t \in 1..Len(r.out) :
              r.out[t] \in Frame /\ r.out[t].i <= Complete(r.out[t].c, a[r.out[t].c])
<1>1. b \in Seq(Known)
  BY HeldIsKnown
<1>2. r \in Loops /\ r.at # "on" /\ Sound(b, r)
  BY <1>1, SoundPush
<1>3. PICK e \in Nat : SoundAt(b, e, r)
  BY <1>2 DEF Sound
<1>4. e \in 0..Len(b) /\ r.buf = SubSeq(b, e + 1, Len(b))
      /\ \A t \in 1..Len(r.out) : EndsIn(b, e, r.out[t])
  BY <1>3 DEF SoundAt
<1>5. r.buf \in Seq(ArrivedIn(a))
  BY <1>4, CutTyped
<1>6. ASSUME NEW t \in 1..Len(r.out)
      PROVE  r.out[t] \in Frame /\ r.out[t].i <= Complete(r.out[t].c, a[r.out[t].c])
  <2> DEFINE f == r.out[t]
  <2>1. f \in Frame /\ f.i \in 1..Len(sizes[f.c]) /\ f.c \in Conns
    BY <1>4 DEF EndsIn, Frame
  <2>2. PICK p \in 1..e : b[p] = LastOf(f)
    BY <1>4 DEF EndsIn
  <2>3. p \in 1..Len(b)
    BY <1>4
  <2>4. LastOf(f) \in ArrivedIn(a)
    BY <2>2, <2>3, ElementTyped
  <2>5. LastOf(f).c = f.c
    BY UnitParts DEF LastOf
  <2>6. PICK q \in 1..a[f.c] : wire[f.c][q] = LastOf(f)
    BY <2>4, <2>5 DEF ArrivedIn
  <2>7. a[f.c] \in 0..Len(wire[f.c])
    BY <2>1, WireLen
  <2> HIDE DEF f
  <2>8. f.i <= Complete(f.c, a[f.c])
    BY <2>1, <2>6, <2>7, LastCompletes DEF LastOf
  <2> QED BY <2>1, <2>8 DEF f
<1> QED BY <1>2, <1>5, <1>6

\* On units that are in order, push() keeps what comes after what it returns.
LEMMA PushInOrder ==
  ASSUME WireTyped, \A c \in Conns : WireOK(c), NEW a \in [Conns -> Nat],
         \A c \in Conns : a[c] <= Len(wire[c]),
         NEW b \in Seq(ArrivedIn(a)), Sorted(b), NEW n \in Nat, NEW r \in Decode(b, n),
         NEW h \in Taking, Behind(h, b)
  PROVE  /\ Sorted(r.buf) /\ InOrder(r.out)
         /\ Behind(h, r.buf) /\ Behind(h, r.out) /\ FramesBehind(r.out, r.buf)
<1>1. b \in Seq(Known) /\ r \in Loops /\ Sound(b, r)
  BY HeldIsKnown, SoundPush
<1>2. PICK e \in Nat : SoundAt(b, e, r)
  BY <1>1 DEF Sound
<1>3. /\ e \in 0..Len(b) /\ r.buf = SubSeq(b, e + 1, Len(b))
      /\ \A t \in 1..Len(r.out) : EndsIn(b, e, r.out[t])
      /\ InOrder(r.out)
  BY <1>2 DEF SoundAt
<1>4. /\ Len(r.buf) = Len(b) - e /\ Len(b) \in Nat
      /\ \A p \in 1..(Len(b) - e) : r.buf[p] = b[e + p]
  BY <1>3, CutTyped
<1>5. \A p \in 1..Len(r.buf) : e + p \in 1..Len(b) /\ r.buf[p] = b[e + p] /\ p \in Nat
  BY <1>3, <1>4
<1>6. Sorted(r.buf)
  <2> SUFFICES ASSUME NEW p \in 1..Len(r.buf), NEW q \in 1..Len(r.buf), p < q,
                      r.buf[p].c = r.buf[q].c
               PROVE  Before(r.buf[p], r.buf[q])
    BY DEF Sorted
  <2>1. e + p < e + q
    BY <1>5
  <2> QED BY <1>5, <2>1 DEF Sorted
<1>7. Behind(h, r.buf)
  BY <1>5 DEF Behind
<1>8. ASSUME NEW t \in 1..Len(r.out)
      PROVE  /\ \A j \in 1..Len(h[r.out[t].c]) : h[r.out[t].c][j] < r.out[t].i
             /\ \A p \in 1..Len(r.buf) : r.buf[p].c = r.out[t].c => r.out[t].i < r.buf[p].i
  <2> DEFINE f == r.out[t]
  <2>1. f \in Frame /\ f.i \in 1..Len(sizes[f.c]) /\ f.c \in Conns /\ f.i \in Nat
    BY <1>3 DEF EndsIn, Frame, Nr
  <2>2. PICK l \in 1..e : b[l] = LastOf(f)
    BY <1>3 DEF EndsIn
  <2>3. l \in 1..Len(b) /\ l \in Nat
    BY <1>3
  <2> HIDE DEF f
  <2>4. b[l].c = f.c /\ b[l].i = f.i /\ b[l].k = Needed(sizes[f.c][f.i])
    BY <2>2, UnitParts DEF LastOf
  <2>5. \A j \in 1..Len(h[f.c]) : h[f.c][j] < f.i
    BY <2>3, <2>4 DEF Behind
  <2>6. ASSUME NEW p \in 1..Len(r.buf), r.buf[p].c = f.c PROVE f.i < r.buf[p].i
    <3>1. e + p \in 1..Len(b) /\ l < e + p
      BY <1>3, <1>5, <2>3
    <3>2. Before(b[l], b[e + p])
      BY <1>5, <2>3, <2>4, <2>6, <3>1 DEF Sorted
    <3> DEFINE x == b[e + p]
    <3>3. x \in ArrivedIn(a)
      BY <3>1, ElementTyped
    <3>4. x.c = f.c
      BY <1>5, <2>6
    <3> HIDE DEF x
    <3>5. f.i < x.i \/ (f.i = x.i /\ Needed(sizes[f.c][f.i]) < x.k)
      BY <2>4, <3>2 DEF Before, x
    <3>6. x.i \in Nat /\ x.k \in Nat /\ x.k <= Needed(sizes[x.c][x.i])
      BY <3>3, ArrivedTyped
    <3>7. Needed(sizes[f.c][f.i]) \in Nat
      BY <2>1, NeededTyped
    <3>8. f.i = x.i => Needed(sizes[f.c][f.i]) = Needed(sizes[x.c][x.i])
      BY <3>4
    <3>9. f.i < x.i
      BY <2>1, <3>5, <3>6, <3>7, <3>8
    <3> QED BY <1>5, <3>9 DEF x
  <2> QED BY <2>5, <2>6 DEF f
<1>9. Behind(h, r.out) /\ FramesBehind(r.out, r.buf)
  BY <1>8 DEF Behind, FramesBehind
<1> QED BY <1>3, <1>6, <1>7, <1>9

-----------------------------------------------------------------------------
(* What is handled when the frames have been dispatched *)

LEMMA TakenCases ==
  ASSUME NEW s \in Seq(Nr), NEW i \in Nr
  PROVE  /\ Taken(s, i) \in Seq(Nr) /\ Len(Taken(s, i)) \in Nat /\ Len(s) \in Nat
         /\ \/ Taken(s, i) = s /\ reader # "own" /\ \E j \in 1..Len(s) : s[j] = i
            \/ /\ Len(Taken(s, i)) = Len(s) + 1 /\ Taken(s, i)[Len(s) + 1] = i
               /\ \A j \in 1..Len(s) : Taken(s, i)[j] = s[j]
               /\ reader = "own" \/ \A j \in 1..Len(s) : s[j] # i
<1> DEFINE t == Taken(s, i)
<1>1. Range(s) = {s[j] : j \in 1..Len(s)}
  BY DEF Range
<1>2. CASE reader # "own" /\ i \in Range(s)
  BY <1>1, <1>2 DEF Taken
<1>3. CASE ~(reader # "own" /\ i \in Range(s))
  <2>1. t = Append(s, i)
    BY <1>3 DEF Taken
  <2> QED BY <1>1, <1>3, <2>1
<1> QED BY <1>2, <1>3

\* Nothing is taken back, made up, or taken twice by the clients.
LEMMA HandledGrows ==
  ASSUME handled \in Taking, NEW out \in Seq(Frame), NEW top \in [Conns -> Nat],
         \A t \in 1..Len(out) : out[t].i <= top[out[t].c],
         Bounded(handled, top),
         reader # "own" => \A c \in Conns : Distinct(handled[c])
  PROVE  /\ HandledWith(out) \in Taking
         /\ \A c \in Conns : Len(HandledWith(out)[c]) >= Len(handled[c])
         /\ Bounded(HandledWith(out), top)
         /\ reader # "own" => \A c \in Conns : Distinct(HandledWith(out)[c])
<1> DEFINE Grown(h) == /\ \A c \in Conns : Len(h[c]) >= Len(handled[c])
                       /\ Bounded(h, top)
                       /\ reader # "own" => \A c \in Conns : Distinct(h[c])
           J == {x \in Nat \X Taking : Grown(x[2])}
<1>1. \A c \in Conns : Len(handled[c]) \in Nat
  BY DEF Taking
<1>2. <<0, handled>> \in J
  BY <1>1
<1>3. ASSUME NEW m \in 1..Len(out), NEW h \in Taking, <<m - 1, h>> \in J
      PROVE  <<m, Dispatched(h, out[m])>> \in J
  <2> DEFINE f == out[m]
             g == Dispatched(h, f)
  <2>1. f \in Frame /\ f.c \in Conns /\ f.i \in Nr /\ m \in Nat
    <3>1. f \in Frame
      BY ElementTyped
    <3> QED BY <3>1 DEF Frame
  <2>2. g \in Taking /\ g[f.c] = Taken(h[f.c], f.i) /\ \A d \in Conns : d # f.c => g[d] = h[d]
    BY <2>1, DispatchedTyped
  <2>3. Grown(h) /\ f.i <= top[f.c]
    BY <1>3
  <2> HIDE DEF f, g
  <2>4. ASSUME NEW c \in Conns
        PROVE  /\ Len(g[c]) >= Len(handled[c])
               /\ \A j \in 1..Len(g[c]) : g[c][j] <= top[c]
               /\ reader # "own" => Distinct(g[c])
    <3>1. /\ Len(h[c]) >= Len(handled[c]) /\ \A j \in 1..Len(h[c]) : h[c][j] <= top[c]
          /\ reader # "own" => Distinct(h[c])
      BY <2>3 DEF Bounded
    <3>2. CASE c # f.c
      BY <2>2, <3>1, <3>2
    <3>3. CASE c = f.c
      <4> DEFINE s == h[c]
                 t == g[c]
      <4>1. s \in Seq(Nr) /\ f.i \in Nr /\ t = Taken(s, f.i) /\ f.i <= top[c]
        BY <2>1, <2>2, <2>3, <3>3 DEF Taking
      <4> HIDE DEF s, t
      <4>2. /\ Len(t) \in Nat /\ Len(s) \in Nat
            /\ \/ t = s
               \/ /\ Len(t) = Len(s) + 1 /\ t[Len(s) + 1] = f.i
                  /\ \A j \in 1..Len(s) : t[j] = s[j]
                  /\ reader = "own" \/ \A j \in 1..Len(s) : s[j] # f.i
        BY <4>1, TakenCases
      <4>3. Len(t) >= Len(handled[c])
        <5>1. Len(s) >= Len(handled[c]) /\ Len(handled[c]) \in Nat
          BY <1>1, <3>1 DEF s
        <5>2. Len(t) \in Nat /\ Len(s) \in Nat /\ Len(t) >= Len(s)
          BY <4>2
        <5> QED BY <5>1, <5>2
      <4>4. ASSUME NEW j \in 1..Len(t) PROVE t[j] <= top[c]
        <5>1. j \in 1..Len(s) \/ (j = Len(s) + 1 /\ t[j] = f.i)
          BY <4>2
        <5> QED BY <3>1, <4>1, <4>2, <5>1 DEF s
      <4>5. ASSUME reader # "own" PROVE Distinct(t)
        <5> SUFFICES ASSUME NEW i \in 1..Len(t), NEW j \in 1..Len(t), i < j PROVE t[i] # t[j]
          BY DEF Distinct
        <5>1. CASE t = s
          BY <3>1, <4>5, <5>1 DEF Distinct, s
        <5>2. CASE t # s
          <6>1. i \in 1..Len(s) /\ (j \in 1..Len(s) \/ j = Len(s) + 1)
            BY <4>2, <5>2
          <6>2. CASE j = Len(s) + 1
            BY <4>2, <4>5, <5>2, <6>1, <6>2
          <6>3. CASE j \in 1..Len(s)
            BY <3>1, <4>2, <4>5, <5>2, <6>1, <6>3 DEF Distinct, s
          <6> QED BY <6>1, <6>2, <6>3
        <5> QED BY <5>1, <5>2
      <4> QED BY <4>3, <4>4, <4>5 DEF t
    <3> QED BY <3>2, <3>3
  <2>5. Grown(g)
    BY <2>4 DEF Bounded
  <2> QED BY <2>1, <2>2, <2>5 DEF f, g
<1> HIDE DEF J
<1>4. HandledWith(out) \in Taking /\ <<Len(out), HandledWith(out)>> \in J
  BY <1>2, <1>3, DispatchInduction
<1> QED BY <1>4 DEF J

\* What comes in order, and after all that was handled, is handled in order, before the rest.
LEMMA HandledInOrder ==
  ASSUME handled \in Taking, NEW out \in Seq(Frame), NEW b,
         \A p \in 1..Len(b) : b[p].c \in Conns,
         \A c \in Conns : Increasing(handled[c]),
         InOrder(out), Behind(handled, out), Behind(handled, b), FramesBehind(out, b)
  PROVE  /\ \A c \in Conns : Increasing(HandledWith(out)[c])
         /\ Behind(HandledWith(out), b)
<1> DEFINE Ahead(h, m) == \A t \in (m + 1)..Len(out) : \A j \in 1..Len(h[out[t].c]) :
                            h[out[t].c][j] < out[t].i
           Good(h, m) == /\ \A c \in Conns : Increasing(h[c])
                         /\ Ahead(h, m)
                         /\ Behind(h, b)
           J == {x \in Nat \X Taking : Good(x[2], x[1])}
<1>1. Len(out) \in Nat
  OBVIOUS
<1>2. <<0, handled>> \in J
  <2>1. \A t \in (0 + 1)..Len(out) : t \in 1..Len(out)
    BY <1>1
  <2>2. Ahead(handled, 0)
    BY <2>1 DEF Behind
  <2> QED BY <2>2
<1>3. ASSUME NEW m \in 1..Len(out), NEW h \in Taking, <<m - 1, h>> \in J
      PROVE  <<m, Dispatched(h, out[m])>> \in J
  <2> DEFINE f == out[m]
             g == Dispatched(h, f)
             s == h[f.c]
             t == g[f.c]
  <2>1. f \in Frame /\ f.c \in Conns /\ f.i \in Nr /\ f.i \in Nat /\ m \in Nat
    <3>1. f \in Frame
      BY ElementTyped
    <3> QED BY <3>1 DEF Frame, Nr
  <2>2. g \in Taking /\ g[f.c] = Taken(h[f.c], f.i) /\ \A d \in Conns : d # f.c => g[d] = h[d]
    BY <2>1, DispatchedTyped
  <2>3. /\ \A c \in Conns : Increasing(h[c])
        /\ Ahead(h, m - 1)
        /\ Behind(h, b)
    BY <1>3
  <2>4. s \in Seq(Nr) /\ t = Taken(s, f.i)
    BY <2>1, <2>2 DEF Taking
  <2>5. /\ Len(t) \in Nat /\ Len(s) \in Nat
        /\ \/ t = s
           \/ /\ Len(t) = Len(s) + 1 /\ t[Len(s) + 1] = f.i
              /\ \A j \in 1..Len(s) : t[j] = s[j]
    <3> HIDE DEF s, t, f
    <3> QED BY <2>1, <2>4, TakenCases
  <2>6. \A j \in 1..Len(s) : s[j] < f.i
    <3>1. m \in ((m - 1) + 1)..Len(out)
      BY <1>1, <2>1
    <3> QED BY <2>3, <3>1
  <2>7. \A j \in 1..Len(t) : (j \in 1..Len(s) /\ t[j] = s[j]) \/ t[j] = f.i
    <3> HIDE DEF s, t
    <3>1. CASE t = s
      BY <3>1
    <3>2. CASE t # s
      <4>1. \A j \in 1..Len(t) : j \in 1..Len(s) \/ j = Len(s) + 1
        BY <2>5, <3>2
      <4> QED BY <2>5, <3>2, <4>1
    <3> QED BY <3>1, <3>2
  <2> HIDE DEF f, g, s, t
  <2>8. Increasing(t)
    <3>1. Increasing(s)
      BY <2>1, <2>3 DEF s
    <3> SUFFICES ASSUME t # s, NEW i \in 1..Len(t), NEW j \in 1..Len(t), i < j PROVE t[i] < t[j]
      BY <3>1 DEF Increasing
    <3>2. i \in 1..Len(s) /\ (j \in 1..Len(s) \/ j = Len(s) + 1)
      BY <2>5
    <3>3. CASE j = Len(s) + 1
      BY <2>5, <2>6, <3>2, <3>3
    <3>4. CASE j \in 1..Len(s)
      BY <2>5, <3>1, <3>2, <3>4 DEF Increasing
    <3> QED BY <3>2, <3>3, <3>4
  <2>9. \A c \in Conns : Increasing(g[c])
    BY <2>2, <2>3, <2>8 DEF t
  <2>10. ASSUME NEW u \in (m + 1)..Len(out), NEW j \in 1..Len(g[out[u].c])
         PROVE  g[out[u].c][j] < out[u].i
    <3>1. u \in 1..Len(out) /\ u \in ((m - 1) + 1)..Len(out) /\ m < u
      BY <1>1, <2>1
    <3>2. out[u] \in Frame
      BY <3>1, ElementTyped
    <3>3. out[u].c \in Conns
      BY <3>2 DEF Frame
    <3>4. CASE out[u].c # f.c
      BY <2>2, <2>3, <3>1, <3>3, <3>4
    <3>5. CASE out[u].c = f.c
      <4>1. f.i < out[u].i
        BY <3>1, <3>5 DEF InOrder, f
      <4>2. \A l \in 1..Len(s) : s[l] < out[u].i
        BY <2>3, <3>1, <3>5 DEF s
      <4>3. j \in 1..Len(t) /\ g[out[u].c][j] = t[j]
        BY <3>5 DEF t
      <4> QED BY <2>7, <4>1, <4>2, <4>3
    <3> QED BY <3>4, <3>5
  <2>11. ASSUME NEW p \in 1..Len(b), NEW j \in 1..Len(g[b[p].c])
         PROVE  g[b[p].c][j] < b[p].i
    <3>1. b[p].c \in Conns
      OBVIOUS
    <3>2. CASE b[p].c # f.c
      BY <2>2, <2>3, <3>1, <3>2 DEF Behind
    <3>3. CASE b[p].c = f.c
      <4>1. f.i < b[p].i
        BY <3>3 DEF FramesBehind, f
      <4>2. \A l \in 1..Len(s) : s[l] < b[p].i
        BY <2>3, <3>3 DEF Behind, s
      <4>3. j \in 1..Len(t) /\ g[b[p].c][j] = t[j]
        BY <3>3 DEF t
      <4> QED BY <2>7, <4>1, <4>2, <4>3
    <3> QED BY <3>2, <3>3
  <2>12. Good(g, m)
    BY <2>9, <2>10, <2>11 DEF Behind
  <2> QED BY <2>1, <2>2, <2>12 DEF f, g
<1> HIDE DEF J
<1>4. HandledWith(out) \in Taking /\ <<Len(out), HandledWith(out)>> \in J
  BY <1>2, <1>3, DispatchInduction
<1> QED BY <1>4 DEF J

\* The first frames of a connection.
FirstFrames(n) == [i \in 1..n |-> i]

\* Taking frame n+1 after the frames 1..n leaves the frames 1..n+1.
LEMMA FirstFramesGrow ==
  ASSUME NEW n \in Nat
  PROVE  /\ FirstFrames(n) \in Seq(Nr) /\ Taken(FirstFrames(n), n + 1) = FirstFrames(n + 1)
         /\ Len(FirstFrames(n)) = n /\ Increasing(FirstFrames(n))
         /\ \A j \in 1..Len(FirstFrames(n)) : FirstFrames(n)[j] \in 1..n
<1> DEFINE s == FirstFrames(n)
           z == FirstFrames(n + 1)
<1>1. s = [i \in 1..n |-> i] /\ z = [i \in 1..(n + 1) |-> i] /\ n + 1 \in Nr
  BY DEF FirstFrames, Nr
<1> HIDE DEF s, z
<1>2. s \in Seq(Nr) /\ Len(s) = n
  <2>1. s \in [1..n -> Nr]
    BY <1>1 DEF Nr
  <2> QED BY <2>1, SequenceTyped
<1>3. \A j \in 1..n : s[j] = j
  BY <1>1
<1> DEFINE k == n + 1
           t == Taken(s, k)
<1>4. Len(t) = n + 1 /\ t \in Seq(Nr) /\ t[n + 1] = n + 1 /\ \A j \in 1..n : t[j] = j
  <2>1. /\ t \in Seq(Nr)
        /\ \/ t = s /\ reader # "own" /\ \E j \in 1..Len(s) : s[j] = k
           \/ /\ Len(t) = Len(s) + 1 /\ t[Len(s) + 1] = k
              /\ \A j \in 1..Len(s) : t[j] = s[j]
    <3>1. k \in Nr
      BY <1>1
    <3> HIDE DEF k
    <3> QED BY <1>2, <3>1, TakenCases
  <2>2. ~\E j \in 1..Len(s) : s[j] = n + 1
    BY <1>2, <1>3
  <2> HIDE DEF t
  <2> QED BY <1>2, <1>3, <2>1, <2>2
<1> HIDE DEF t
<1>5. t = z
  <2>1. t = [j \in 1..Len(t) |-> t[j]]
    BY <1>4
  <2>2. \A j \in 1..(n + 1) : t[j] = j
    <3>1. \A j \in 1..(n + 1) : j \in 1..n \/ j = n + 1
      OBVIOUS
    <3> QED BY <1>4, <3>1
  <2> QED BY <1>1, <1>4, <2>1, <2>2
<1> QED BY <1>2, <1>3, <1>5 DEF s, t, z, Increasing

\* The next frames of c are handled, one after the other.
LEMMA HandledClean ==
  ASSUME handled \in Taking, NEW c \in Conns, NEW m \in Nat, NEW n \in Nat, m <= n,
         handled[c] = FirstFrames(m)
  PROVE  HandledWith(FramesOf(c, m, n)) = [handled EXCEPT ![c] = FirstFrames(n)]
<1> DEFINE out == FramesOf(c, m, n)
           So(l) == [handled EXCEPT ![c] = FirstFrames(m + l)]
           J == {x \in Nat \X Taking : x[2] = So(x[1])}
<1>1. /\ out \in Seq(Frame) /\ Len(out) = n - m /\ n - m \in Nat
      /\ \A t \in 1..(n - m) : out[t] = [c |-> c, i |-> m + t]
  <2>1. n - m \in Nat
    OBVIOUS
  <2>2. /\ FramesOf(c, m, n) \in Seq(Frame) /\ Len(FramesOf(c, m, n)) = n - m
        /\ \A t \in 1..(n - m) : FramesOf(c, m, n)[t] = [c |-> c, i |-> m + t]
    BY FramesGrow
  <2> QED BY <2>1, <2>2
<1> HIDE DEF out
<1>2. <<0, handled>> \in J
  <2>1. m + 0 = m
    OBVIOUS
  <2>2. handled = [handled EXCEPT ![c] = FirstFrames(m)]
    BY DEF Taking
  <2> QED BY <2>1, <2>2
<1>3. ASSUME NEW l \in 1..Len(out), NEW h \in Taking, <<l - 1, h>> \in J
      PROVE  <<l, Dispatched(h, out[l])>> \in J
  <2> DEFINE f == out[l]
             k == m + (l - 1)
             g == Dispatched(h, f)
  <2>1. l \in Nat /\ k \in Nat /\ k + 1 = m + l /\ f \in Frame
    BY <1>1, ElementTyped
  <2>2. f.c = c /\ f.i = k + 1
    <3>1. l \in 1..(n - m)
      BY <1>1
    <3>2. f = [c |-> c, i |-> m + l]
      BY <1>1, <3>1
    <3> QED BY <2>1, <3>2
  <2>3. h = [handled EXCEPT ![c] = FirstFrames(k)]
    BY <1>3
  <2>4. h[c] = FirstFrames(k) /\ \A d \in Conns : d # c => h[d] = handled[d]
    BY <2>3 DEF Taking
  <2>5. g \in Taking /\ g[c] = Taken(h[c], k + 1) /\ \A d \in Conns : d # c => g[d] = h[d]
    BY <2>1, <2>2, DispatchedTyped
  <2> HIDE DEF f, k, g
  <2>6. g[c] = FirstFrames(m + l)
    BY <2>1, <2>4, <2>5, FirstFramesGrow
  <2>7. g = So(l)
    BY <2>4, <2>5, <2>6 DEF Taking
  <2> QED BY <2>1, <2>5, <2>7 DEF f, g
<1> HIDE DEF J
<1>4. <<Len(out), HandledWith(out)>> \in J
  BY <1>1, <1>2, <1>3, DispatchInduction
<1>5. m + Len(out) = n
  BY <1>1
<1> QED BY <1>4, <1>5 DEF J, out

\* A push that returns nothing has nothing handled.
LEMMA HandledNone ==
  ASSUME handled \in Taking
  PROVE  HandledWith(<<>>) = handled
<1> DEFINE J == {x \in Nat \X Taking : x[2] = handled}
<1>1. <<>> \in Seq(Frame) /\ 1..Len(<<>>) = {} /\ <<0, handled>> \in J
  OBVIOUS
<1>2. \A m \in 1..Len(<<>>) : \A h \in Taking :
           <<m - 1, h>> \in J => <<m, Dispatched(h, <<>>[m])>> \in J
  BY <1>1
<1> HIDE DEF J
<1>3. <<Len(<<>>), HandledWith(<<>>)>> \in J
  BY <1>1, <1>2, DispatchInduction
<1> QED BY <1>3 DEF J

-----------------------------------------------------------------------------
(* A chunk *)

LEMMA PartJoins ==
  ASSUME WireTyped, NEW c \in Conns, WireOK(c), NEW z \in 0..Len(wire[c]), NEW a \in 0..z,
         NEW e \in 0..a
  PROVE  Part(c, e, a) \o Part(c, a, z) = Part(c, e, z)
<1> DEFINE x == Part(c, e, a)
           y == Part(c, a, z)
           w == Part(c, e, z)
<1>1. z \in Nat /\ a \in Nat /\ e \in Nat /\ e <= a /\ a <= z /\ e \in 0..z /\ a \in 0..Len(wire[c])
  BY WireLen
<1>2. x \in Seq(Known) /\ Len(x) = a - e /\ \A p \in 1..(a - e) : x[p] = wire[c][e + p]
  BY <1>1, PartIs
<1>3. y \in Seq(Known) /\ Len(y) = z - a /\ \A p \in 1..(z - a) : y[p] = wire[c][a + p]
  BY <1>1, PartIs
<1>4. w \in Seq(Known) /\ Len(w) = z - e /\ \A p \in 1..(z - e) : w[p] = wire[c][e + p]
  BY <1>1, PartIs
<1> HIDE DEF x, y, w
<1>5. /\ x \o y \in Seq(Known) /\ Len(x \o y) = Len(x) + Len(y)
      /\ \A p \in 1..(Len(x) + Len(y)) :
           \/ p \in 1..Len(x) /\ (x \o y)[p] = x[p]
           \/ p - Len(x) \in 1..Len(y) /\ (x \o y)[p] = y[p - Len(x)]
  BY <1>2, <1>3, JoinTyped
<1>6. Len(x \o y) = z - e /\ Len(x) + Len(y) = z - e
  BY <1>1, <1>2, <1>3, <1>5
<1>7. ASSUME NEW p \in 1..(z - e) PROVE (x \o y)[p] = w[p]
  <2>1. \/ p \in 1..(a - e) /\ (x \o y)[p] = x[p]
        \/ p - (a - e) \in 1..(z - a) /\ (x \o y)[p] = y[p - (a - e)]
    BY <1>2, <1>3, <1>5, <1>6
  <2>2. a + (p - (a - e)) = e + p
    BY <1>1
  <2> QED BY <1>2, <1>3, <1>4, <2>1, <2>2
<1>8. x \o y = w
  BY <1>4, <1>5, <1>6, <1>7, SameSequence
<1> QED BY <1>8 DEF x, y, w

\* The piece of a frame that has arrived is the part of the stream since the last frame end.
LEMMA PieceIs ==
  ASSUME WireTyped, NEW c \in Conns, WireOK(c), arrived[c] \in 0..Len(wire[c])
  PROVE  Piece(c) = Part(c, Start(c, arrived[c]), arrived[c])
<1> DEFINE a == arrived[c]
<1>1. CASE AtFrameEnd(c, a)
  <2>1. Start(c, a) = a /\ Piece(c) = <<>> /\ a \in 0..a /\ a - a = 0
    BY <1>1, WireLen DEF Start, Piece
  <2> HIDE DEF a
  <2>2. Part(c, a, a) \in Seq(Known) /\ Len(Part(c, a, a)) = a - a
    BY <2>1, PartIs DEF a
  <2>3. Part(c, a, a) = <<>>
    BY <2>1, <2>2, EmptySequence
  <2> QED BY <2>1, <2>3 DEF a
<1>2. CASE ~AtFrameEnd(c, a)
  BY <1>2 DEF Start, Piece, Part
<1> QED BY <1>1, <1>2

\* A chunk that continues the piece makes a longer part of the same stream.
LEMMA ChunkIs ==
  ASSUME WireTyped, NEW c \in Conns, WireOK(c), NEW u \in Nat, arrived[c] \in Nat,
         arrived[c] + u <= Len(wire[c])
  PROVE  /\ Chunk(c, u) = Part(c, arrived[c], arrived[c] + u)
         /\ arrived[c] \in 0..Len(wire[c]) /\ arrived[c] + u \in 0..Len(wire[c])
         /\ arrived[c] \in 0..(arrived[c] + u)
         /\ buf = Piece(c) =>
              buf \o Chunk(c, u) = Part(c, Start(c, arrived[c]), arrived[c] + u)
<1>1. /\ Chunk(c, u) = Part(c, arrived[c], arrived[c] + u)
      /\ arrived[c] \in 0..Len(wire[c]) /\ arrived[c] + u \in 0..Len(wire[c])
      /\ arrived[c] \in 0..(arrived[c] + u)
  BY WireLen DEF Chunk, Part
<1>2. Start(c, arrived[c]) \in 0..arrived[c]
  BY <1>1, StartIs
<1> QED BY <1>1, <1>2, PieceIs, PartJoins

\* When a chunk of u units has arrived on c.
Later(c, u) == [arrived EXCEPT ![c] = @ + u]

ArrivedOK ==
  /\ WireTyped
  /\ \A c \in Conns : WireOK(c)
  /\ arrived \in [Conns -> Nat]
  /\ \A c \in Conns : arrived[c] <= Len(wire[c])

CompleteNow == [d \in Conns |-> Complete(d, arrived[d])]

\* What has arrived when a chunk of u units has come on c.
LEMMA LaterIs ==
  ASSUME ArrivedOK, NEW c \in Conns, NEW u \in Nat, arrived[c] + u <= Len(wire[c])
  PROVE  /\ Later(c, u) \in [Conns -> Nat]
         /\ \A d \in Conns : Later(c, u)[d] <= Len(wire[d])
         /\ Later(c, u)[c] = arrived[c] + u
         /\ \A d \in Conns : d # c => Later(c, u)[d] = arrived[d]
         /\ \A d \in Conns : Later(c, u)[d] \in 0..Len(wire[d]) /\ arrived[d] \in 0..Len(wire[d])
         /\ \A d \in Conns : CompleteNow[d] \in Nat /\ CompleteNow[d] <= Complete(d, Later(c, u)[d])
<1>1. \A d \in Conns : arrived[d] \in Nat /\ arrived[d] <= Len(wire[d]) /\ Len(wire[d]) \in Nat
  BY WireLen DEF ArrivedOK
<1>2. /\ Later(c, u) \in [Conns -> Nat] /\ Later(c, u)[c] = arrived[c] + u
      /\ \A d \in Conns : d # c => Later(c, u)[d] = arrived[d]
  BY <1>1 DEF Later, ArrivedOK
<1>3. ASSUME NEW d \in Conns
      PROVE  /\ Later(c, u)[d] <= Len(wire[d])
             /\ Later(c, u)[d] \in 0..Len(wire[d]) /\ arrived[d] \in 0..Len(wire[d])
             /\ arrived[d] <= Later(c, u)[d]
  BY <1>1, <1>2
<1>4. ASSUME NEW d \in Conns
      PROVE  CompleteNow[d] \in Nat /\ CompleteNow[d] <= Complete(d, Later(c, u)[d])
  <2>1. CompleteNow[d] = Complete(d, arrived[d])
    BY DEF CompleteNow
  <2>2. Complete(d, arrived[d]) \in Nat
    BY <1>3, CompleteTyped DEF ArrivedOK
  <2>3. Complete(d, arrived[d]) <= Complete(d, Later(c, u)[d])
    BY <1>3, CompleteGrows DEF ArrivedOK
  <2> QED BY <2>1, <2>2, <2>3
<1> QED BY <1>2, <1>3, <1>4

\* All units of a chunk belong to frames that were not complete before.
LEMMA ChunkUnits ==
  ASSUME ArrivedOK, NEW c \in Conns, NEW u \in Nat, arrived[c] + u <= Len(wire[c])
  PROVE  /\ Len(Chunk(c, u)) = u
         /\ \A p \in 1..u :
              /\ arrived[c] + p \in 1..Len(wire[c])
              /\ Chunk(c, u)[p] = wire[c][arrived[c] + p]
              /\ Chunk(c, u)[p].c = c
              /\ Chunk(c, u)[p].i > CompleteNow[c]
<1>1. /\ Chunk(c, u) = Part(c, arrived[c], arrived[c] + u)
      /\ arrived[c] \in 0..Len(wire[c]) /\ arrived[c] + u \in 0..Len(wire[c])
      /\ arrived[c] \in 0..(arrived[c] + u)
  BY ChunkIs DEF ArrivedOK
<1>2. arrived[c] \in Nat /\ (arrived[c] + u) - arrived[c] = u /\ WireTyped /\ WireOK(c)
  BY <1>1 DEF ArrivedOK
<1>3. Len(Chunk(c, u)) = u /\ \A p \in 1..u : Chunk(c, u)[p] = wire[c][arrived[c] + p]
  BY <1>1, <1>2, PartIs
<1>4. ASSUME NEW p \in 1..u
      PROVE  /\ arrived[c] + p \in 1..Len(wire[c]) /\ wire[c][arrived[c] + p].c = c
             /\ wire[c][arrived[c] + p].i > CompleteNow[c]
  <2>1. arrived[c] + p \in 1..Len(wire[c]) /\ arrived[c] + p \in (arrived[c] + 1)..Len(wire[c])
    BY <1>2, WireLen
  <2>2. wire[c][arrived[c] + p].c = c
    BY <1>2, <2>1, PlaceIs
  <2>3. wire[c][arrived[c] + p].i > Complete(c, arrived[c])
    BY <1>1, <1>2, <2>1, NewIsBeyond
  <2> QED BY <2>1, <2>2, <2>3 DEF CompleteNow
<1> QED BY <1>3, <1>4

\* Units that have arrived, with the chunk behind them.
LEMMA Joined ==
  ASSUME ArrivedOK, NEW c \in Conns, NEW u \in Nat, arrived[c] + u <= Len(wire[c]),
         NEW b \in Seq(ArrivedIn(arrived))
  PROVE  /\ b \in Seq(ArrivedIn(Later(c, u)))
         /\ Chunk(c, u) \in Seq(ArrivedIn(Later(c, u)))
         /\ b \o Chunk(c, u) \in Seq(ArrivedIn(Later(c, u)))
<1> DEFINE a == Later(c, u)
           x == Chunk(c, u)
<1>1. /\ \A d \in Conns : arrived[d] \in Nat /\ a[d] \in Nat
      /\ a[c] = arrived[c] + u /\ \A d \in Conns : d # c => a[d] = arrived[d]
  BY LaterIs DEF ArrivedOK
<1> HIDE DEF a
<1>2. ArrivedIn(arrived) \subseteq ArrivedIn(a)
  <2> SUFFICES ASSUME NEW y \in ArrivedIn(arrived) PROVE y \in ArrivedIn(a)
    OBVIOUS
  <2>1. y \in Known /\ y.c \in Conns
    BY DEF ArrivedIn, Known, Unit
  <2>2. PICK q \in 1..arrived[y.c] : wire[y.c][q] = y
    BY DEF ArrivedIn
  <2>3. q \in 1..a[y.c]
    BY <1>1, <2>1
  <2> QED BY <2>1, <2>2, <2>3 DEF ArrivedIn
<1>3. b \in Seq(ArrivedIn(a))
  BY <1>2, WiderSequence
<1>4. x \in Seq(ArrivedIn(a))
  <2>1. Len(x) = u /\ \A p \in 1..u : /\ arrived[c] + p \in 1..Len(wire[c])
                                      /\ x[p] = wire[c][arrived[c] + p]
                                      /\ x[p].c = c
    BY ChunkUnits
  <2>2. x \in Seq(Known)
    <3>1. /\ x = Part(c, arrived[c], arrived[c] + u) /\ arrived[c] + u \in 0..Len(wire[c])
          /\ arrived[c] \in 0..(arrived[c] + u)
      BY <1>1, ChunkIs DEF ArrivedOK
    <3> QED BY <3>1, PartIs DEF ArrivedOK
  <2> HIDE DEF x
  <2>3. ASSUME NEW p \in 1..u PROVE x[p] \in ArrivedIn(a)
    <3>1. x[p] \in Known
      BY <2>1, <2>2, ElementTyped
    <3>2. arrived[c] + p \in 1..a[c]
      BY <1>1
    <3> QED BY <2>1, <3>1, <3>2 DEF ArrivedIn
  <2>4. x = [p \in 1..Len(x) |-> x[p]]
    BY <2>2
  <2> QED BY <2>1, <2>3, <2>4
<1>5. b \o x \in Seq(ArrivedIn(a))
  BY <1>3, <1>4, JoinTyped
<1> QED BY <1>3, <1>4, <1>5 DEF a

\* So units stay in the order of their frames, and behind what was handled.
LEMMA JoinedInOrder ==
  ASSUME ArrivedOK, NEW c \in Conns, NEW u \in Nat, arrived[c] + u <= Len(wire[c]),
         NEW b \in Seq(ArrivedIn(arrived)), Sorted(b),
         NEW h \in Taking, Behind(h, b), Bounded(h, CompleteNow)
  PROVE  Sorted(b \o Chunk(c, u)) /\ Behind(h, b \o Chunk(c, u))
<1> DEFINE x == Chunk(c, u)
           z == b \o x
<1>1. Len(x) = u /\ \A p \in 1..u : /\ arrived[c] + p \in 1..Len(wire[c])
                                    /\ x[p] = wire[c][arrived[c] + p]
                                    /\ x[p].c = c /\ x[p].i > CompleteNow[c]
  BY ChunkUnits
<1>2. arrived[c] \in Nat /\ Len(b) \in Nat /\ WireTyped /\ WireOK(c) /\ CompleteNow[c] \in Nat
  BY LaterIs DEF ArrivedOK
<1>3. /\ Len(z) = Len(b) + u
      /\ \A p \in 1..(Len(b) + u) :
           \/ p \in 1..Len(b) /\ z[p] = b[p]
           \/ p - Len(b) \in 1..u /\ z[p] = x[p - Len(b)]
  <2> DEFINE S == ArrivedIn(Later(c, u))
  <2>1. b \in Seq(S) /\ x \in Seq(S)
    BY Joined
  <2> HIDE DEF S, x
  <2>2. /\ Len(z) = Len(b) + Len(x)
        /\ \A p \in 1..(Len(b) + Len(x)) :
             \/ p \in 1..Len(b) /\ z[p] = b[p]
             \/ p - Len(b) \in 1..Len(x) /\ z[p] = x[p - Len(b)]
    BY <2>1, JoinTyped
  <2> HIDE DEF z
  <2> QED BY <1>1, <2>2
<1> HIDE DEF x, z
<1>4. ASSUME NEW p \in 1..Len(b), b[p].c = c
      PROVE  \E q \in 1..arrived[c] : wire[c][q] = b[p]
  <2>1. b[p] \in ArrivedIn(arrived)
    BY ElementTyped
  <2> QED BY <1>4, <2>1 DEF ArrivedIn
<1>5. ASSUME NEW p \in 1..Len(z), NEW q \in 1..Len(z), p < q, z[p].c = z[q].c
      PROVE  Before(z[p], z[q])
  <2>1. CASE q \in 1..Len(b) /\ z[q] = b[q]
    <3>1. p \in 1..Len(b) /\ z[p] = b[p]
      BY <1>2, <1>3, <1>5, <2>1
    <3> QED BY <1>5, <2>1, <3>1 DEF Sorted
  <2>2. CASE q - Len(b) \in 1..u /\ z[q] = x[q - Len(b)]
    <3>1. z[q] = wire[c][arrived[c] + (q - Len(b))] /\ z[q].c = c
          /\ arrived[c] + (q - Len(b)) \in 1..Len(wire[c])
      BY <1>1, <2>2
    <3>2. CASE p \in 1..Len(b) /\ z[p] = b[p]
      <4>1. PICK l \in 1..arrived[c] : wire[c][l] = z[p]
        BY <1>4, <1>5, <3>1, <3>2
      <4>2. l \in 1..Len(wire[c]) /\ l < arrived[c] + (q - Len(b))
        BY <1>2, <2>2, WireLen DEF ArrivedOK
      <4> QED BY <1>2, <3>1, <4>1, <4>2 DEF WireOK
    <3>3. CASE p - Len(b) \in 1..u /\ z[p] = x[p - Len(b)]
      <4>1. z[p] = wire[c][arrived[c] + (p - Len(b))]
            /\ arrived[c] + (p - Len(b)) \in 1..Len(wire[c])
        BY <1>1, <3>3
      <4>2. arrived[c] + (p - Len(b)) < arrived[c] + (q - Len(b))
        BY <1>2, <1>3, <1>5, <2>2, <3>3
      <4> QED BY <1>2, <3>1, <4>1, <4>2 DEF WireOK
    <3> QED BY <1>3, <3>2, <3>3
  <2> QED BY <1>3, <2>1, <2>2
<1>6. ASSUME NEW p \in 1..Len(z), NEW j \in 1..Len(h[z[p].c]) PROVE h[z[p].c][j] < z[p].i
  <2>1. CASE p \in 1..Len(b) /\ z[p] = b[p]
    BY <2>1 DEF Behind
  <2>2. CASE p - Len(b) \in 1..u /\ z[p] = x[p - Len(b)]
    <3>1. z[p].c = c /\ z[p].i > CompleteNow[c]
      BY <1>1, <2>2
    <3>2. h[c][j] <= CompleteNow[c]
      BY <3>1 DEF Bounded
    <3>3. h[c][j] \in Nat
      <4>1. h[c] \in Seq(Nr)
        BY DEF Taking
      <4>2. h[c][j] \in Nr
        BY <3>1, <4>1, ElementTyped
      <4> QED BY <4>2 DEF Nr
    <3>4. z[p].i \in Nat
      <4>1. wire[c][arrived[c] + (p - Len(b))].i \in Nat
        BY <1>1, <1>2, <2>2, PlaceIs
      <4> QED BY <1>1, <2>2, <4>1
    <3> QED BY <1>2, <3>1, <3>2, <3>3, <3>4
  <2> QED BY <1>3, <2>1, <2>2
<1> QED BY <1>5, <1>6 DEF Sorted, Behind, z, x

-----------------------------------------------------------------------------
(* The inductive invariant *)

\* The decoder holds units that have arrived; those of the daemon, cb and bridge-mcp are in
\* order and come after all that was handled.
Held ==
  /\ buf \in Seq(ArrivedIn(arrived))
  /\ reader # "twice" => Sorted(buf) /\ Behind(handled, buf)

HandledOK ==
  /\ Bounded(handled, CompleteNow)
  /\ \A c \in Conns : Distinct(handled[c])
  /\ ~(reader = "twice" /\ fouled) => \A c \in Conns : Increasing(handled[c])

Socks ==
  \A c \in Conns : /\ c > newest => sock[c] = "unused"
                   /\ sock[c] = "unused" => sizes[c] = <<>>

\* A decoder that is fed with one socket only holds a piece of its stream; the watch client
\* has the ack, and no more, until both of its handlers are there.
OpenOK(c) ==
  sock[c] = "open" =>
    /\ ~fouled => handled[c] = FirstFrames(Complete(c, arrived[c]))
    /\ reader = "twice" =>
         /\ Len(sizes[c]) >= 2 => handled[c] # <<>>
         /\ ~fouled /\ handled[c] # <<>> => AtFrameEnd(c, arrived[c])
    /\ reader = "own" => c = newest /\ buf = Piece(c) /\ emitted = Complete(c, arrived[c])

RefusedOK(c) ==
  ~fouled /\ sock[c] = "failed" =>
    /\ handled[c] = FirstFrames(before[c])
    /\ before[c] + 1 \in 1..Len(sizes[c])
    /\ sizes[c][before[c] + 1] > FirstCap
    /\ reader = "own" => before[c] = 0

IInv ==
  /\ TypeOK
  /\ ArrivedOK
  /\ Held
  /\ HandledOK
  /\ Socks
  /\ \A c \in Conns : OpenOK(c)
  /\ \A c \in Conns : RefusedOK(c)

LEMMA IInvTypes ==
  ASSUME IInv
  PROVE  /\ WireTyped /\ handled \in Taking /\ emitted \in Nat /\ arrived \in [Conns -> Nat]
         /\ before \in [Conns -> Nat] /\ newest \in 0..MaxConns
         /\ \A c \in Conns : WireOK(c) /\ handled[c] \in Seq(Nr) /\ arrived[c] \in 0..Len(wire[c])
         /\ MaxConns \in Nat
<1>1. /\ WireTyped /\ handled \in Taking /\ emitted \in Nat /\ arrived \in [Conns -> Nat]
      /\ before \in [Conns -> Nat] /\ newest \in 0..MaxConns
  BY DEF IInv, TypeOK, WireTyped, SizesTyped, Taking
<1>2. \A c \in Conns : WireOK(c) /\ handled[c] \in Seq(Nr) /\ arrived[c] \in 0..Len(wire[c])
  BY <1>1, WireLen DEF IInv, ArrivedOK, Taking
<1> QED BY <1>1, <1>2, SizesAssumption

\* The inductive invariant holds initially.
LEMMA InitHolds ==
  ASSUME Init
  PROVE  IInv
<1>1. MaxConns \in Nat
  BY SizesAssumption
<1>2. TypeOK
  <2>1. reader \in {"own", "newest", "twice"} /\ newest \in 0..MaxConns
    BY <1>1, SizesAssumption DEF Init
  <2>2. /\ sock \in [Conns -> {"unused", "open", "closed", "failed"}]
        /\ arrived \in [Conns -> Nat] /\ before \in [Conns -> Nat]
        /\ emitted \in Nat /\ fouled \in BOOLEAN
    BY DEF Init
  <2>3. sizes \in [Conns -> Seq(1..Cap)] /\ wire \in [Conns -> Seq(Unit)]
    BY DEF Init
  <2>4. handled \in [Conns -> Seq(Nr)] /\ buf \in Seq(Unit)
    BY DEF Init
  <2> QED BY <2>1, <2>2, <2>3, <2>4 DEF TypeOK
<1>3. /\ \A c \in Conns : /\ sizes[c] = <<>> /\ wire[c] = <<>> /\ arrived[c] = 0 /\ handled[c] = <<>>
                          /\ sock[c] = "unused"
      /\ buf = <<>>
  BY DEF Init
<1>4. ArrivedOK
  <2>1. \A c \in Conns : WireOK(c)
    BY <1>3 DEF WireOK
  <2> QED BY <1>2, <1>3, <2>1 DEF ArrivedOK, WireTyped, SizesTyped, TypeOK
<1>5. Held
  BY <1>3 DEF Held, Sorted, Behind
<1>6. HandledOK
  BY <1>3 DEF HandledOK, Bounded, Distinct, Increasing
<1>7. Socks /\ (\A c \in Conns : OpenOK(c)) /\ (\A c \in Conns : RefusedOK(c))
  BY <1>3 DEF Socks, OpenOK, RefusedOK
<1> QED BY <1>2, <1>4, <1>5, <1>6, <1>7 DEF IInv

-----------------------------------------------------------------------------
(* A chunk is pushed *)

\* Whatever the decoder holds and decodes, it has arrived.
LEMMA FedArrived ==
  ASSUME IInv, NEW c \in Conns, NEW u \in Nat, arrived[c] + u <= Len(wire[c]),
         NEW b \in Seq(ArrivedIn(Later(c, u))), NEW n \in Nat, NEW r \in Decode(b, n)
  PROVE  /\ r \in Loops /\ r.at # "on"
         /\ r.buf \in Seq(ArrivedIn(Later(c, u)))
         /\ HandledWith(r.out) \in Taking
         /\ \A d \in Conns : Len(HandledWith(r.out)[d]) >= Len(handled[d])
         /\ \A d \in Conns : \A j \in 1..Len(HandledWith(r.out)[d]) :
              HandledWith(r.out)[d][j] <= Complete(d, Later(c, u)[d])
         /\ reader # "own" => \A d \in Conns : Distinct(HandledWith(r.out)[d])
<1> DEFINE a == Later(c, u)
           top == [d \in Conns |-> Complete(d, a[d])]
           out == r.out
<1>1. /\ a \in [Conns -> Nat] /\ \A d \in Conns : a[d] <= Len(wire[d])
      /\ \A d \in Conns : a[d] \in 0..Len(wire[d])
      /\ \A d \in Conns : CompleteNow[d] \in Nat /\ CompleteNow[d] <= Complete(d, a[d])
  BY LaterIs DEF IInv
<1>2. WireTyped /\ handled \in Taking /\ \A d \in Conns : WireOK(d) /\ handled[d] \in Seq(Nr)
  BY IInvTypes
<1> HIDE DEF a
<1>3. /\ r \in Loops /\ r.at # "on"
      /\ r.buf \in Seq(ArrivedIn(a))
      /\ \A t \in 1..Len(r.out) :
           r.out[t] \in Frame /\ r.out[t].i <= Complete(r.out[t].c, a[r.out[t].c])
  BY <1>1, <1>2, PushArrived DEF a
<1>4. out \in Seq(Frame)
  BY <1>3 DEF Loops
<1>5. \A d \in Conns : top[d] = Complete(d, a[d]) /\ Complete(d, a[d]) \in Nat
  BY <1>1, <1>2, CompleteTyped
<1>6. top \in [Conns -> Nat]
  BY <1>5
<1>7. \A t \in 1..Len(out) : out[t].i <= top[out[t].c]
  <2>1. \A t \in 1..Len(out) : out[t].c \in Conns
    BY <1>3 DEF Frame
  <2> QED BY <1>3, <1>5, <2>1
<1>8. Bounded(handled, top)
  <2> SUFFICES ASSUME NEW d \in Conns, NEW j \in 1..Len(handled[d]) PROVE handled[d][j] <= top[d]
    BY DEF Bounded
  <2>1. handled[d][j] <= CompleteNow[d]
    BY DEF IInv, HandledOK, Bounded
  <2>2. handled[d][j] \in Nat
    <3>1. handled[d][j] \in Nr
      BY <1>2, ElementTyped
    <3> QED BY <3>1 DEF Nr
  <2> QED BY <1>1, <1>5, <2>1, <2>2
<1>9. \A d \in Conns : Distinct(handled[d])
  BY DEF IInv, HandledOK
<1> HIDE DEF top, out
<1>10. /\ HandledWith(out) \in Taking
       /\ \A d \in Conns : Len(HandledWith(out)[d]) >= Len(handled[d])
       /\ Bounded(HandledWith(out), top)
       /\ reader # "own" => \A d \in Conns : Distinct(HandledWith(out)[d])
  BY <1>2, <1>4, <1>6, <1>7, <1>8, <1>9, HandledGrows
<1>11. \A d \in Conns : \A j \in 1..Len(HandledWith(out)[d]) :
         HandledWith(out)[d][j] <= Complete(d, a[d])
  BY <1>5, <1>10 DEF Bounded
<1> QED BY <1>3, <1>10, <1>11 DEF out, a

\* A decoder whose units are in order hands over its frames in order.
LEMMA FedInOrder ==
  ASSUME IInv, reader # "twice", NEW c \in Conns, NEW u \in Nat, arrived[c] + u <= Len(wire[c]),
         NEW r \in Push(Chunk(c, u), buf, emitted)
  PROVE  /\ Sorted(r.buf) /\ Behind(HandledWith(r.out), r.buf)
         /\ \A d \in Conns : Increasing(HandledWith(r.out)[d])
<1> DEFINE a == Later(c, u)
           b == buf \o Chunk(c, u)
           out == r.out
           z == r.buf
<1>1. /\ a \in [Conns -> Nat] /\ \A d \in Conns : a[d] <= Len(wire[d])
  BY LaterIs DEF IInv
<1>2. WireTyped /\ handled \in Taking /\ emitted \in Nat /\ ArrivedOK
      /\ \A d \in Conns : WireOK(d)
  BY IInvTypes DEF IInv
<1>3. /\ buf \in Seq(ArrivedIn(arrived)) /\ Sorted(buf) /\ Behind(handled, buf)
      /\ Bounded(handled, CompleteNow) /\ \A d \in Conns : Increasing(handled[d])
  BY DEF IInv, Held, HandledOK
<1>4. b \in Seq(ArrivedIn(a))
  BY <1>2, <1>3, Joined
<1>5. Sorted(b) /\ Behind(handled, b)
  BY <1>2, <1>3, JoinedInOrder
<1>6. r \in Decode(b, emitted)
  BY DEF Push
<1> HIDE DEF a, b
<1>7. r \in Loops /\ r.buf \in Seq(ArrivedIn(a))
  BY <1>1, <1>2, <1>4, <1>6, PushArrived
<1>8. /\ Sorted(z) /\ InOrder(out)
      /\ Behind(handled, z) /\ Behind(handled, out) /\ FramesBehind(out, z)
  BY <1>1, <1>2, <1>4, <1>5, <1>6, PushInOrder
<1>9. \A p \in 1..Len(z) : z[p].c \in Conns
  <2>1. \A p \in 1..Len(z) : z[p] \in ArrivedIn(a)
    BY <1>7, ElementTyped
  <2> QED BY <1>1, <1>2, <2>1, ArrivedTyped
<1>10. out \in Seq(Frame)
  BY <1>7 DEF Loops
<1> HIDE DEF out, z
<1>11. Behind(HandledWith(out), z) /\ \A d \in Conns : Increasing(HandledWith(out)[d])
  BY <1>2, <1>3, <1>8, <1>9, <1>10, HandledInOrder
<1> QED BY <1>8, <1>11 DEF out, z

\* A decoder that holds the piece of the stream before the chunk hands over what the chunk
\* completes, and holds the piece after it; or it refuses the first frame it has ever seen.
LEMMA FedClean ==
  ASSUME IInv, NEW c \in Conns, NEW u \in Nat, arrived[c] + u <= Len(wire[c]),
         buf = Piece(c), NEW n \in Nat, NEW r \in Push(Chunk(c, u), buf, n),
         NEW was, was = Complete(c, arrived[c]),
         NEW is, is = Complete(c, arrived[c] + u)
  PROVE  /\ was \in Nat /\ is \in Nat /\ was <= is
         /\ \/ /\ r.at = "left"
               /\ r.buf = Part(c, Start(c, arrived[c] + u), arrived[c] + u)
               /\ r.emitted = n + (is - was)
               /\ handled[c] = FirstFrames(was) =>
                    HandledWith(r.out) = [handled EXCEPT ![c] = FirstFrames(is)]
            \/ r.at = "thrown" /\ HandledWith(r.out) = handled /\ Refused(c, was, n)
<1> DEFINE a == arrived[c]
           z == arrived[c] + u
<1>1. WireTyped /\ WireOK(c) /\ handled \in Taking /\ a \in Nat /\ ArrivedOK
  BY IInvTypes, WireLen DEF IInv
<1>2. /\ a \in 0..Len(wire[c]) /\ z \in 0..Len(wire[c]) /\ a \in 0..z
      /\ buf \o Chunk(c, u) = Part(c, Start(c, a), z)
  BY <1>1, ChunkIs
<1>3. was \in Nat /\ is \in Nat /\ was <= is
  <2>1. a <= z
    BY <1>1
  <2> QED BY <1>1, <1>2, <2>1, CompleteTyped, CompleteGrows
<1>4. r \in Decode(Part(c, Start(c, a), z), n)
  BY <1>2 DEF Push
<1> HIDE DEF a, z
<1>5. /\ r \in Loops
      /\ \/ /\ r.at = "left"
            /\ r.buf = Part(c, Start(c, z), z)
            /\ r.out = FramesOf(c, Complete(c, a), Complete(c, z))
            /\ r.emitted = n + (Complete(c, z) - Complete(c, a))
         \/ r.at = "thrown" /\ r.out = <<>> /\ Refused(c, Complete(c, a), n)
  BY <1>1, <1>2, <1>4, CleanPush
<1>6. was = Complete(c, a) /\ is = Complete(c, z)
  BY DEF a, z
<1>7. CASE r.at = "left" /\ r.out = FramesOf(c, was, is)
           /\ r.buf = Part(c, Start(c, z), z) /\ r.emitted = n + (is - was)
  <2>1. ASSUME handled[c] = FirstFrames(was)
        PROVE  HandledWith(r.out) = [handled EXCEPT ![c] = FirstFrames(is)]
    <3>1. HandledWith(FramesOf(c, was, is)) = [handled EXCEPT ![c] = FirstFrames(is)]
      BY <1>1, <1>3, <2>1, HandledClean
    <3> QED BY <1>7, <3>1
  <2> QED BY <1>3, <1>7, <2>1 DEF z
<1>8. CASE r.at = "thrown" /\ r.out = <<>> /\ Refused(c, was, n)
  BY <1>1, <1>3, <1>8, HandledNone
<1> QED BY <1>5, <1>6, <1>7, <1>8

\* The stream stays as it is.
LEMMA StreamKept ==
  ASSUME ArrivedOK, UNCHANGED <<sizes, wire>>
  PROVE  /\ WireTyped' /\ (\A d \in Conns : WireOK(d))'
         /\ \A d \in Conns : Complete(d, arrived[d])' = Complete(d, arrived'[d])
         /\ \A d \in Conns : AtFrameEnd(d, arrived[d])' = AtFrameEnd(d, arrived'[d])
         /\ \A d \in Conns : arrived'[d] \in 0..Len(wire[d]) =>
              Piece(d)' = Part(d, Start(d, arrived'[d]), arrived'[d])
         /\ ArrivedIn(arrived)' = ArrivedIn(arrived')
<1>1. sizes' = sizes /\ wire' = wire
  OBVIOUS
<1>2. WireTyped'
  BY <1>1 DEF ArrivedOK, WireTyped, SizesTyped
<1>3. ASSUME NEW d \in Conns PROVE WireOK(d)'
  <2>1. WireOK(d)
    BY DEF ArrivedOK
  <2> QED BY <1>1, <2>1 DEF WireOK, UnitOK, PlaceOK, AtFrameEnd
<1>4. ASSUME NEW d \in Conns
      PROVE  /\ Complete(d, arrived[d])' = Complete(d, arrived'[d])
             /\ AtFrameEnd(d, arrived[d])' = AtFrameEnd(d, arrived'[d])
  BY <1>1 DEF Complete, AtFrameEnd
<1>5. ASSUME NEW d \in Conns, arrived'[d] \in 0..Len(wire[d])
      PROVE  Piece(d)' = Part(d, Start(d, arrived'[d]), arrived'[d])
  <2> DEFINE a == arrived'[d]
  <2>1. CASE AtFrameEnd(d, a)
    <3>1. Piece(d)' = <<>>
      BY <1>1, <1>4, <2>1 DEF Piece
    <3>2. Start(d, a) = a
      BY <2>1 DEF Start
    <3>3. a \in 0..Len(wire[d]) /\ a \in 0..a /\ a - a = 0 /\ WireTyped /\ WireOK(d)
      BY <1>5, WireLen DEF ArrivedOK
    <3> HIDE DEF a
    <3>4. Part(d, a, a) \in Seq(Known) /\ Len(Part(d, a, a)) = a - a
      BY <3>3, PartIs
    <3>5. Part(d, a, a) = <<>>
      BY <3>3, <3>4, EmptySequence
    <3> QED BY <3>1, <3>2, <3>5 DEF a
  <2>2. CASE ~AtFrameEnd(d, a)
    BY <1>1, <1>4, <2>2 DEF Piece, Start, Part
  <2> QED BY <2>1, <2>2
<1>6. ArrivedIn(arrived)' = ArrivedIn(arrived')
  BY <1>1 DEF ArrivedIn, Known
<1> QED BY <1>2, <1>3, <1>4, <1>5, <1>6

\* What a chunk does not disturb, whatever it is pushed into.
LEMMA FedKeeps ==
  ASSUME IInv, NEW c \in Conns, NEW u \in Nat, Arrives(c, u),
         UNCHANGED <<reader, newest, sizes, wire>>,
         NEW b \in Seq(ArrivedIn(Later(c, u))), NEW n \in Nat, NEW r \in Decode(b, n),
         buf' = r.buf, emitted' = r.emitted, handled' = HandledWith(r.out),
         sock' \in [Conns -> {"unused", "open", "closed", "failed"}],
         \A d \in Conns : sock'[d] = "unused" <=> sock[d] = "unused"
  PROVE  /\ TypeOK' /\ ArrivedOK' /\ Socks'
         /\ arrived' = Later(c, u)
         /\ buf' \in Seq(ArrivedIn(arrived)')
         /\ Bounded(handled, CompleteNow)'
         /\ \A d \in Conns : Len(handled'[d]) >= Len(handled[d])
         /\ reader # "own" => \A d \in Conns : Distinct(handled'[d])
<1>1. arrived[c] + u <= Len(wire[c]) /\ arrived' = Later(c, u)
      /\ before' = [before EXCEPT ![c] = Complete(c, arrived[c])]
      /\ fouled' \in BOOLEAN
  <2>1. fouled \in BOOLEAN
    BY DEF IInv, TypeOK
  <2> QED BY <2>1 DEF Arrives, Later
<1> DEFINE a == Later(c, u)
<1>2. /\ a \in [Conns -> Nat] /\ \A d \in Conns : a[d] <= Len(wire[d])
      /\ \A d \in Conns : a[d] \in 0..Len(wire[d])
      /\ CompleteNow[c] \in Nat
  BY <1>1, LaterIs DEF IInv
<1> HIDE DEF a
<1>3. /\ r \in Loops
      /\ r.buf \in Seq(ArrivedIn(a))
      /\ HandledWith(r.out) \in Taking
      /\ \A d \in Conns : Len(HandledWith(r.out)[d]) >= Len(handled[d])
      /\ \A d \in Conns : \A j \in 1..Len(HandledWith(r.out)[d]) :
           HandledWith(r.out)[d][j] <= Complete(d, a[d])
      /\ reader # "own" => \A d \in Conns : Distinct(HandledWith(r.out)[d])
  BY <1>1, FedArrived DEF a
<1>4. /\ WireTyped' /\ (\A d \in Conns : WireOK(d))'
      /\ \A d \in Conns : Complete(d, arrived[d])' = Complete(d, arrived'[d])
      /\ ArrivedIn(arrived)' = ArrivedIn(arrived')
  BY StreamKept DEF IInv
<1>5. TypeOK'
  <2>1. r.buf \in Seq(Unit)
    <3>1. ArrivedIn(a) \subseteq Unit
      BY DEF ArrivedIn, Known
    <3> QED BY <1>3, <3>1, WiderSequence
  <2>2. r.emitted \in Nat
    BY <1>3 DEF Loops
  <2>3. before' \in [Conns -> Nat]
    BY <1>1, <1>2 DEF IInv, TypeOK, CompleteNow
  <2> QED BY <1>1, <1>2, <1>3, <2>1, <2>2, <2>3 DEF IInv, TypeOK, Taking, a
<1>6. ArrivedOK'
  BY <1>1, <1>2, <1>4 DEF ArrivedOK, a
<1>7. Socks'
  BY DEF IInv, Socks
<1>8. buf' \in Seq(ArrivedIn(arrived)')
  BY <1>1, <1>3, <1>4 DEF a
<1>9. Bounded(handled, CompleteNow)'
  BY <1>1, <1>3, <1>4 DEF Bounded, CompleteNow, a
<1> QED BY <1>1, <1>3, <1>5, <1>6, <1>7, <1>8, <1>9

\* What grows does not repeat.
LEMMA IncreasingDistinct ==
  ASSUME NEW s \in Seq(Nr), Increasing(s)
  PROVE  Distinct(s)
<1> SUFFICES ASSUME NEW i \in 1..Len(s), NEW j \in 1..Len(s), i < j PROVE s[i] # s[j]
  BY DEF Distinct
<1>1. s[i] < s[j] /\ s[i] \in Nat /\ s[j] \in Nat
  BY ElementTyped DEF Increasing, Nr
<1> QED BY <1>1

LEMMA EmptyFirst ==
  ASSUME NEW n \in Nat, FirstFrames(n) # <<>>
  PROVE  n # 0
<1>1. FirstFrames(0) = <<>>
  BY DEF FirstFrames
<1> QED BY <1>1

\* A second frame has begun only when it was sent.
LEMMA SecondBegun ==
  ASSUME WireTyped, NEW c \in Conns, WireOK(c), NEW a \in 0..Len(wire[c]),
         ~AtFrameEnd(c, a), Complete(c, a) # 0
  PROVE  Len(sizes[c]) >= 2
<1>1. a \in 1..Len(wire[c])
  BY WireLen DEF AtFrameEnd
<1> DEFINE i == wire[c][a].i
<1>2. i \in 1..Len(sizes[c]) /\ Complete(c, a) = i - 1 /\ i \in Nat
  BY <1>1, PlaceIs
<1> HIDE DEF i
<1> QED BY <1>2, WireLen

\* A chunk pushed by one handler keeps the invariant.
LEMMA FedOnceHolds ==
  ASSUME IInv, NEW c \in Conns, NEW u \in Nat, FedOnce(c, u)
  PROVE  IInv'
<1>1. /\ Arrives(c, u) /\ UNCHANGED <<reader, newest, sizes, wire>>
      /\ reader # "twice" \/ handled[c] = <<>>
      /\ sock[c] = "open" /\ arrived[c] + u <= Len(wire[c])
      /\ before' = [before EXCEPT ![c] = Complete(c, arrived[c])]
      /\ ~fouled' => ~fouled /\ buf = Piece(c)
  BY DEF FedOnce, Arrives
<1>2. PICK r \in Push(Chunk(c, u), buf, emitted) :
        /\ buf' = r.buf /\ emitted' = r.emitted /\ handled' = HandledWith(r.out)
        /\ sock' = [sock EXCEPT ![c] = IF r.at = "thrown" /\ reader # "twice" THEN "failed" ELSE @]
  BY DEF FedOnce
<1> DEFINE was == Complete(c, arrived[c])
           is == Complete(c, arrived[c] + u)
<1>3. /\ WireTyped /\ handled \in Taking /\ emitted \in Nat /\ arrived \in [Conns -> Nat]
      /\ before \in [Conns -> Nat] /\ ArrivedOK
      /\ \A d \in Conns : WireOK(d) /\ handled[d] \in Seq(Nr) /\ arrived[d] \in 0..Len(wire[d])
  BY IInvTypes DEF IInv
<1>4. /\ Later(c, u)[c] = arrived[c] + u
      /\ \A d \in Conns : d # c => Later(c, u)[d] = arrived[d]
      /\ \A d \in Conns : Later(c, u)[d] \in 0..Len(wire[d])
  BY <1>1, <1>3, LaterIs
<1>5. /\ sock' \in [Conns -> {"unused", "open", "closed", "failed"}]
      /\ \A d \in Conns : d # c => sock'[d] = sock[d]
      /\ sock'[c] = IF r.at = "thrown" /\ reader # "twice" THEN "failed" ELSE "open"
      /\ \A d \in Conns : sock'[d] = "unused" <=> sock[d] = "unused"
  <2>1. sock \in [Conns -> {"unused", "open", "closed", "failed"}]
    BY DEF IInv, TypeOK
  <2> QED BY <1>1, <1>2, <2>1
<1>6. /\ r \in Decode(buf \o Chunk(c, u), emitted)
      /\ buf \o Chunk(c, u) \in Seq(ArrivedIn(Later(c, u)))
  <2>1. buf \in Seq(ArrivedIn(arrived))
    BY DEF IInv, Held
  <2> QED BY <1>1, <1>3, <2>1, Joined DEF Push
<1>7. /\ TypeOK' /\ ArrivedOK' /\ Socks'
      /\ arrived' = Later(c, u)
      /\ buf' \in Seq(ArrivedIn(arrived)')
      /\ Bounded(handled, CompleteNow)'
      /\ \A d \in Conns : Len(handled'[d]) >= Len(handled[d])
      /\ reader # "own" => \A d \in Conns : Distinct(handled'[d])
  <2> HIDE DEF was, is
  <2> QED BY <1>1, <1>2, <1>3, <1>5, <1>6, FedKeeps
<1>8. /\ \A d \in Conns : Complete(d, arrived[d])' = Complete(d, arrived'[d])
      /\ \A d \in Conns : AtFrameEnd(d, arrived[d])' = AtFrameEnd(d, arrived'[d])
      /\ \A d \in Conns : Piece(d)' = Part(d, Start(d, arrived'[d]), arrived'[d])
  BY <1>1, <1>3, <1>4, <1>7, StreamKept
<1>9. handled' \in Taking /\ \A d \in Conns : handled'[d] \in Seq(Nr)
  BY <1>7 DEF TypeOK, Taking
<1>10. reader # "twice" =>
         /\ Sorted(r.buf) /\ Behind(HandledWith(r.out), r.buf)
         /\ \A d \in Conns : Increasing(HandledWith(r.out)[d])
  BY <1>1, FedInOrder
<1>11. Held'
  BY <1>1, <1>2, <1>7, <1>10 DEF Held, Sorted, Behind, Before
<1>12. buf = Piece(c) =>
         /\ was \in Nat /\ is \in Nat /\ was <= is
         /\ \/ /\ r.at = "left"
               /\ r.buf = Part(c, Start(c, arrived[c] + u), arrived[c] + u)
               /\ r.emitted = emitted + (is - was)
               /\ handled[c] = FirstFrames(was) =>
                    HandledWith(r.out) = [handled EXCEPT ![c] = FirstFrames(is)]
            \/ r.at = "thrown" /\ HandledWith(r.out) = handled /\ Refused(c, was, emitted)
  BY <1>1, <1>3, FedClean
<1>13. ASSUME ~fouled'
       PROVE  /\ ~fouled /\ buf = Piece(c) /\ handled[c] = FirstFrames(was)
              /\ \A d \in Conns : d # c => handled'[d] = handled[d]
              /\ \/ r.at = "left" /\ handled'[c] = FirstFrames(is)
                 \/ r.at = "thrown" /\ handled' = handled /\ Refused(c, was, emitted)
  <2>1. ~fouled /\ buf = Piece(c) /\ handled[c] = FirstFrames(was)
    BY <1>1, <1>13 DEF IInv, OpenOK
  <2> HIDE DEF was, is
  <2> QED BY <1>2, <1>3, <1>12, <2>1 DEF Taking
<1>14. HandledOK'
  <2>1. ASSUME ~(reader = "twice" /\ fouled') PROVE \A d \in Conns : Increasing(handled'[d])
    <3>1. CASE reader # "twice"
      BY <1>2, <1>10, <3>1
    <3>2. CASE ~fouled'
      <4>1. \A d \in Conns : Increasing(handled[d])
        BY <1>13, <3>2 DEF IInv, HandledOK
      <4>2. Increasing(FirstFrames(is))
        BY <1>12, <1>13, <3>2, FirstFramesGrow
      <4> QED BY <1>13, <3>2, <4>1, <4>2
    <3> QED BY <2>1, <3>1, <3>2
  <2>2. \A d \in Conns : Distinct(handled'[d])
    <3>1. CASE reader = "own"
      BY <1>9, <2>1, <3>1, IncreasingDistinct
    <3> QED BY <1>7, <3>1
  <2> QED BY <1>1, <1>7, <2>1, <2>2 DEF HandledOK, Distinct, Increasing
<1>15. ASSUME NEW d \in Conns PROVE OpenOK(d)'
  <2> SUFFICES ASSUME sock'[d] = "open"
               PROVE  /\ ~fouled' => handled'[d] = FirstFrames(Complete(d, arrived'[d]))
                      /\ reader = "twice" =>
                           /\ Len(sizes[d]) >= 2 => handled'[d] # <<>>
                           /\ ~fouled' /\ handled'[d] # <<>> => AtFrameEnd(d, arrived'[d])
                      /\ reader = "own" =>
                           d = newest /\ buf' = Piece(d)' /\ emitted' = Complete(d, arrived'[d])
    BY <1>1, <1>8 DEF OpenOK, FirstFrames
  <2>1. Len(handled[d]) \in Nat /\ Len(handled'[d]) \in Nat /\ (Len(handled[d]) = 0 <=> handled[d] = <<>>)
        /\ Len(handled'[d]) >= Len(handled[d])
    BY <1>3, <1>7, <1>9, EmptySequence
  <2>2. sock[d] = "open" /\ OpenOK(d) /\ OpenOK(c)
    BY <1>1, <1>5 DEF IInv
  <2>3. Len(sizes[d]) >= 2 /\ reader = "twice" => handled'[d] # <<>>
    BY <2>1, <2>2 DEF OpenOK
  <2>4. CASE d # c
    <3>1. arrived'[d] = arrived[d]
      BY <1>4, <1>7, <2>4
    <3>2. reader # "own"
      BY <1>1, <2>2, <2>4 DEF OpenOK
    <3> QED BY <1>13, <2>2, <2>3, <2>4, <3>1, <3>2 DEF OpenOK
  <2>5. CASE d = c
    <3>1. arrived'[c] = arrived[c] + u /\ (r.at # "thrown" \/ reader = "twice")
      BY <1>4, <1>5, <1>7, <2>5
    <3>2. ~fouled' => handled'[c] = FirstFrames(is)
      BY <1>13, <3>1 DEF Refused
    <3>3. ASSUME reader = "twice", ~fouled', handled'[c] # <<>> PROVE AtFrameEnd(c, arrived[c] + u)
      <4>1. is \in Nat /\ is # 0
        BY <1>12, <1>13, <3>2, <3>3, EmptyFirst
      <4>2. ~(Len(sizes[c]) >= 2)
        BY <1>1, <2>2, <2>5, <3>3 DEF OpenOK
      <4>3. arrived[c] + u \in 0..Len(wire[c])
        BY <1>4
      <4> QED BY <1>3, <4>1, <4>2, <4>3, SecondBegun
    <3>4. ASSUME reader = "own"
          PROVE  c = newest /\ buf' = Piece(c)' /\ emitted' = Complete(c, arrived'[c])
      <4>1. c = newest /\ buf = Piece(c) /\ emitted = was
        BY <1>1, <2>2, <3>4 DEF OpenOK
      <4>2. /\ r.buf = Part(c, Start(c, arrived[c] + u), arrived[c] + u)
            /\ r.emitted = emitted + (is - was) /\ was \in Nat /\ is \in Nat
        BY <1>12, <3>1, <3>4, <4>1
      <4>3. r.emitted = is
        <5> HIDE DEF was, is
        <5> QED BY <4>1, <4>2
      <4> QED BY <1>2, <1>8, <3>1, <4>1, <4>2, <4>3
    <3> QED BY <2>3, <2>5, <3>1, <3>2, <3>3, <3>4
  <2> QED BY <2>4, <2>5
<1>16. ASSUME NEW d \in Conns PROVE RefusedOK(d)'
  <2> SUFFICES ASSUME ~fouled', sock'[d] = "failed"
               PROVE  /\ handled'[d] = FirstFrames(before'[d])
                      /\ before'[d] + 1 \in 1..Len(sizes[d])
                      /\ sizes[d][before'[d] + 1] > FirstCap
                      /\ reader = "own" => before'[d] = 0
    BY <1>1 DEF RefusedOK, FirstFrames
  <2>1. CASE d # c
    <3>1. sock[d] = "failed" /\ handled'[d] = handled[d] /\ before'[d] = before[d] /\ ~fouled
      BY <1>1, <1>3, <1>5, <1>13, <2>1
    <3> QED BY <3>1 DEF IInv, RefusedOK
  <2>2. CASE d = c
    <3>1. r.at = "thrown" /\ before'[c] = was
      BY <1>1, <1>3, <1>5, <2>2
    <3>2. handled' = handled /\ handled[c] = FirstFrames(was) /\ Refused(c, was, emitted)
      BY <1>13, <3>1
    <3>3. reader = "own" => was = 0
      BY <1>1, <3>2 DEF IInv, OpenOK, Refused
    <3> QED BY <2>2, <3>1, <3>2, <3>3 DEF Refused
  <2> QED BY <2>1, <2>2
<1> QED BY <1>7, <1>11, <1>14, <1>15, <1>16 DEF IInv

\* A chunk pushed by both handlers of the watch client keeps the invariant.
LEMMA FedTwiceHolds ==
  ASSUME IInv, NEW c \in Conns, NEW u \in Nat, FedTwice(c, u)
  PROVE  IInv'
<1>1. /\ Arrives(c, u) /\ UNCHANGED <<reader, newest, sock, sizes, wire>>
      /\ reader = "twice" /\ handled[c] # <<>>
      /\ sock[c] = "open" /\ arrived[c] + u <= Len(wire[c])
      /\ before' = [before EXCEPT ![c] = Complete(c, arrived[c])]
      /\ ~fouled' => ~fouled /\ buf = Piece(c) /\ AtFrameEnd(c, arrived[c] + u)
  BY DEF FedTwice, Arrives
<1>2. PICK first \in Push(Chunk(c, u), buf, emitted) :
        \E second \in Push(Chunk(c, u), first.buf, first.emitted) :
          buf' = second.buf /\ emitted' = second.emitted /\ handled' = HandledWith(second.out)
  BY DEF FedTwice
<1>3. PICK second \in Push(Chunk(c, u), first.buf, first.emitted) :
        buf' = second.buf /\ emitted' = second.emitted /\ handled' = HandledWith(second.out)
  BY <1>2
<1> DEFINE was == Complete(c, arrived[c])
           is == Complete(c, arrived[c] + u)
<1>4. /\ WireTyped /\ handled \in Taking /\ emitted \in Nat /\ arrived \in [Conns -> Nat]
      /\ before \in [Conns -> Nat] /\ ArrivedOK
      /\ \A d \in Conns : WireOK(d) /\ handled[d] \in Seq(Nr) /\ arrived[d] \in 0..Len(wire[d])
  BY IInvTypes DEF IInv
<1>5. /\ Later(c, u)[c] = arrived[c] + u
      /\ \A d \in Conns : d # c => Later(c, u)[d] = arrived[d]
      /\ \A d \in Conns : Later(c, u)[d] \in 0..Len(wire[d])
  BY <1>1, <1>4, LaterIs
<1>6. /\ sock' \in [Conns -> {"unused", "open", "closed", "failed"}] /\ sock' = sock
  BY <1>1 DEF IInv, TypeOK
<1>7. /\ first \in Decode(buf \o Chunk(c, u), emitted)
      /\ buf \o Chunk(c, u) \in Seq(ArrivedIn(Later(c, u)))
      /\ Chunk(c, u) \in Seq(ArrivedIn(Later(c, u)))
  <2>1. buf \in Seq(ArrivedIn(arrived))
    BY DEF IInv, Held
  <2> QED BY <1>1, <1>4, <2>1, Joined DEF Push
<1>8. first \in Loops /\ first.buf \in Seq(ArrivedIn(Later(c, u))) /\ first.emitted \in Nat
  <2>1. first \in Loops /\ first.buf \in Seq(ArrivedIn(Later(c, u)))
    BY <1>1, <1>4, <1>7, FedArrived
  <2> QED BY <2>1 DEF Loops
<1>9. /\ second \in Decode(first.buf \o Chunk(c, u), first.emitted)
      /\ first.buf \o Chunk(c, u) \in Seq(ArrivedIn(Later(c, u)))
  <2>1. first.buf \o Chunk(c, u) \in Seq(ArrivedIn(Later(c, u)))
    BY <1>7, <1>8, JoinTyped
  <2> QED BY <2>1 DEF Push
<1>10. /\ TypeOK' /\ ArrivedOK' /\ Socks'
       /\ arrived' = Later(c, u)
       /\ buf' \in Seq(ArrivedIn(arrived)')
       /\ Bounded(handled, CompleteNow)'
       /\ \A d \in Conns : Len(handled'[d]) >= Len(handled[d])
       /\ \A d \in Conns : Distinct(handled'[d])
  <2> HIDE DEF was, is
  <2> QED BY <1>1, <1>3, <1>6, <1>8, <1>9, FedKeeps
<1>11. /\ \A d \in Conns : Complete(d, arrived[d])' = Complete(d, arrived'[d])
       /\ \A d \in Conns : AtFrameEnd(d, arrived[d])' = AtFrameEnd(d, arrived'[d])
  BY <1>1, <1>4, StreamKept
<1>12. handled' \in Taking /\ \A d \in Conns : handled'[d] \in Seq(Nr)
  BY <1>10 DEF TypeOK, Taking
<1>13. Held'
  BY <1>1, <1>10 DEF Held
<1>14. ASSUME ~fouled'
       PROVE  /\ ~fouled /\ is \in Nat
              /\ \A d \in Conns : d # c => handled'[d] = handled[d]
              /\ handled'[c] = FirstFrames(is)
  <2>1. /\ ~fouled /\ buf = Piece(c) /\ handled[c] = FirstFrames(was)
        /\ AtFrameEnd(c, arrived[c]) /\ AtFrameEnd(c, arrived[c] + u)
    BY <1>1, <1>14 DEF IInv, OpenOK
  <2>2. buf = <<>>
    BY <2>1 DEF Piece
  <2>3. /\ was \in Nat /\ is \in Nat
        /\ first.buf = Part(c, Start(c, arrived[c] + u), arrived[c] + u)
    <3>1. /\ was \in Nat /\ is \in Nat /\ was <= is
          /\ \/ /\ first.at = "left"
                /\ first.buf = Part(c, Start(c, arrived[c] + u), arrived[c] + u)
                /\ first.emitted = emitted + (is - was)
                /\ handled[c] = FirstFrames(was) =>
                     HandledWith(first.out) = [handled EXCEPT ![c] = FirstFrames(is)]
             \/ first.at = "thrown" /\ HandledWith(first.out) = handled /\ Refused(c, was, emitted)
      BY <1>1, <1>4, <2>1, FedClean
    <3> QED BY <1>1, <3>1 DEF Refused
  <2>4. first.buf = <<>>
    <3> DEFINE z == arrived[c] + u
    <3>1. z \in 0..Len(wire[c]) /\ z \in 0..z /\ z - z = 0 /\ Start(c, z) = z
      BY <1>5, <2>1, WireLen DEF Start
    <3>2. first.buf = Part(c, z, z)
      BY <2>3, <3>1
    <3> HIDE DEF z
    <3>3. Part(c, z, z) \in Seq(Known) /\ Len(Part(c, z, z)) = z - z
      BY <1>4, <3>1, PartIs
    <3> QED BY <3>1, <3>2, <3>3, EmptySequence
  <2>5. second \in Push(Chunk(c, u), buf, first.emitted)
    BY <2>2, <2>4
  <2>6. HandledWith(second.out) = [handled EXCEPT ![c] = FirstFrames(is)]
    <3> DEFINE n == first.emitted
    <3>1. n \in Nat /\ second \in Push(Chunk(c, u), buf, n)
      BY <1>8, <2>5
    <3> HIDE DEF n
    <3>2. /\ was \in Nat /\ is \in Nat /\ was <= is
          /\ \/ /\ second.at = "left"
                /\ second.buf = Part(c, Start(c, arrived[c] + u), arrived[c] + u)
                /\ second.emitted = n + (is - was)
                /\ handled[c] = FirstFrames(was) =>
                     HandledWith(second.out) = [handled EXCEPT ![c] = FirstFrames(is)]
             \/ second.at = "thrown" /\ HandledWith(second.out) = handled /\ Refused(c, was, n)
      BY <1>1, <1>4, <2>1, <3>1, FedClean
    <3> QED BY <1>1, <2>1, <3>2 DEF Refused
  <2> HIDE DEF was, is
  <2> QED BY <1>3, <1>4, <2>1, <2>3, <2>6 DEF Taking
<1>15. HandledOK'
  <2>1. ASSUME ~fouled' PROVE \A d \in Conns : Increasing(handled'[d])
    <3>1. \A d \in Conns : Increasing(handled[d])
      BY <1>14, <2>1 DEF IInv, HandledOK
    <3>2. Increasing(FirstFrames(is))
      BY <1>14, <2>1, FirstFramesGrow
    <3> QED BY <1>14, <2>1, <3>1, <3>2
  <2> QED BY <1>1, <1>10, <2>1 DEF HandledOK, Distinct, Increasing
<1>16. ASSUME NEW d \in Conns PROVE OpenOK(d)'
  <2> SUFFICES ASSUME sock'[d] = "open"
               PROVE  /\ ~fouled' => handled'[d] = FirstFrames(Complete(d, arrived'[d]))
                      /\ Len(sizes[d]) >= 2 => handled'[d] # <<>>
                      /\ ~fouled' /\ handled'[d] # <<>> => AtFrameEnd(d, arrived'[d])
    BY <1>1, <1>11 DEF OpenOK, FirstFrames
  <2>1. Len(handled[d]) \in Nat /\ Len(handled'[d]) \in Nat /\ (Len(handled[d]) = 0 <=> handled[d] = <<>>)
        /\ Len(handled'[d]) >= Len(handled[d])
    BY <1>4, <1>10, <1>12, EmptySequence
  <2>2. sock[d] = "open" /\ OpenOK(d)
    BY <1>6 DEF IInv
  <2>3. Len(sizes[d]) >= 2 => handled'[d] # <<>>
    BY <1>1, <2>1, <2>2 DEF OpenOK
  <2>4. CASE d # c
    <3>1. arrived'[d] = arrived[d]
      BY <1>5, <1>10, <2>4
    <3> QED BY <1>1, <1>14, <2>2, <2>3, <2>4, <3>1 DEF OpenOK
  <2>5. CASE d = c
    BY <1>1, <1>5, <1>10, <1>14, <2>3, <2>5
  <2> QED BY <2>4, <2>5
<1>17. ASSUME NEW d \in Conns PROVE RefusedOK(d)'
  <2> SUFFICES ASSUME ~fouled', sock'[d] = "failed"
               PROVE  /\ handled'[d] = FirstFrames(before'[d])
                      /\ before'[d] + 1 \in 1..Len(sizes[d])
                      /\ sizes[d][before'[d] + 1] > FirstCap
    BY <1>1 DEF RefusedOK, FirstFrames
  <2>1. sock[d] = "failed" /\ d # c
    BY <1>1, <1>6
  <2>2. handled'[d] = handled[d] /\ before'[d] = before[d] /\ ~fouled
    BY <1>1, <1>4, <1>14, <2>1
  <2> QED BY <2>1, <2>2 DEF IInv, RefusedOK
<1> QED BY <1>10, <1>13, <1>15, <1>16, <1>17 DEF IInv

-----------------------------------------------------------------------------
(* Connections come and go *)

\* Nothing has come of a connection on which nothing was sent.
LEMMA NothingSent ==
  ASSUME IInv, NEW c \in Conns, sizes[c] = <<>>
  PROVE  /\ arrived[c] = 0 /\ handled[c] = <<>>
         /\ Complete(c, 0) = 0 /\ AtFrameEnd(c, 0) /\ FirstFrames(0) = <<>>
<1>1. /\ WireTyped /\ WireOK(c) /\ handled[c] \in Seq(Nr) /\ arrived[c] \in 0..Len(wire[c])
  BY IInvTypes
<1>2. arrived[c] = 0
  <2>1. Len(sizes[c]) = 0
    OBVIOUS
  <2> QED BY <1>1, <2>1, WireLen DEF WireOK
<1>3. Complete(c, 0) = 0 /\ AtFrameEnd(c, 0) /\ FirstFrames(0) = <<>>
  BY DEF Complete, AtFrameEnd, FirstFrames
<1>4. handled[c] = <<>>
  <2>1. ASSUME NEW j \in 1..Len(handled[c]) PROVE FALSE
    <3>1. handled[c][j] <= 0
      BY <1>2, <1>3 DEF IInv, HandledOK, Bounded, CompleteNow
    <3>2. handled[c][j] \in Nr
      BY <1>1, ElementTyped
    <3> QED BY <3>1, <3>2 DEF Nr
  <2>2. Len(handled[c]) \in Nat
    BY <1>1
  <2>3. Len(handled[c]) = 0
    BY <2>1, <2>2
  <2> QED BY <1>1, <2>3, EmptySequence
<1> QED BY <1>2, <1>3, <1>4

\* A new connection, with its new decoder, keeps the invariant.
LEMMA ConnectHolds ==
  ASSUME IInv, Connect
  PROVE  IInv'
<1> DEFINE k == newest + 1
<1>1. /\ newest < MaxConns /\ newest' = k /\ sock' = [sock EXCEPT ![k] = "open"]
      /\ buf' = <<>> /\ emitted' = 0
      /\ reader # "newest" => \A c \in Conns : sock[c] # "open"
      /\ UNCHANGED <<reader, sizes, wire, arrived, handled, before, fouled>>
  BY DEF Connect
<1>2. /\ ArrivedOK /\ newest \in 0..MaxConns /\ MaxConns \in Nat
      /\ \A d \in Conns : arrived[d] \in 0..Len(wire[d])
  BY IInvTypes DEF IInv
<1>3. k \in Conns /\ k > newest /\ k \in 0..MaxConns
  BY <1>1, <1>2 DEF Conns
<1> HIDE DEF k
<1>4. sock[k] = "unused" /\ sizes[k] = <<>>
  BY <1>3 DEF IInv, Socks
<1>5. /\ sock' \in [Conns -> {"unused", "open", "closed", "failed"}]
      /\ sock'[k] = "open" /\ \A d \in Conns : d # k => sock'[d] = sock[d]
  BY <1>1, <1>3 DEF IInv, TypeOK
<1>6. TypeOK'
  <2>1. <<>> \in Seq(Unit)
    OBVIOUS
  <2> QED BY <1>1, <1>3, <1>5, <2>1 DEF IInv, TypeOK
<1>7. /\ WireTyped' /\ (\A d \in Conns : WireOK(d))'
      /\ \A d \in Conns : Complete(d, arrived[d])' = Complete(d, arrived'[d])
      /\ \A d \in Conns : AtFrameEnd(d, arrived[d])' = AtFrameEnd(d, arrived'[d])
  BY <1>1, <1>2, StreamKept
<1>8. ArrivedOK'
  BY <1>1, <1>2, <1>7 DEF ArrivedOK
<1>9. Held'
  BY <1>1 DEF Held, Sorted, Behind
<1>10. HandledOK'
  BY <1>1, <1>7 DEF IInv, HandledOK, Bounded, CompleteNow
<1>11. Socks'
  <2> SUFFICES ASSUME NEW d \in Conns
               PROVE  (d > k => sock'[d] = "unused") /\ (sock'[d] = "unused" => sizes[d] = <<>>)
    BY <1>1 DEF Socks
  <2>1. d > k => d # k /\ d > newest
    BY <1>2, <1>3 DEF Conns, k
  <2> QED BY <1>5, <2>1 DEF IInv, Socks
<1>12. ASSUME NEW d \in Conns PROVE OpenOK(d)'
  <2>1. CASE d = k
    <3>1. /\ sizes[d] = <<>> /\ arrived[d] = 0 /\ handled[d] = <<>>
          /\ Complete(d, 0) = 0 /\ AtFrameEnd(d, 0) /\ FirstFrames(0) = <<>>
      BY <1>4, <2>1, NothingSent
    <3>2. /\ arrived'[d] = 0 /\ handled'[d] = <<>>
          /\ Complete(d, arrived[d])' = 0 /\ AtFrameEnd(d, arrived[d])'
      BY <1>1, <1>7, <3>1
    <3>3. Piece(d)' = <<>>
      BY <3>2 DEF Piece
    <3>4. (handled[d] = FirstFrames(Complete(d, arrived[d])))'
      BY <3>1, <3>2 DEF FirstFrames
    <3>5. ~(Len(sizes'[d]) >= 2)
      BY <1>1, <3>1
    <3>6. d = newest'
      BY <1>1, <2>1
    <3> QED BY <1>1, <3>2, <3>3, <3>4, <3>5, <3>6 DEF OpenOK
  <2>2. CASE d # k
    <3>1. OpenOK(d) /\ sock'[d] = sock[d]
      BY <1>5, <2>2 DEF IInv
    <3>2. sock'[d] = "open" => reader = "newest"
      BY <1>1, <3>1
    <3> QED BY <1>1, <1>7, <3>1, <3>2 DEF OpenOK, FirstFrames
  <2> QED BY <2>1, <2>2
<1>13. ASSUME NEW d \in Conns PROVE RefusedOK(d)'
  <2>1. RefusedOK(d) /\ (sock'[d] = "failed" => sock[d] = "failed")
    BY <1>5 DEF IInv
  <2> QED BY <1>1, <2>1 DEF RefusedOK, FirstFrames
<1> QED BY <1>6, <1>8, <1>9, <1>10, <1>11, <1>12, <1>13 DEF IInv

\* A close keeps the invariant.
LEMMA CloseHolds ==
  ASSUME IInv, NEW c \in Conns, Close(c)
  PROVE  IInv'
<1>1. /\ sock[c] = "open" /\ sock' = [sock EXCEPT ![c] = "closed"]
      /\ UNCHANGED <<reader, newest, sizes, wire, arrived, buf, emitted, handled, before, fouled>>
  BY DEF Close
<1>2. ArrivedOK /\ \A d \in Conns : arrived[d] \in 0..Len(wire[d])
  BY IInvTypes DEF IInv
<1>3. /\ sock' \in [Conns -> {"unused", "open", "closed", "failed"}]
      /\ sock'[c] = "closed" /\ \A d \in Conns : d # c => sock'[d] = sock[d]
  BY <1>1 DEF IInv, TypeOK
<1>4. TypeOK'
  BY <1>1, <1>3 DEF IInv, TypeOK
<1>5. /\ WireTyped' /\ (\A d \in Conns : WireOK(d))'
      /\ \A d \in Conns : Complete(d, arrived[d])' = Complete(d, arrived'[d])
      /\ \A d \in Conns : AtFrameEnd(d, arrived[d])' = AtFrameEnd(d, arrived'[d])
      /\ ArrivedIn(arrived)' = ArrivedIn(arrived')
  BY <1>1, <1>2, StreamKept
<1>6. ArrivedOK'
  BY <1>1, <1>2, <1>5 DEF ArrivedOK
<1>7. Held'
  BY <1>1, <1>5 DEF IInv, Held, Sorted, Behind, Before
<1>8. HandledOK'
  BY <1>1, <1>5 DEF IInv, HandledOK, Bounded, CompleteNow
<1>9. Socks'
  BY <1>1, <1>3 DEF IInv, Socks
<1>10. ASSUME NEW d \in Conns PROVE OpenOK(d)'
  <2>1. OpenOK(d) /\ (sock'[d] = "open" => sock[d] = "open")
    BY <1>3 DEF IInv
  <2>2. Piece(d)' = Piece(d)
    BY <1>1, <1>5 DEF Piece
  <2> QED BY <1>1, <1>5, <2>1, <2>2 DEF OpenOK, FirstFrames
<1>11. ASSUME NEW d \in Conns PROVE RefusedOK(d)'
  <2>1. RefusedOK(d) /\ (sock'[d] = "failed" => sock[d] = "failed")
    BY <1>3 DEF IInv
  <2> QED BY <1>1, <2>1 DEF RefusedOK, FirstFrames
<1> QED BY <1>4, <1>6, <1>7, <1>8, <1>9, <1>10, <1>11 DEF IInv

\* A frame is appended to the stream of c; what was there stays where it was.
LEMMA FrameAppended ==
  ASSUME WireTyped, NEW c \in Conns, WireOK(c), NEW size \in 1..Cap,
         sizes' = [sizes EXCEPT ![c] = Append(@, size)],
         wire' = [wire EXCEPT ![c] = @ \o Framed(c, Len(sizes[c]) + 1, size)]
  PROVE  /\ WireTyped'
         /\ \A d \in Conns : d # c => sizes'[d] = sizes[d] /\ wire'[d] = wire[d]
         /\ Len(sizes'[c]) = Len(sizes[c]) + 1 /\ sizes'[c][Len(sizes[c]) + 1] = size
         /\ \A i \in 1..Len(sizes[c]) : sizes'[c][i] = sizes[c][i] /\ i \in 1..Len(sizes'[c])
         /\ Needed(size) \in Nat /\ Needed(size) > 1
         /\ Len(wire'[c]) = Len(wire[c]) + Needed(size)
         /\ \A p \in 1..Len(wire[c]) : wire'[c][p] = wire[c][p] /\ p \in 1..Len(wire'[c])
         /\ \A k \in 1..Needed(size) :
              wire'[c][Len(wire[c]) + k] = UnitOf(c, Len(sizes[c]) + 1, k)
<1> DEFINE n == Len(sizes[c]) + 1
           L == Len(wire[c])
           N == Needed(size)
           f == Framed(c, n, size)
<1>1. /\ sizes[c] \in Seq(1..Cap) /\ wire[c] \in Seq(Unit) /\ Len(sizes[c]) \in Nat /\ L \in Nat
      /\ n \in Nr
  BY WireLen DEF WireTyped, SizesTyped, Nr
<1>2. N \in Nat /\ N > 1
  BY SizesAssumption DEF Needed
<1>3. f \in Seq(Unit) /\ Len(f) = N /\ \A k \in 1..N : f[k] = UnitOf(c, n, k)
  <2>1. f = [k \in 1..N |-> UnitOf(c, n, k)]
    BY DEF Framed, UnitOf
  <2> HIDE DEF f, N, n
  <2>2. \A k \in 1..N : UnitOf(c, n, k) \in Unit
    BY <1>1, <1>2 DEF UnitOf, Unit, Nr
  <2>3. f \in [1..N -> Unit]
    BY <2>1, <2>2
  <2>4. f \in Seq(Unit) /\ Len(f) = N
    BY <1>2, <2>3, SequenceTyped
  <2> QED BY <2>1, <2>4
<1>4. /\ sizes' = [sizes EXCEPT ![c] = Append(sizes[c], size)]
      /\ wire' = [wire EXCEPT ![c] = wire[c] \o f]
  OBVIOUS
<1> HIDE DEF f, N
<1>5. /\ Append(sizes[c], size) \in Seq(1..Cap) /\ Len(Append(sizes[c], size)) = n
      /\ Append(sizes[c], size)[n] = size
      /\ \A i \in 1..Len(sizes[c]) : Append(sizes[c], size)[i] = sizes[c][i]
  BY <1>1
<1>6. /\ wire[c] \o f \in Seq(Unit) /\ Len(wire[c] \o f) = L + N
      /\ \A p \in 1..(L + N) :
           \/ p \in 1..L /\ (wire[c] \o f)[p] = wire[c][p]
           \/ p - L \in 1..N /\ (wire[c] \o f)[p] = f[p - L]
  BY <1>1, <1>3, JoinTyped
<1>7. /\ \A p \in 1..L : (wire[c] \o f)[p] = wire[c][p] /\ p \in 1..(L + N)
      /\ \A k \in 1..N : (wire[c] \o f)[L + k] = UnitOf(c, n, k)
  <2>1. ASSUME NEW p \in 1..L PROVE (wire[c] \o f)[p] = wire[c][p] /\ p \in 1..(L + N)
    <3>1. p \in 1..(L + N) /\ ~(p - L \in 1..N)
      BY <1>1, <1>2
    <3> QED BY <1>6, <3>1
  <2>2. ASSUME NEW k \in 1..N PROVE (wire[c] \o f)[L + k] = UnitOf(c, n, k)
    <3>1. L + k \in 1..(L + N) /\ ~(L + k \in 1..L) /\ (L + k) - L = k
      BY <1>1, <1>2
    <3> QED BY <1>3, <1>6, <3>1
  <2> QED BY <2>1, <2>2
<1>8. /\ sizes'[c] = Append(sizes[c], size) /\ wire'[c] = wire[c] \o f
      /\ \A d \in Conns : d # c => sizes'[d] = sizes[d] /\ wire'[d] = wire[d]
  BY <1>4 DEF WireTyped, SizesTyped
<1>9. WireTyped'
  <2>1. sizes' \in [Conns -> Seq(1..Cap)] /\ wire' \in [Conns -> Seq(Unit)]
    BY <1>4, <1>5, <1>6 DEF WireTyped, SizesTyped
  <2> QED BY <2>1 DEF WireTyped, SizesTyped
<1>10. \A i \in 1..Len(sizes[c]) : i \in 1..n
  BY <1>1
<1> QED BY <1>2, <1>5, <1>6, <1>7, <1>8, <1>9, <1>10 DEF N

\* A frame that is sent goes behind all others and changes nothing about them.
LEMMA WireOKAppended ==
  ASSUME WireTyped, NEW c \in Conns, WireOK(c), NEW size \in 1..Cap,
         sizes' = [sizes EXCEPT ![c] = Append(@, size)],
         wire' = [wire EXCEPT ![c] = @ \o Framed(c, Len(sizes[c]) + 1, size)]
  PROVE  /\ WireOK(c)'
         /\ \A a \in 0..Len(wire[c]) : /\ Complete(c, a)' = Complete(c, a)
                                       /\ AtFrameEnd(c, a)' = AtFrameEnd(c, a)
<1> DEFINE n == Len(sizes[c]) + 1
           L == Len(wire[c])
           N == Needed(size)
<1>1. /\ Len(sizes'[c]) = n /\ sizes'[c][n] = size
      /\ \A i \in 1..Len(sizes[c]) : sizes'[c][i] = sizes[c][i] /\ i \in 1..Len(sizes'[c])
      /\ N \in Nat /\ N > 1
      /\ Len(wire'[c]) = L + N
      /\ \A p \in 1..L : wire'[c][p] = wire[c][p] /\ p \in 1..Len(wire'[c])
      /\ \A k \in 1..N : wire'[c][L + k] = UnitOf(c, n, k)
  BY FrameAppended
<1>2. L \in Nat /\ Len(sizes[c]) \in Nat /\ n \in Nat
  BY WireLen
<1> HIDE DEF n, L, N
<1>3. ASSUME NEW a \in 0..L
      PROVE  AtFrameEnd(c, a)' = AtFrameEnd(c, a) /\ Complete(c, a)' = Complete(c, a)
  <2>1. CASE a = 0
    BY <2>1 DEF AtFrameEnd, Complete
  <2>2. CASE a # 0
    <3>1. a \in 1..Len(wire[c])
      BY <1>2, <2>2 DEF L
    <3>2. wire[c][a].i \in 1..Len(sizes[c])
      BY <3>1, PlaceIs
    <3>3. /\ wire'[c][a] = wire[c][a]
          /\ sizes'[c][wire[c][a].i] = sizes[c][wire[c][a].i]
      BY <1>1, <3>1, <3>2 DEF L
    <3>4. wire[c][a].k = Needed(sizes'[c][wire[c][a].i]) <=> wire[c][a].k = Needed(sizes[c][wire[c][a].i])
      BY <3>3
    <3>5. AtFrameEnd(c, a)' = AtFrameEnd(c, a)
      BY <2>2, <3>3, <3>4 DEF AtFrameEnd
    <3>6. wire'[c][a].i = wire[c][a].i
      BY <3>3
    <3>7. CASE AtFrameEnd(c, a)
      <4>1. Complete(c, a) = wire[c][a].i
        BY <2>2, <3>7 DEF Complete
      <4>2. Complete(c, a)' = wire'[c][a].i
        BY <2>2, <3>5, <3>7 DEF Complete
      <4> QED BY <3>5, <3>6, <4>1, <4>2
    <3>8. CASE ~AtFrameEnd(c, a)
      <4>1. Complete(c, a) = wire[c][a].i - 1
        BY <2>2, <3>8 DEF Complete
      <4>2. Complete(c, a)' = wire'[c][a].i - 1
        BY <2>2, <3>5, <3>8 DEF Complete
      <4> QED BY <3>5, <3>6, <4>1, <4>2
    <3> QED BY <3>7, <3>8
  <2> QED BY <2>1, <2>2
<1>4. \A p \in 1..(L + N) : p \in 1..L \/ p - L \in 1..N
  BY <1>1, <1>2
<1>5. ASSUME NEW k \in 1..N
      PROVE  wire'[c][L + k].i = n /\ wire'[c][L + k].k = k
  <2>1. wire'[c][L + k] = UnitOf(c, n, k)
    BY <1>1
  <2>2. UnitOf(c, n, k).i = n /\ UnitOf(c, n, k).k = k
    BY UnitParts
  <2> QED BY <2>1, <2>2
<1>6. ASSUME NEW p \in 1..L PROVE UnitOK(c, p)'
  <2> DEFINE i == wire[c][p].i
             k == wire[c][p].k
             M == Needed(sizes[c][i])
  <2>1. /\ i \in 1..Len(sizes[c]) /\ M \in Nat /\ k \in 1..M /\ PlaceOK(c, p, i, k, M)
    BY PlaceIs DEF L
  <2>2. wire'[c][p] = wire[c][p] /\ sizes'[c][i] = sizes[c][i] /\ i \in 1..Len(sizes'[c])
    BY <1>1, <2>1
  <2> HIDE DEF i, k, M
  <2>3. /\ wire[c][p] = UnitOf(c, i, k) /\ k <= p /\ p - k + M <= L
        /\ \A m \in 1..M : wire[c][p - k + m] = UnitOf(c, i, m)
        /\ k = 1 /\ p = 1 => i = 1
        /\ k = 1 /\ p # 1 => AtFrameEnd(c, p - 1) /\ wire[c][p - 1].i = i - 1
    BY <2>1 DEF PlaceOK, L
  <2>4. p - k + M <= Len(wire'[c])
    BY <1>1, <1>2, <2>1, <2>3
  <2>5. ASSUME NEW m \in 1..M PROVE wire'[c][p - k + m] = UnitOf(c, i, m)
    <3>1. p - k + m \in 1..L
      BY <1>2, <2>1, <2>3
    <3> QED BY <1>1, <2>3, <3>1
  <2>6. ASSUME p # 1 PROVE p - 1 \in 1..L /\ p - 1 \in 0..L
    BY <1>2, <2>6
  <2>7. k = 1 /\ p # 1 => AtFrameEnd(c, p - 1)' /\ wire'[c][p - 1].i = i - 1
    BY <1>1, <1>3, <2>3, <2>6
  <2>8. wire'[c][p].i = i /\ wire'[c][p].k = k /\ Needed(sizes'[c][i]) = M
    BY <2>2 DEF i, k, M
  <2>9. PlaceOK(c, p, wire[c][p].i, wire[c][p].k, Needed(sizes[c][wire[c][p].i]))'
    BY <2>1, <2>2, <2>3, <2>4, <2>5, <2>7, <2>8 DEF PlaceOK, UnitOf
  <2> QED BY <2>2, <2>8, <2>9 DEF UnitOK
<1>7. ASSUME NEW p \in 1..(L + N), p - L \in 1..N PROVE UnitOK(c, p)'
  <2> DEFINE k == p - L
  <2>1. /\ p \in Nat /\ k \in 1..N /\ k \in Nat /\ L + k = p /\ p - k = L /\ k <= p
        /\ p - k + N <= Len(wire'[c])
    BY <1>1, <1>2, <1>7
  <2>2. wire'[c][p] = UnitOf(c, n, k) /\ wire'[c][p].i = n /\ wire'[c][p].k = k
    BY <1>1, <1>5, <2>1
  <2>3. n \in 1..Len(sizes'[c]) /\ Needed(sizes'[c][n]) = N
    BY <1>1, <1>2 DEF N, n
  <2> HIDE DEF k
  <2>4. \A m \in 1..N : wire'[c][p - k + m] = UnitOf(c, n, m)
    BY <1>1, <2>1
  <2>5. ASSUME k = 1, p = 1 PROVE n = 1
    <3>1. L = 0
      BY <2>1, <2>5
    <3> QED BY <1>2, <3>1 DEF WireOK, L, n
  <2>6. ASSUME k = 1, p # 1 PROVE AtFrameEnd(c, p - 1)' /\ wire'[c][p - 1].i = n - 1
    <3>1. p - 1 = L /\ L # 0 /\ L \in 1..L /\ L \in 0..L
      BY <1>2, <2>1, <2>6
    <3>2. AtFrameEnd(c, L) /\ wire[c][L].i = n - 1
      BY <1>2, <3>1 DEF WireOK, L, n
    <3>3. AtFrameEnd(c, p - 1)'
      BY <1>3, <3>1, <3>2
    <3> QED BY <1>1, <3>1, <3>2, <3>3
  <2>7. PlaceOK(c, p, wire[c][p].i, wire[c][p].k, Needed(sizes[c][wire[c][p].i]))'
    BY <2>1, <2>2, <2>3, <2>4, <2>5, <2>6 DEF PlaceOK, UnitOf
  <2> QED BY <2>2, <2>3, <2>7 DEF UnitOK
<1>8. ASSUME NEW p \in 1..(L + N), NEW q \in 1..(L + N), p < q PROVE Before(wire'[c][p], wire'[c][q])
  <2>1. CASE q \in 1..L
    <3>1. p \in 1..L
      BY <1>1, <1>2, <1>8, <2>1
    <3>2. Before(wire[c][p], wire[c][q])
      BY <1>8, <2>1, <3>1 DEF WireOK, L
    <3> QED BY <1>1, <2>1, <3>1, <3>2
  <2>2. CASE p \in 1..L /\ q - L \in 1..N
    <3>1. wire'[c][q].i = n
      <4>1. L + (q - L) = q
        BY <1>2
      <4> QED BY <1>5, <2>2, <4>1
    <3>2. wire[c][p].i \in 1..Len(sizes[c])
      BY <2>2, PlaceIs DEF L
    <3>3. wire[c][p].i < n
      BY <1>2, <3>2 DEF n
    <3>4. wire'[c][p].i < n
      BY <1>1, <2>2, <3>3
    <3> QED BY <3>1, <3>4 DEF Before
  <2>3. CASE p - L \in 1..N /\ q - L \in 1..N
    <3>1. L + (p - L) = p /\ L + (q - L) = q /\ p - L < q - L
      BY <1>2, <1>8
    <3>2. wire'[c][p].i = n /\ wire'[c][p].k = p - L /\ wire'[c][q].i = n /\ wire'[c][q].k = q - L
      BY <1>5, <2>3, <3>1
    <3> QED BY <3>1, <3>2 DEF Before
  <2>4. p \in 1..L \/ p - L \in 1..N
    BY <1>4
  <2>5. q \in 1..L \/ q - L \in 1..N
    BY <1>4
  <2> QED BY <2>1, <2>2, <2>3, <2>4, <2>5
<1>9. Len(wire'[c]) # 0 /\ wire'[c][Len(wire'[c])].i = n /\ AtFrameEnd(c, Len(wire[c]))'
  <2>1. N \in 1..N /\ Len(wire'[c]) # 0
    BY <1>1, <1>2
  <2>2. wire'[c][Len(wire'[c])].i = n /\ wire'[c][Len(wire'[c])].k = N
    BY <1>1, <1>5, <2>1
  <2>3. Needed(sizes'[c][n]) = N
    BY <1>1 DEF N
  <2> QED BY <2>1, <2>2, <2>3 DEF AtFrameEnd
<1>10. WireOK(c)'
  <2>1. \A p \in 1..Len(wire'[c]) : UnitOK(c, p)'
    BY <1>1, <1>4, <1>6, <1>7
  <2>2. \A p, q \in 1..Len(wire'[c]) : p < q => Before(wire'[c][p], wire'[c][q])
    BY <1>1, <1>8
  <2>3. Len(sizes'[c]) = n /\ n # 0
    BY <1>1, <1>2 DEF n
  <2> QED BY <1>9, <2>1, <2>2, <2>3 DEF WireOK, Before
<1> QED BY <1>3, <1>10 DEF L

\* Sending a frame keeps the invariant.
LEMMA SendHolds ==
  ASSUME IInv, NEW c \in Conns, NEW size \in 1..Cap, Send(c, size)
  PROVE  IInv'
<1>1. /\ sock[c] = "open"
      /\ reader = "twice" /\ sizes[c] # <<>> => handled[c] # <<>>
      /\ sizes' = [sizes EXCEPT ![c] = Append(@, size)]
      /\ wire' = [wire EXCEPT ![c] = @ \o Framed(c, Len(sizes[c]) + 1, size)]
      /\ UNCHANGED <<reader, newest, sock, arrived, buf, emitted, handled, before, fouled>>
  BY DEF Send
<1>2. /\ WireTyped /\ arrived \in [Conns -> Nat]
      /\ \A d \in Conns : WireOK(d) /\ arrived[d] \in 0..Len(wire[d])
                          /\ Len(wire[d]) \in Nat /\ Len(sizes[d]) \in Nat
  BY IInvTypes, WireLen
<1>3. /\ WireTyped'
      /\ \A d \in Conns : d # c => sizes'[d] = sizes[d] /\ wire'[d] = wire[d]
      /\ Len(sizes'[c]) = Len(sizes[c]) + 1
      /\ \A i \in 1..Len(sizes[c]) : sizes'[c][i] = sizes[c][i] /\ i \in 1..Len(sizes'[c])
      /\ Needed(size) \in Nat
      /\ Len(wire'[c]) = Len(wire[c]) + Needed(size)
      /\ \A p \in 1..Len(wire[c]) : wire'[c][p] = wire[c][p] /\ p \in 1..Len(wire'[c])
  BY <1>1, <1>2, FrameAppended
<1>4. ASSUME NEW d \in Conns
      PROVE  /\ WireOK(d)'
             /\ \A a \in 0..Len(wire[d]) : /\ Complete(d, a)' = Complete(d, a)
                                           /\ AtFrameEnd(d, a)' = AtFrameEnd(d, a)
  <2>1. CASE d = c
    BY <1>1, <1>2, <2>1, WireOKAppended
  <2>2. CASE d # c
    <3>1. sizes'[d] = sizes[d] /\ wire'[d] = wire[d] /\ WireOK(d)
      BY <1>2, <1>3, <2>2
    <3>2. WireOK(d)'
      BY <3>1 DEF WireOK, UnitOK, PlaceOK, AtFrameEnd
    <3>3. ASSUME NEW a \in 0..Len(wire[d])
          PROVE  Complete(d, a)' = Complete(d, a) /\ AtFrameEnd(d, a)' = AtFrameEnd(d, a)
      BY <3>1 DEF Complete, AtFrameEnd
    <3> QED BY <3>2, <3>3
  <2> QED BY <2>1, <2>2
<1>5. ASSUME NEW d \in Conns
      PROVE  /\ Complete(d, arrived[d])' = Complete(d, arrived[d])
             /\ AtFrameEnd(d, arrived[d])' = AtFrameEnd(d, arrived[d])
             /\ arrived'[d] <= Len(wire'[d])
             /\ Len(sizes'[d]) >= Len(sizes[d])
             /\ \A i \in 1..Len(sizes[d]) : sizes'[d][i] = sizes[d][i] /\ i \in 1..Len(sizes'[d])
             /\ \A p \in 1..Len(wire[d]) : wire'[d][p] = wire[d][p]
  <2>1. /\ Complete(d, arrived[d])' = Complete(d, arrived[d])
        /\ AtFrameEnd(d, arrived[d])' = AtFrameEnd(d, arrived[d])
    BY <1>1, <1>2, <1>4
  <2>2. CASE d = c
    BY <1>1, <1>2, <1>3, <2>1, <2>2
  <2>3. CASE d # c
    BY <1>1, <1>2, <1>3, <2>1, <2>3
  <2> QED BY <2>2, <2>3
<1>6. ArrivedOK'
  BY <1>1, <1>2, <1>3, <1>4, <1>5 DEF ArrivedOK
<1>7. TypeOK'
  BY <1>1, <1>3 DEF IInv, TypeOK, WireTyped, SizesTyped
<1>8. buf' \in Seq(ArrivedIn(arrived)')
  <2>1. ArrivedIn(arrived) \subseteq ArrivedIn(arrived)'
    <3> SUFFICES ASSUME NEW x \in ArrivedIn(arrived) PROVE x \in ArrivedIn(arrived)'
      OBVIOUS
    <3>1. x \in Unit /\ x.c \in Conns /\ x.i \in 1..Len(sizes[x.c])
      BY DEF ArrivedIn, Known, Unit
    <3>2. PICK q \in 1..arrived[x.c] : wire[x.c][q] = x
      BY DEF ArrivedIn
    <3>3. q \in 1..Len(wire[x.c]) /\ q \in 1..arrived'[x.c]
      BY <1>1, <1>2, <3>1
    <3>4. x.i \in 1..Len(sizes'[x.c]) /\ wire'[x.c][q] = x
      BY <1>5, <3>1, <3>2, <3>3
    <3> QED BY <3>1, <3>3, <3>4 DEF ArrivedIn, Known
  <2>2. buf \in Seq(ArrivedIn(arrived))
    BY DEF IInv, Held
  <2>3. buf \in Seq(ArrivedIn(arrived)')
    BY <2>1, <2>2, WiderSequence
  <2> QED BY <1>1, <2>3
<1>9. Held'
  BY <1>1, <1>8 DEF IInv, Held, Sorted, Behind, Before
<1>10. HandledOK'
  BY <1>1, <1>5 DEF IInv, HandledOK, Bounded, CompleteNow
<1>11. Socks'
  <2>1. \A d \in Conns : sock[d] = "unused" => sizes'[d] = sizes[d]
    BY <1>1, <1>3
  <2> QED BY <1>1, <2>1 DEF IInv, Socks
<1>12. ASSUME NEW d \in Conns PROVE OpenOK(d)'
  <2>1. OpenOK(d)
    BY DEF IInv
  <2>2. ASSUME reader = "twice", Len(sizes'[d]) >= 2, sock[d] = "open" PROVE handled[d] # <<>>
    <3>1. CASE d = c
      <4>1. Len(sizes[c]) # 0
        BY <1>2, <1>3, <2>2, <3>1
      <4>2. sizes[c] # <<>>
        BY <4>1
      <4> QED BY <1>1, <2>2, <3>1, <4>2
    <3>2. CASE d # c
      BY <1>3, <2>1, <2>2, <3>2 DEF OpenOK
    <3> QED BY <3>1, <3>2
  <2>3. Piece(d)' = Piece(d)
    <3>1. CASE AtFrameEnd(d, arrived[d])
      BY <1>5, <3>1 DEF Piece
    <3>2. CASE ~AtFrameEnd(d, arrived[d])
      <4> DEFINE a == arrived[d]
                 k == wire[d][a].k
                 e == a - k
      <4>1. a \in 1..Len(wire[d])
        BY <1>2, <3>2 DEF AtFrameEnd
      <4>2. /\ PlaceOK(d, a, wire[d][a].i, k, Needed(sizes[d][wire[d][a].i]))
            /\ Needed(sizes[d][wire[d][a].i]) \in Nat
            /\ k \in 1..Needed(sizes[d][wire[d][a].i])
        BY <1>2, <4>1, PlaceIs
      <4>3. e \in 0..a /\ a \in 0..Len(wire[d])
        <5>1. k <= a
          BY <4>2 DEF PlaceOK
        <5>2. k \in Nat /\ a \in Nat /\ a <= Len(wire[d])
          BY <1>2, <4>1, <4>2
        <5> HIDE DEF k, a
        <5> QED BY <1>2, <5>1, <5>2
      <4>4. Piece(d) = SubSeq(wire[d], e + 1, a)
        BY <3>2 DEF Piece
      <4>5. Piece(d)' = SubSeq(wire'[d], e + 1, a)
        <5>1. wire'[d][arrived[d]] = wire[d][arrived[d]] /\ arrived'[d] = arrived[d]
          BY <1>1, <1>5, <4>1
        <5>2. ~AtFrameEnd(d, arrived[d])'
          BY <1>5, <3>2
        <5> QED BY <5>1, <5>2 DEF Piece
      <4> HIDE DEF a, k, e
      <4>6. wire[d] \in Seq(Unit) /\ wire'[d] \in Seq(Unit) /\ Len(wire'[d]) >= Len(wire[d])
        <5>1. wire[d] \in Seq(Unit) /\ wire'[d] \in Seq(Unit)
          BY <1>2, <1>3 DEF WireTyped
        <5>2. Len(wire'[d]) >= Len(wire[d])
          BY <1>2, <1>3
        <5> QED BY <5>1, <5>2
      <4>7. SubSeq(wire[d], e + 1, a) = SubSeq(wire'[d], e + 1, a)
        <5> DEFINE x == wire[d]
                   y == wire'[d]
        <5>1. x \in Seq(Unit) /\ y \in Seq(Unit) /\ Len(y) >= Len(x)
          BY <4>6
        <5>2. \A p \in 1..Len(x) : y[p] = x[p]
          BY <1>5
        <5>3. e \in 0..a /\ a \in 0..Len(x)
          BY <4>3
        <5> HIDE DEF x, y
        <5>4. SubSeq(x, e + 1, a) = SubSeq(y, e + 1, a)
          BY <5>1, <5>2, <5>3, SamePart
        <5> QED BY <5>4 DEF x, y
      <4> QED BY <4>4, <4>5, <4>7
    <3> QED BY <3>1, <3>2
  <2> QED BY <1>1, <1>5, <2>1, <2>2, <2>3 DEF OpenOK, FirstFrames
<1>13. ASSUME NEW d \in Conns PROVE RefusedOK(d)'
  BY <1>1, <1>5 DEF IInv, RefusedOK, FirstFrames
<1> QED BY <1>6, <1>7, <1>9, <1>10, <1>11, <1>12, <1>13 DEF IInv

-----------------------------------------------------------------------------
(* The theorems *)

LEMMA StepHolds ==
  ASSUME IInv, [Next]_vars
  PROVE  IInv'
<1>1. CASE Connect
  BY <1>1, ConnectHolds
<1>2. ASSUME NEW c \in Conns, NEW size \in 1..Cap, Send(c, size) PROVE IInv'
  BY <1>2, SendHolds
<1>3. ASSUME NEW c \in Conns, NEW u \in 1..Len(wire[c]), FedOnce(c, u) PROVE IInv'
  <2>1. u \in Nat
    BY IInvTypes, WireLen
  <2> QED BY <1>3, <2>1, FedOnceHolds
<1>4. ASSUME NEW c \in Conns, NEW u \in 1..Len(wire[c]), FedTwice(c, u) PROVE IInv'
  <2>1. u \in Nat
    BY IInvTypes, WireLen
  <2> QED BY <1>4, <2>1, FedTwiceHolds
<1>5. ASSUME NEW c \in Conns, Close(c) PROVE IInv'
  BY <1>5, CloseHolds
<1>6. CASE UNCHANGED vars
  <2>1. UNCHANGED <<sizes, wire>> /\ ArrivedOK /\ arrived' = arrived
    BY <1>6 DEF vars, IInv
  <2>2. /\ WireTyped' /\ (\A d \in Conns : WireOK(d))'
        /\ \A d \in Conns : Complete(d, arrived[d])' = Complete(d, arrived'[d])
        /\ \A d \in Conns : AtFrameEnd(d, arrived[d])' = AtFrameEnd(d, arrived'[d])
        /\ ArrivedIn(arrived)' = ArrivedIn(arrived')
    BY <2>1, StreamKept
  <2>3. TypeOK'
    BY <1>6 DEF vars, IInv, TypeOK
  <2>4. ArrivedOK'
    BY <1>6, <2>1, <2>2 DEF vars, ArrivedOK
  <2>5. Held' /\ HandledOK' /\ Socks'
    BY <1>6, <2>2 DEF vars, IInv, Held, Sorted, Behind, Before, HandledOK, Bounded, CompleteNow, Socks
  <2>6. ASSUME NEW d \in Conns PROVE OpenOK(d)'
    <3>1. Piece(d)' = Piece(d)
      BY <1>6, <2>2 DEF vars, Piece
    <3> QED BY <1>6, <2>2, <3>1 DEF vars, IInv, OpenOK, FirstFrames
  <2>7. ASSUME NEW d \in Conns PROVE RefusedOK(d)'
    BY <1>6 DEF vars, IInv, RefusedOK, FirstFrames
  <2> QED BY <2>3, <2>4, <2>5, <2>6, <2>7 DEF IInv
<1> QED BY <1>1, <1>2, <1>3, <1>4, <1>5, <1>6 DEF Next

\* The inductive invariant: units arrive in order, the decoder holds the piece of the frame
\* that is arriving on its connection, or, when fouled, units in the order of their frames
\* that are behind what was handled (framing.ts push()).
THEOREM IInvHolds == Spec => []IInv
<1>1. Init => IInv
  BY InitHolds
<1>2. IInv /\ [Next]_vars => IInv'
  BY StepHolds
<1> QED BY <1>1, <1>2, PTL DEF Spec

\* The variables keep their types: the state of the decoders and of the streams.
THEOREM FramingTyped == Spec => []TypeOK
<1>1. IInv => TypeOK
  BY DEF IInv
<1> QED BY <1>1, IInvHolds, PTL

\* On an open socket the frames that have arrived whole are the frames that were handled,
\* however the stream was cut into chunks (framing.ts push()).
THEOREM EveryCutIsHandled == Spec => []WholeFramesAreHandled
<1>1. IInv => WholeFramesAreHandled
  BY DEF IInv, OpenOK, FirstFrames, WholeFramesAreHandled
<1> QED BY <1>1, IInvHolds, PTL

\* No decoder, fouled or not, makes up a frame, hands one over twice or, when one handler
\* feeds it, hands one over after a later one (framing.ts push(), watch-client.mjs onData).
THEOREM NothingIsMadeUp == Spec => []OnlyWhatWasSent
<1>1. IInv => OnlyWhatWasSent
  <2> SUFFICES ASSUME IInv, NEW c \in Conns, NEW i \in 1..Len(handled[c]), NEW j \in 1..Len(handled[c])
               PROVE  /\ handled[c][i] <= Complete(c, arrived[c])
                      /\ i < j => /\ handled[c][i] # handled[c][j]
                                  /\ ~(reader = "twice" /\ fouled) => handled[c][i] < handled[c][j]
    BY DEF OnlyWhatWasSent
  <2> QED BY DEF IInv, HandledOK, Bounded, CompleteNow, Distinct, Increasing
<1> QED BY <1>1, IInvHolds, PTL

\* A decoder that is fed with one stream from its beginning refuses nothing but a first frame
\* above the first cap, and everything before it was handled (framing.ts caps).
THEOREM OnlyTheFirstIsRefused == Spec => []RefusesForAReason
<1>1. IInv => RefusesForAReason
  BY DEF IInv, RefusedOK, FirstFrames, RefusesForAReason
<1> QED BY <1>1, IInvHolds, PTL
=============================================================================
