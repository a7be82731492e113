---------------------------- MODULE ClientProofs ----------------------------
(***************************************************************************)
(* Theorems about ClientStream, for any number of listeners, events, loops *)
(* and lost connections, any size of the ring and any cut into chunks: a   *)
(* listener misses nothing and hears nothing twice, and no second          *)
(* connection is open beside the subscriber's.  The inductive invariant    *)
(* says where the parser of each loop stands in the event whose lines are  *)
(* next on its wire; that a chunk keeps it so is an induction over the     *)
(* lines of the chunk, by a least counterexample (LeastNat).               *)
(***************************************************************************)
EXTENDS ClientStream, SequenceTheorems, NaturalsInduction, WellFoundedInduction, TLAPS

(* ------------------------- the inductive invariant ------------------------- *)

\* A subscriber, when n loops were started.
Subscriber(n) == [listeners : SUBSET Listener, loop : 1..n, timer : BOOLEAN]

\* Line r of the three that bring event n.
FrameLine(r, n) == [f |-> <<"id", "data", "end">>[r + 1], n |-> n]

\* The parser when it has read r lines of event n, and the events out before it.
ParserAt(n, r, out) ==
  [id |-> IF r = 0 THEN None ELSE n, data |-> IF r = 2 THEN <<n>> ELSE <<>>, out |-> out]

\* On the wire after line j, when r lines of event n were read: q lines of a ping,
\* and the rest of the events from n to the newest, which is top.
OnWire(wire, j, n, r, q, top) ==
  /\ q > 0 => r = 0
  /\ Len(wire) = j + q + 3 * (top + 1 - n) - r
  /\ \A i \in 1..q : wire[j + i].f = IF q - i = 1 THEN "comment" ELSE "end"
  /\ \A d \in 0..MaxSeq, t \in 0..2 :
       LET i == q + 3 * d + t + 1 - r
       IN i \in (q + 1)..(Len(wire) - j) => wire[j + i] = FrameLine(t, n + d)

\* The events from a to before b, as the parser puts them out.
Parsed(a, b) == [i \in 1..(b - a) |-> [id |-> a + i - 1, data |-> <<a + i - 1>>]]

Parser == [id : Id \cup {None}, data : Seq(Id), out : Seq([id : Id, data : Seq(Id)])]
Call == [id : Id, ok : BOOLEAN]

Open == {"fetch", "read", "sleep"}

\* Loop k goes on only if it is the subscriber's; what it has read of the stream
\* and what is on the wire fit together, and follow the last id it knows.
LoopFits(x, k, s, top) ==
  /\ x.at \in Open /\ ~x.aborted => s # None /\ s.loop = k
  /\ x.lastId # None => x.lastId <= top
  /\ x.at = "read" =>
       \E n \in Nat \ {0}, r \in 0..2, q \in 0..2 :
         /\ x.lastId # None => n = x.lastId + 1
         /\ x.st = ParserAt(n, r, <<>>)
         /\ OnWire(x.wire, 0, n, r, q, top)

\* The events after a up to b, whole.
Whole(a, b) == [i \in 1..(b - a) |-> [id |-> a + i, ok |-> TRUE]]

\* The calls g of a listener that subscribed at s, when the last event is last.
Heard(g, s, last) ==
  /\ last = None => s = None /\ g = <<>>
  /\ last # None =>
       \E first \in 0..last :
         /\ s # None => first = s
         /\ s = None => first < last
         /\ g = Whole(first, last)

TypeShape ==
  /\ seq \in 0..MaxSeq /\ loop \in Seq(Loop) /\ lastEventId \in Id \cup {None}
  /\ sub \in Subscriber(Len(loop)) \cup {None}
  /\ got \in [Listener -> Seq(Call)]
  /\ since \in [Listener -> Id \cup {None}] /\ told \subseteq Listener

LoopShape == \A k \in Loops : LoopFits(loop[k], k, sub, seq)

LastShape ==
  /\ sub # None => loop[sub.loop].lastId = lastEventId
  /\ lastEventId # None => lastEventId <= seq

GotShape == \A l \in Listeners : Heard(got[l], since[l], lastEventId)

IInv == TypeShape /\ LoopShape /\ LastShape /\ GotShape

(* --------------------------- the parser and the wire ------------------------ *)

\* A set of numbers that is not empty has a least element.
LEMMA LeastNat ==
  ASSUME NEW S \in SUBSET Nat, S # {}
  PROVE  \E n \in S : \A m \in S : n <= m
<1>1. PICK n \in S : \A m \in S : ~ (<<m, n>> \in OpToRel(<, Nat))
  BY NatLessThanWellFounded, WFMin
<1>2. \A m \in S : ~ (m < n)
  BY <1>1 DEF OpToRel
<1> QED
  BY <1>2

\* f is what feedSSE() computes for the first n lines of the chunk.
FeedsUpTo(st, chunk, n, f) ==
  f = [m \in 0..n |-> IF m = 0 THEN [st EXCEPT !.out = <<>>] ELSE FeedLine(f[m - 1], chunk[m])]

\* The recursion of feedSSE() over the lines of a chunk has a solution.
LEMMA FeedExists ==
  ASSUME NEW st, NEW chunk, NEW n \in Nat
  PROVE  \E h : FeedsUpTo(st, chunk, n, h)
<1> DEFINE Bad == {i \in Nat : ~ \E h : FeedsUpTo(st, chunk, i, h)}
<1> SUFFICES ASSUME Bad # {} PROVE FALSE
  OBVIOUS
<1>1. PICK i \in Bad : \A j \in Bad : i <= j
  BY LeastNat
<1>2. CASE i = 0
  <2> DEFINE h == [m \in 0..0 |-> [st EXCEPT !.out = <<>>]]
  <2>1. FeedsUpTo(st, chunk, 0, h)
    BY DEF FeedsUpTo
  <2> QED
    BY <1>1, <1>2, <2>1
<1>3. CASE i # 0
  <2>1. i - 1 \in Nat /\ i - 1 \notin Bad
    BY <1>1, <1>3
  <2>2. PICK h : FeedsUpTo(st, chunk, i - 1, h)
    BY <2>1
  <2> DEFINE last == FeedLine(h[i - 1], chunk[i])
             g == [m \in 0..i |-> IF m = i THEN last ELSE h[m]]
  <2>3. FeedsUpTo(st, chunk, i, g)
    <3>1. ASSUME NEW m \in 0..i
          PROVE  g[m] = IF m = 0 THEN [st EXCEPT !.out = <<>>] ELSE FeedLine(g[m - 1], chunk[m])
      <4>1. CASE m = i
        <5>1. g[m] = last /\ i - 1 \in 0..i /\ i - 1 # i /\ g[i - 1] = h[i - 1]
          BY <4>1, <2>1
        <5> QED
          BY <5>1, <4>1, <1>3
      <4>2. CASE m = 0
        <5>1. g[0] = h[0] /\ 0 \in 0..(i - 1)
          BY <4>2, <1>3, <2>1
        <5>2. h[0] = [st EXCEPT !.out = <<>>]
          BY <5>1, <2>2 DEF FeedsUpTo
        <5> QED
          BY <5>1, <5>2, <4>2
      <4>3. CASE m # i /\ m # 0
        <5>1. m \in 0..(i - 1) /\ m - 1 \in 0..i /\ m - 1 # i
          BY <4>3
        <5>2. g[m] = h[m] /\ g[m - 1] = h[m - 1]
          BY <5>1, <4>3
        <5>3. h[m] = IF m = 0 THEN [st EXCEPT !.out = <<>>] ELSE FeedLine(h[m - 1], chunk[m])
          BY <5>1, <2>2 DEF FeedsUpTo
        <5> QED
          BY <5>2, <5>3
      <4> QED
        BY <4>1, <4>2, <4>3
    <3>2. g = [m \in 0..i |-> g[m]]
      OBVIOUS
    <3> HIDE DEF last, g
    <3> QED
      BY <3>1, <3>2 DEF FeedsUpTo
  <2> QED
    BY <1>1, <2>3
<1> QED
  BY <1>2, <1>3

\* Line t + 1 of event a + d, counted from the first line.
LEMMA FramesAre ==
  ASSUME NEW a \in Nat, NEW b \in Nat, a <= b + 1
  PROVE  /\ Len(Frames(a, b)) = 3 * (b - a + 1)
         /\ \A d \in Nat, t \in 0..2 : 3 * d + t + 1 \in 1..Len(Frames(a, b)) =>
              Frames(a, b)[3 * d + t + 1] = FrameLine(t, a + d)
<1>1. 3 * (b - a + 1) \in Nat
  OBVIOUS
<1>2. Len(Frames(a, b)) = 3 * (b - a + 1) /\ DOMAIN Frames(a, b) = 1..(3 * (b - a + 1))
  BY <1>1 DEF Frames
<1>3. ASSUME NEW d \in Nat, NEW t \in 0..2, 3 * d + t + 1 \in 1..Len(Frames(a, b))
      PROVE  Frames(a, b)[3 * d + t + 1] = FrameLine(t, a + d)
  <2>1. (3 * d + t) % 3 = t /\ (3 * d + t) \div 3 = d
    OBVIOUS
  <2>2. PICK i \in Nat : i = 3 * d + t + 1
    OBVIOUS
  <2>3. i \in 1..(3 * (b - a + 1)) /\ i - 1 = 3 * d + t
    BY <1>2, <1>3, <2>2
  <2>4. Frames(a, b)[i] = [f |-> <<"id", "data", "end">>[((i - 1) % 3) + 1], n |-> a + ((i - 1) \div 3)]
    BY <2>3 DEF Frames
  <2> QED
    BY <2>1, <2>2, <2>3, <2>4 DEF FrameLine
<1> QED
  BY <1>2, <1>3

\* Its lines are lines.
LEMMA FramesAreLines ==
  ASSUME NEW a \in 1..(MaxSeq + 1), NEW b \in 0..MaxSeq, MaxSeq \in Nat, a <= b + 1
  PROVE  Frames(a, b) \in Seq(Line)
<1>1. 3 * (b - a + 1) \in Nat
  OBVIOUS
<1>2. ASSUME NEW i \in 1..(3 * (b - a + 1))
      PROVE  [f |-> <<"id", "data", "end">>[((i - 1) % 3) + 1], n |-> a + ((i - 1) \div 3)] \in Line
  <2>1. (i - 1) % 3 \in 0..2 /\ (i - 1) \div 3 \in Int /\ i - 1 = 3 * ((i - 1) \div 3) + ((i - 1) % 3)
    OBVIOUS
  <2>2. a + ((i - 1) \div 3) \in Id
    BY <2>1 DEF Id
  <2>3. <<"id", "data", "end">>[((i - 1) % 3) + 1] \in {"id", "data", "end", "comment"}
    <3>1. PICK t \in 0..2 : t = (i - 1) % 3
      BY <2>1
    <3>2. t = 0 \/ t = 1 \/ t = 2
      OBVIOUS
    <3> QED
      BY <3>1, <3>2
  <2> QED
    BY <2>2, <2>3 DEF Line
<1> QED
  BY <1>1, <1>2 DEF Frames

\* One more event is out.
LEMMA ParsedMore ==
  ASSUME NEW a \in Nat, NEW b \in Nat, a <= b
  PROVE  /\ Parsed(a, a) = <<>>
         /\ Append(Parsed(a, b), [id |-> b, data |-> <<b>>]) = Parsed(a, b + 1)
         /\ Parsed(a, b) \in Seq([id : Nat, data : Seq(Nat)])
<1>1. Parsed(a, a) = <<>>
  BY DEF Parsed
<1>2. PICK E : E = [id : Nat, data : Seq(Nat)]
  OBVIOUS
<1>3. \A x \in Nat : [id |-> x, data |-> <<x>>] \in E
  BY <1>2
<1>4. b - a \in Nat /\ b + 1 - a \in Nat
  OBVIOUS
<1>5. ASSUME NEW c \in Nat, a <= c
      PROVE  /\ Parsed(a, c) \in Seq(E) /\ Len(Parsed(a, c)) = c - a
             /\ \A i \in 1..(c - a) : Parsed(a, c)[i] = [id |-> a + i - 1, data |-> <<a + i - 1>>]
  <2>1. c - a \in Nat /\ \A i \in 1..(c - a) : a + i - 1 \in Nat
    BY <1>5
  <2>2. \A i \in 1..(c - a) : [id |-> a + i - 1, data |-> <<a + i - 1>>] \in E
    BY <1>3, <2>1
  <2>3. Parsed(a, c) \in Seq(E)
    BY <2>1, <2>2 DEF Parsed
  <2> QED
    BY <2>1, <2>3 DEF Parsed
<1>6. PICK p \in Seq(E) : p = Parsed(a, b)
  BY <1>5
<1>7. PICK t \in Seq(E) : t = Parsed(a, b + 1)
  BY <1>5
<1>8. PICK e \in E : e = [id |-> b, data |-> <<b>>]
  BY <1>3
<1>9. /\ Len(p) = b - a /\ \A i \in 1..(b - a) : p[i] = [id |-> a + i - 1, data |-> <<a + i - 1>>]
      /\ Len(t) = b + 1 - a
      /\ \A i \in 1..(b + 1 - a) : t[i] = [id |-> a + i - 1, data |-> <<a + i - 1>>]
  <2>1. b + 1 \in Nat /\ a <= b + 1
    OBVIOUS
  <2>2. PICK c \in Nat : c = b + 1
    OBVIOUS
  <2>4. /\ t = Parsed(a, c) /\ Len(t) = c - a
        /\ \A i \in 1..(c - a) : t[i] = [id |-> a + i - 1, data |-> <<a + i - 1>>]
    <3>1. a <= c /\ t = Parsed(a, c)
      BY <1>7, <2>1, <2>2
    <3> QED
      BY <1>5, <3>1, Zenon
  <2>3. Len(p) = b - a /\ \A i \in 1..(b - a) : p[i] = [id |-> a + i - 1, data |-> <<a + i - 1>>]
    BY <1>5, <1>6, Zenon
  <2> QED
    BY <2>2, <2>3, <2>4
<1>10. /\ Append(p, e) \in Seq(E) /\ Len(Append(p, e)) = Len(p) + 1
       /\ Append(p, e)[Len(p) + 1] = e /\ \A i \in 1..Len(p) : Append(p, e)[i] = p[i]
  BY AppendProperties, <1>6, <1>8
<1>11. PICK s \in Seq(E) : s = Append(p, e)
  BY <1>10
<1>12. /\ Len(s) = b + 1 - a /\ s[b + 1 - a] = e /\ \A i \in 1..(b - a) : s[i] = p[i]
  BY <1>4, <1>9, <1>10, <1>11
<1>13. \A i \in 1..(b + 1 - a) : s[i] = t[i]
  <2>1. t[b + 1 - a] = e
    <3>1. b + 1 - a \in 1..(b + 1 - a) /\ a + (b + 1 - a) - 1 = b
      BY <1>4
    <3> QED
      BY <1>8, <1>9, <3>1
  <2>2. \A i \in 1..(b - a) : s[i] = t[i]
    <3>1. \A i \in 1..(b - a) : i \in 1..(b + 1 - a)
      BY <1>4
    <3> QED
      BY <1>9, <1>12, <3>1, Zenon
  <2>3. \A i \in 1..(b + 1 - a) : i = b + 1 - a \/ i \in 1..(b - a)
    BY <1>4
  <2> QED
    BY <1>12, <2>1, <2>2, <2>3
<1>14. s = t
  BY <1>9, <1>11, <1>7, <1>12, <1>13, SeqEqual
<1> QED
  BY <1>1, <1>2, <1>6, <1>7, <1>8, <1>11, <1>14

\* After one more line of the wire the parser is still at some event's line.
Fed(a, n, r, wire, j, top) ==
  \E n2 \in Nat, r2 \in 0..2, q2 \in 0..2 :
    /\ n2 >= n
    /\ FeedLine(ParserAt(n, r, Parsed(a, n)), wire[j + 1]) = ParserAt(n2, r2, Parsed(a, n2))
    /\ OnWire(wire, j + 1, n2, r2, q2, top)

\* What the next line of the wire does to the parser.
LEMMA NextLine ==
  ASSUME NEW a \in Nat, NEW n \in Nat, a <= n, NEW r \in 0..2, NEW q \in 0..2,
         NEW j \in Nat, NEW top \in 0..MaxSeq, MaxSeq \in Nat, NEW wire \in Seq(Line),
         OnWire(wire, j, n, r, q, top), j < Len(wire)
  PROVE  Fed(a, n, r, wire, j, top)
<1> SUFFICES
      \E n2 \in Nat, r2 \in 0..2, q2 \in 0..2 :
         /\ n2 >= n
         /\ FeedLine(ParserAt(n, r, Parsed(a, n)), wire[j + 1]) = ParserAt(n2, r2, Parsed(a, n2))
         /\ OnWire(wire, j + 1, n2, r2, q2, top)
  BY Zenon DEF Fed
<1>0. /\ Len(wire) \in Nat /\ Len(wire) = j + q + 3 * (top + 1 - n) - r /\ (q > 0 => r = 0)
      /\ None \notin Nat
  BY NoneAssumption DEF OnWire
<1>1. CASE q > 0
  <2>1. r = 0 /\ q - 1 \in 0..2
    BY <1>0, <1>1
  <2>2. wire[j + 1].f \in {"comment", "end"}
    <3>1. \A i \in 1..q : wire[j + i].f = IF q - i = 1 THEN "comment" ELSE "end"
      BY DEF OnWire
    <3>2. 1 \in 1..q
      BY <1>1
    <3>3. wire[j + 1].f = IF q - 1 = 1 THEN "comment" ELSE "end"
      BY <3>1, <3>2
    <3> QED
      BY <3>3
  <2>3. FeedLine(ParserAt(n, r, Parsed(a, n)), wire[j + 1]) = ParserAt(n, r, Parsed(a, n))
    BY <2>1, <2>2 DEF FeedLine, ParserAt
  <2>4. OnWire(wire, j + 1, n, 0, q - 1, top)
    <3>1. Len(wire) = j + 1 + (q - 1) + 3 * (top + 1 - n) - 0
      BY <1>0, <2>1
    <3>2. ASSUME NEW i \in 1..(q - 1)
          PROVE  wire[j + 1 + i].f = IF (q - 1) - i = 1 THEN "comment" ELSE "end"
      <4>1. i + 1 \in 1..q /\ j + 1 + i = j + (i + 1) /\ (q - 1) - i = q - (i + 1)
        OBVIOUS
      <4> QED
        BY <4>1 DEF OnWire
    <3>3. ASSUME NEW d \in 0..MaxSeq, NEW t \in 0..2, NEW i \in Int,
                 i = q - 1 + 3 * d + t + 1 - 0, i \in (q - 1 + 1)..(Len(wire) - (j + 1))
          PROVE  wire[j + 1 + i] = FrameLine(t, n + d)
      <4>1. PICK x \in Int : x = q + 3 * d + t + 1 - r
        BY <2>1
      <4>2. x = i + 1 /\ x \in (q + 1)..(Len(wire) - j)
        BY <4>1, <1>0, <2>1, <3>3
      <4>3. wire[j + x] = FrameLine(t, n + d)
        BY <4>1, <4>2 DEF OnWire
      <4>4. j + x = j + 1 + i
        BY <4>2
      <4> QED
        BY <4>3, <4>4
    <3> QED
      BY <3>1, <3>2, <3>3, <2>1 DEF OnWire
  <2> QED
    BY <2>1, <2>3, <2>4
<1>2. CASE q = 0
  <2>1. n + 1 <= top + 1
    BY <1>0, <1>2
  <2>2. wire[j + 1] = FrameLine(r, n)
    <3>1. PICK x \in Int : x = q + 3 * 0 + r + 1 - r
      BY <1>2
    <3>2. x = 1 /\ x \in (q + 1)..(Len(wire) - j)
      BY <3>1, <1>0, <1>2
    <3>3. wire[j + x] = FrameLine(r, n + 0)
      BY <3>1, <3>2 DEF OnWire
    <3> QED
      BY <3>2, <3>3
  <2>3. CASE r < 2
    <3>1. r = 0 \/ r = 1
      BY <2>3
    <3>2. FeedLine(ParserAt(n, r, Parsed(a, n)), wire[j + 1]) = ParserAt(n, r + 1, Parsed(a, n))
      <4>1. CASE r = 0
        BY <4>1, <2>2 DEF FeedLine, ParserAt, FrameLine
      <4>2. CASE r = 1
        <5>1. Append(<<>>, n) = <<n>>
          OBVIOUS
        <5> QED
          BY <4>2, <5>1, <2>2 DEF FeedLine, ParserAt, FrameLine
      <4> QED
        BY <3>1, <4>1, <4>2
    <3>3. OnWire(wire, j + 1, n, r + 1, 0, top)
      <4>1. Len(wire) = j + 1 + 0 + 3 * (top + 1 - n) - (r + 1)
        BY <1>0, <1>2
      <4>2. ASSUME NEW d \in 0..MaxSeq, NEW t \in 0..2, NEW i \in Int,
                   i = 0 + 3 * d + t + 1 - (r + 1), i \in (0 + 1)..(Len(wire) - (j + 1))
            PROVE  wire[j + 1 + i] = FrameLine(t, n + d)
        <5>1. PICK x \in Int : x = q + 3 * d + t + 1 - r
          BY <1>2
        <5>2. x = i + 1 /\ x \in (q + 1)..(Len(wire) - j)
          BY <5>1, <1>0, <1>2, <4>2
        <5>3. wire[j + x] = FrameLine(t, n + d)
          BY <5>1, <5>2 DEF OnWire
        <5>4. j + x = j + 1 + i
          BY <5>2
        <5> QED
          BY <5>3, <5>4
      <4> QED
        BY <4>1, <4>2 DEF OnWire
    <3> QED
      BY <3>1, <3>2, <3>3
  <2>4. CASE r = 2
    <3>1. Append(Parsed(a, n), [id |-> n, data |-> <<n>>]) = Parsed(a, n + 1)
      BY ParsedMore
    <3>2. FeedLine(ParserAt(n, r, Parsed(a, n)), wire[j + 1]) = ParserAt(n + 1, 0, Parsed(a, n + 1))
      <4>1. wire[j + 1].f = "end"
        BY <2>2, <2>4 DEF FrameLine
      <4>2. FeedLine(ParserAt(n, 2, Parsed(a, n)), wire[j + 1])
              = [newSSEParserState EXCEPT !.out = Append(Parsed(a, n), [id |-> n, data |-> <<n>>])]
        BY <4>1, <1>0 DEF FeedLine, ParserAt
      <4>3. PICK o : o = Append(Parsed(a, n), [id |-> n, data |-> <<n>>])
        OBVIOUS
      <4>4. [newSSEParserState EXCEPT !.out = o] = ParserAt(n + 1, 0, o)
        BY DEF newSSEParserState, ParserAt
      <4> QED
        BY <2>4, <4>2, <4>3, <4>4, <3>1
    <3>3. OnWire(wire, j + 1, n + 1, 0, 0, top)
      <4>1. Len(wire) = j + 1 + 0 + 3 * (top + 1 - (n + 1)) - 0
        BY <1>0, <1>2, <2>4
      <4>2. ASSUME NEW d \in 0..MaxSeq, NEW t \in 0..2, NEW i \in Int,
                   i = 0 + 3 * d + t + 1 - 0, i \in (0 + 1)..(Len(wire) - (j + 1))
            PROVE  wire[j + 1 + i] = FrameLine(t, (n + 1) + d)
        <5>1. d + 1 \in 0..MaxSeq
          BY <4>1, <4>2
        <5>2. PICK x \in Int : x = q + 3 * (d + 1) + t + 1 - r
          BY <1>2
        <5>3. x = i + 1 /\ x \in (q + 1)..(Len(wire) - j)
          BY <5>2, <1>0, <1>2, <2>4, <4>2
        <5>4. wire[j + x] = FrameLine(t, n + (d + 1))
          BY <5>1, <5>2, <5>3 DEF OnWire
        <5>5. j + x = j + 1 + i /\ n + (d + 1) = (n + 1) + d
          BY <5>3
        <5> QED
          BY <5>4, <5>5
      <4> QED
        BY <4>1, <4>2 DEF OnWire
    <3> QED
      BY <3>2, <3>3
  <2> QED
    BY <2>3, <2>4
<1> QED
  BY <1>1, <1>2

\* A chunk of m lines, cut anywhere: the events that end in it are out, whole and
\* in order, and the parser stands where the rest of the wire goes on.
LEMMA FeedIs ==
  ASSUME NEW n \in Nat, NEW r \in 0..2, NEW q \in 0..2, NEW top \in 0..MaxSeq, MaxSeq \in Nat,
         NEW wire \in Seq(Line), OnWire(wire, 0, n, r, q, top), NEW m \in 1..Len(wire)
  PROVE  \E n2 \in Nat, r2 \in 0..2, q2 \in 0..2 :
           /\ n2 >= n
           /\ feedSSE(ParserAt(n, r, <<>>), SubSeq(wire, 1, m)) = ParserAt(n2, r2, Parsed(n, n2))
           /\ OnWire(wire, m, n2, r2, q2, top)
<1>1. PICK chunk : chunk = SubSeq(wire, 1, m)
  OBVIOUS
<1>2. /\ chunk \in Seq(Line) /\ Len(chunk) = m /\ m \in Nat /\ Len(wire) \in Nat
      /\ \A i \in 1..m : chunk[i] = wire[i]
  BY <1>1
<1>3. PICK st : st = ParserAt(n, r, <<>>)
  OBVIOUS
<1> DEFINE H == CHOOSE h : FeedsUpTo(st, chunk, m, h)
<1>4. FeedsUpTo(st, chunk, m, H)
  BY FeedExists, <1>2, Zenon
<1>5. feedSSE(st, chunk) = H[m]
  BY <1>2 DEF feedSSE, FeedsUpTo
<1> HIDE DEF H
<1>6. \A i \in 0..m :
        H[i] = IF i = 0 THEN [st EXCEPT !.out = <<>>] ELSE FeedLine(H[i - 1], chunk[i])
  BY <1>4 DEF FeedsUpTo
<1> DEFINE Good(i) == \E n2 \in Nat, r2 \in 0..2, q2 \in 0..2 :
                         /\ n2 >= n
                         /\ H[i] = ParserAt(n2, r2, Parsed(n, n2))
                         /\ OnWire(wire, i, n2, r2, q2, top)
           Bad == {i \in 0..m : ~Good(i)}
<1>7. SUFFICES ASSUME Bad # {} PROVE FALSE
  BY <1>1, <1>2, <1>3, <1>5
<1>8. PICK i \in Bad : \A j \in Bad : i <= j
  <2>1. Bad \in SUBSET Nat
    BY <1>2
  <2> QED
    BY LeastNat, <1>7, <2>1, Zenon
<1>9. CASE i = 0
  <2>1. H[0] = ParserAt(n, r, Parsed(n, n))
    <3>1. H[0] = [st EXCEPT !.out = <<>>]
      BY <1>2, <1>6, SMTT(20)
    <3>2. [st EXCEPT !.out = <<>>] = ParserAt(n, r, <<>>)
      BY <1>3 DEF ParserAt
    <3>3. Parsed(n, n) = <<>>
      BY ParsedMore, n <= n
    <3> QED
      BY <3>1, <3>2, <3>3
  <2>2. Good(0)
    BY <2>1
  <2> QED
    BY <1>8, <1>9, <2>2
<1>10. CASE i # 0
  <2>1. i - 1 \in 0..m /\ i - 1 \notin Bad /\ i \in 1..m /\ i - 1 < Len(wire)
    <3>1. i \in 0..m /\ i \in Nat /\ i > 0 /\ i - 1 \in Nat /\ ~(i <= i - 1)
      BY <1>10, <1>8
    <3>2. i - 1 \in 0..m /\ i \in 1..m /\ i - 1 < Len(wire)
      BY <3>1, <1>2
    <3> QED
      BY <3>1, <3>2, <1>8, Zenon
  <2>2. PICK n1 \in Nat, r1 \in 0..2, q1 \in 0..2 :
          /\ n1 >= n
          /\ H[i - 1] = ParserAt(n1, r1, Parsed(n, n1))
          /\ OnWire(wire, i - 1, n1, r1, q1, top)
    BY <2>1
  <2>3. PICK j \in Nat : j = i - 1
    BY <2>1
  <2>4. PICK n2 \in Nat, r2 \in 0..2, q2 \in 0..2 :
           /\ n2 >= n1
           /\ FeedLine(ParserAt(n1, r1, Parsed(n, n1)), wire[j + 1]) = ParserAt(n2, r2, Parsed(n, n2))
           /\ OnWire(wire, j + 1, n2, r2, q2, top)
    <3>1. OnWire(wire, j, n1, r1, q1, top) /\ n <= n1 /\ j < Len(wire)
      BY <2>1, <2>2, <2>3
    <3>2. n1 \in Nat /\ r1 \in 0..2 /\ q1 \in 0..2 /\ j \in Nat
      BY <2>2, <2>3
    <3>3. Fed(n, n1, r1, wire, j, top)
      BY <3>1, <3>2, NextLine, Zenon
    <3> QED
      BY <3>3, Zenon DEF Fed
  <2>5. j + 1 = i /\ chunk[i] = wire[i] /\ H[i] = FeedLine(H[i - 1], chunk[i])
    BY <1>2, <1>6, <1>10, <2>1, <2>3, SMTT(20)
  <2>6. H[i] = ParserAt(n2, r2, Parsed(n, n2)) /\ OnWire(wire, i, n2, r2, q2, top)
    BY <2>2, <2>4, <2>5
  <2>7. n2 >= n
    BY <2>2, <2>4
  <2>8. Good(i)
    BY <2>4, <2>6, <2>7
  <2> QED
    BY <1>8, <2>8
<1> QED
  BY <1>9, <1>10

(* ------------------------------ the steps of a loop ------------------------- *)

\* One loop of the sequence is put.
LEMMA PutLoop ==
  ASSUME TypeShape, NEW k \in Loops, NEW y \in Loop, loop' = [loop EXCEPT ![k] = y]
  PROVE  /\ loop' \in Seq(Loop) /\ Len(loop') = Len(loop) /\ Loops' = Loops
         /\ loop'[k] = y /\ \A j \in Loops : j # k => loop'[j] = loop[j]
  BY DEF TypeShape, Loops

\* What is known of one loop.
LEMMA OneLoop ==
  ASSUME IInv, NEW k \in Loops
  PROVE  loop[k] \in Loop /\ LoopFits(loop[k], k, sub, seq) /\ k \in 1..Len(loop) /\ Len(loop) \in Nat
  BY DEF IInv, TypeShape, LoopShape, Loops

\* A step of one loop that the client and the listeners have no part in.
LEMMA LoopMoves ==
  ASSUME IInv, NEW k \in Loops, NEW y \in Loop, loop' = [loop EXCEPT ![k] = y],
         y.lastId = loop[k].lastId, LoopFits(y, k, sub, seq), told' \subseteq Listener,
         UNCHANGED <<seq, sub, lastEventId, got, since>>
  PROVE  IInv'
<1>1. /\ loop' \in Seq(Loop) /\ Len(loop') = Len(loop) /\ Loops' = Loops
      /\ loop'[k] = y /\ \A j \in Loops : j # k => loop'[j] = loop[j]
  BY PutLoop DEF IInv
<1>2. TypeShape'
  BY <1>1 DEF IInv, TypeShape
<1>3. LoopShape'
  BY <1>1 DEF IInv, LoopShape
<1>4. LastShape'
  <2>1. ASSUME sub # None PROVE loop'[sub.loop].lastId = lastEventId
    <3>1. sub.loop \in Loops
      BY <2>1 DEF IInv, TypeShape, Subscriber, Loops
    <3>2. loop[sub.loop].lastId = lastEventId
      BY <2>1 DEF IInv, LastShape
    <3> QED
      BY <1>1, <3>1, <3>2
  <2> QED
    BY <2>1 DEF IInv, LastShape
<1>5. GotShape'
  BY DEF IInv, GotShape, Listeners
<1> QED
  BY <1>2, <1>3, <1>4, <1>5 DEF IInv

\* A loop of which only the place changes, to one that reads nothing.
LEMMA LoopStops ==
  ASSUME IInv, NEW k \in Loops, NEW at \in {"fetch", "sleep", "ended", "failed"},
         NEW wire \in Seq(Line),
         at \in Open => loop[k].at \in Open
  PROVE  \E y \in Loop :
           /\ y = [loop[k] EXCEPT !.at = at, !.wire = wire]
           /\ y.lastId = loop[k].lastId /\ LoopFits(y, k, sub, seq)
<1>1. loop[k] \in Loop /\ LoopFits(loop[k], k, sub, seq)
  BY OneLoop
<1>2. PICK x \in Loop : x = loop[k]
  BY <1>1
<1>3. PICK y : y = [x EXCEPT !.at = at, !.wire = wire]
  OBVIOUS
<1>4. y \in Loop /\ y.lastId = x.lastId /\ y.at = at /\ y.aborted = x.aborted
  <2>1. PICK S : S = Seq(Line)
    OBVIOUS
  <2>2. PICK P : P = [id : Id \cup {None}, data : Seq(Id), out : Seq([id : Id, data : Seq(Id)])]
    OBVIOUS
  <2> QED
    BY <1>2, <1>3, <2>1, <2>2 DEF Loop
<1>5. LoopFits(y, k, sub, seq)
  BY <1>1, <1>2, <1>4 DEF LoopFits
<1> QED
  BY <1>2, <1>3, <1>4, <1>5

\* Each step keeps the invariant: a request that is refused,
LEMMA RefusedInv ==
  ASSUME IInv, NEW k \in Loops, Refused(k)
  PROVE  IInv'
<1>1. PICK y \in Loop : /\ y = [loop[k] EXCEPT !.at = "failed", !.wire = loop[k].wire]
                        /\ y.lastId = loop[k].lastId /\ LoopFits(y, k, sub, seq)
  <2>1. loop[k] \in Loop
    BY OneLoop
  <2>2. loop[k].wire \in Seq(Line)
    BY <2>1 DEF Loop
  <2> QED
    BY LoopStops, <2>2 DEF Open
<1>2. loop' = [loop EXCEPT ![k] = y]
  <2>1. loop[k] \in Loop
    BY OneLoop
  <2>2. y = [loop[k] EXCEPT !.at = "failed"]
    BY <1>1, <2>1 DEF Loop
  <2> QED
    BY <2>2 DEF Refused, Go
<1>3. told' \subseteq Listener
  BY DEF Refused, Served, IInv, TypeShape, Subscriber
<1> QED
  BY <1>1, <1>2, <1>3, LoopMoves DEF Refused

\* a connection that is lost,
LEMMA LostInv ==
  ASSUME IInv, NEW k \in Loops, Lost(k)
  PROVE  IInv'
<1>1. PICK y \in Loop : /\ y = [loop[k] EXCEPT !.at = "sleep", !.wire = <<>>]
                        /\ y.lastId = loop[k].lastId /\ LoopFits(y, k, sub, seq)
  <2>1. loop[k].at \in Open
    BY DEF Lost, Open
  <2>2. <<>> \in Seq(Line)
    OBVIOUS
  <2> QED
    BY LoopStops, <2>1, <2>2
<1>2. loop' = [loop EXCEPT ![k] = y]
  BY <1>1 DEF Lost
<1>3. told' \subseteq Listener
  BY DEF Lost, IInv, TypeShape
<1> QED
  BY <1>1, <1>2, <1>3, LoopMoves DEF Lost

\* the read of an aborted loop that rejects,
LEMMA RejectsInv ==
  ASSUME IInv, NEW k \in Loops, Rejects(k)
  PROVE  IInv'
<1>1. PICK y \in Loop : /\ y = [loop[k] EXCEPT !.at = "ended", !.wire = <<>>]
                        /\ y.lastId = loop[k].lastId /\ LoopFits(y, k, sub, seq)
  <2>2. <<>> \in Seq(Line)
    OBVIOUS
  <2> QED
    BY LoopStops, <2>2 DEF Open
<1>2. loop' = [loop EXCEPT ![k] = y]
  BY <1>1 DEF Rejects
<1>3. told' \subseteq Listener
  BY DEF Rejects, IInv, TypeShape
<1> QED
  BY <1>1, <1>2, <1>3, LoopMoves DEF Rejects

\* the end of a pause,
LEMMA AwakeInv ==
  ASSUME IInv, NEW k \in Loops, Awake(k)
  PROVE  IInv'
<1> DEFINE at == IF loop[k].aborted THEN "ended" ELSE "fetch"
<1>0. loop[k] \in Loop
  BY OneLoop
<1>1. PICK y \in Loop : /\ y = [loop[k] EXCEPT !.at = at, !.wire = loop[k].wire]
                        /\ y.lastId = loop[k].lastId /\ LoopFits(y, k, sub, seq)
  <2>1. at \in {"fetch", "sleep", "ended", "failed"} /\ loop[k].at \in Open
    BY DEF Awake, Open
  <2>2. loop[k].wire \in Seq(Line)
    BY <1>0 DEF Loop
  <2> HIDE DEF at
  <2>3. at \in Open => loop[k].at \in Open
    BY <2>1
  <2> QED
    BY LoopStops, <2>1, <2>2, <2>3, ZenonT(30)
<1>2. loop' = [loop EXCEPT ![k] = y]
  <2>2. y = [loop[k] EXCEPT !.at = at]
    <3> HIDE DEF at
    <3> QED
      BY <1>1, <1>0 DEF Loop
  <2> QED
    BY <2>2 DEF Awake, Go
<1>3. told' \subseteq Listener
  BY DEF Awake, IInv, TypeShape
<1> HIDE DEF at
<1> QED
  BY <1>1, <1>2, <1>3, LoopMoves DEF Awake

\* a keepalive,
LEMMA PingInv ==
  ASSUME IInv, NEW k \in Loops, Ping(k)
  PROVE  IInv'
<1>1. loop[k] \in Loop /\ LoopFits(loop[k], k, sub, seq) /\ seq \in 1..MaxSeq /\ MaxSeq \in Nat
  BY OneLoop, ClientBoundsAssumption DEF Ping, IInv, TypeShape
<1>2. PICK n \in Nat \ {0}, r \in 0..2, q \in 0..2 :
        /\ loop[k].lastId # None => n = loop[k].lastId + 1
        /\ loop[k].st = ParserAt(n, r, <<>>)
        /\ OnWire(loop[k].wire, 0, n, r, q, seq)
  BY <1>1 DEF Ping, LoopFits
<1>3. r = 0 /\ n = seq + 1
  <2>1. 0 = 0 + q + 3 * (seq + 1 - n) - r /\ (q > 0 => r = 0)
    BY <1>1, <1>2 DEF OnWire, Ping
  <2> QED
    BY <2>1, <1>1, <1>2
<1>4. PICK wire \in Seq(Line) : wire = << [f |-> "comment", n |-> 1], [f |-> "end", n |-> 1] >>
  <2>1. 1 \in Id
    BY <1>1 DEF Id
  <2>2. [f |-> "comment", n |-> 1] \in Line /\ [f |-> "end", n |-> 1] \in Line
    BY <2>1 DEF Line
  <2>3. PICK a \in Line, b \in Line : a = [f |-> "comment", n |-> 1] /\ b = [f |-> "end", n |-> 1]
    BY <2>2
  <2>4. <<a, b>> \in Seq(Line)
    OBVIOUS
  <2> QED
    BY <2>3, <2>4
<1>5. OnWire(wire, 0, n, 0, 2, seq)
  <2>1. Len(wire) = 2 /\ wire[1].f = "comment" /\ wire[2].f = "end"
    BY <1>4
  <2>2. \A i \in 1..2 : wire[0 + i].f = IF 2 - i = 1 THEN "comment" ELSE "end"
    <3>1. \A i \in 1..2 : i = 1 \/ i = 2
      OBVIOUS
    <3> QED
      BY <2>1, <3>1
  <2>3. Len(wire) = 0 + 2 + 3 * (seq + 1 - n) - 0
    BY <2>1, <1>1, <1>3
  <2>4. (2 + 1)..(Len(wire) - 0) = {}
    BY <2>1
  <2> QED
    BY <2>2, <2>3, <2>4 DEF OnWire
<1>6. PICK x \in Loop : x = loop[k]
  BY <1>1
<1>7. PICK y : y = [x EXCEPT !.wire = wire]
  OBVIOUS
<1>8. /\ y \in Loop /\ y.lastId = x.lastId /\ y.at = x.at /\ y.aborted = x.aborted
      /\ y.st = x.st /\ y.wire = wire
  <2>1. PICK S : S = Seq(Line)
    OBVIOUS
  <2>2. PICK P : P = [id : Id \cup {None}, data : Seq(Id), out : Seq([id : Id, data : Seq(Id)])]
    OBVIOUS
  <2> QED
    BY <1>4, <1>6, <1>7, <2>1, <2>2 DEF Loop
<1>9. LoopFits(y, k, sub, seq)
  <2>1. OnWire(y.wire, 0, n, r, 2, seq) /\ y.st = ParserAt(n, r, <<>>)
    BY <1>2, <1>3, <1>5, <1>6, <1>8
  <2>2. y.lastId # None => n = y.lastId + 1
    BY <1>2, <1>6, <1>8
  <2>3. 2 \in 0..2
    OBVIOUS
  <2>4. \E n1 \in Nat \ {0}, r1 \in 0..2, q1 \in 0..2 :
          /\ y.lastId # None => n1 = y.lastId + 1
          /\ y.st = ParserAt(n1, r1, <<>>)
          /\ OnWire(y.wire, 0, n1, r1, q1, seq)
    BY <1>2, <2>1, <2>2, <2>3, Zenon
  <2> QED
    BY <1>1, <1>6, <1>8, <2>4 DEF LoopFits
<1>10. loop' = [loop EXCEPT ![k] = y]
  BY <1>4, <1>6, <1>7 DEF Ping
<1>11. told' \subseteq Listener
  BY DEF Ping, IInv, TypeShape
<1> QED
  BY <1>6, <1>8, <1>9, <1>10, <1>11, LoopMoves DEF Ping

\* an answer: the parser is new and the wire starts after the last id,
LEMMA FetchInv ==
  ASSUME IInv, NEW k \in Loops, Fetch(k)
  PROVE  IInv'
<1>1. /\ loop[k] \in Loop /\ LoopFits(loop[k], k, sub, seq) /\ seq \in 0..MaxSeq
      /\ MaxSeq \in Nat /\ Cap \in Nat \ {0} /\ None \notin Nat
  BY OneLoop, ClientBoundsAssumption, NoneAssumption DEF IInv, TypeShape
<1>2. PICK x \in Loop : x = loop[k]
  BY <1>1
<1>3. PICK from : from = IF x.lastId = None THEN Oldest ELSE x.lastId + 1
  OBVIOUS
<1>4. Oldest \in 1..(seq + 1)
  BY <1>1 DEF Oldest
<1>5. from \in 1..(seq + 1) /\ (x.lastId # None => from = x.lastId + 1)
  <2>1. x.lastId # None => x.lastId \in 1..seq
    BY <1>1, <1>2 DEF LoopFits, Loop, Id
  <2> QED
    BY <2>1, <1>3, <1>4, <1>1
<1>6. PICK wire \in Seq(Line) : wire = Frames(from, seq)
  <2>1. from \in 1..(MaxSeq + 1) /\ from <= seq + 1
    BY <1>1, <1>5
  <2> QED
    BY <2>1, <1>1, FramesAreLines
<1>7. OnWire(wire, 0, from, 0, 0, seq)
  <2>1. from \in Nat /\ seq \in Nat /\ from <= seq + 1
    BY <1>1, <1>5
  <2>2. /\ Len(wire) = 3 * (seq - from + 1)
        /\ \A d \in Nat, t \in 0..2 : 3 * d + t + 1 \in 1..Len(wire) =>
             wire[3 * d + t + 1] = FrameLine(t, from + d)
    BY <2>1, <1>6, FramesAre
  <2>3. Len(wire) = 0 + 0 + 3 * (seq + 1 - from) - 0
    BY <2>1, <2>2
  <2>4. ASSUME NEW d \in 0..MaxSeq, NEW t \in 0..2, NEW i \in Int,
               i = 0 + 3 * d + t + 1 - 0, i \in (0 + 1)..(Len(wire) - 0)
        PROVE  wire[0 + i] = FrameLine(t, from + d)
    <3>1. d \in Nat /\ i = 3 * d + t + 1 /\ i \in 1..Len(wire) /\ 0 + i = i
      BY <1>1, <2>1, <2>2, <2>4
    <3>2. wire[3 * d + t + 1] = FrameLine(t, from + d)
      BY <2>2, <3>1
    <3> QED
      BY <3>1, <3>2
  <2> QED
    BY <2>3, <2>4 DEF OnWire
<1>8. PICK y : y = [x EXCEPT !.at = "read", !.st = newSSEParserState, !.wire = wire]
  OBVIOUS
<1>9. /\ y \in Loop /\ y.lastId = x.lastId /\ y.at = "read" /\ y.aborted = x.aborted
      /\ y.st = newSSEParserState /\ y.wire = wire
  <2>1. PICK S : S = Seq(Line)
    OBVIOUS
  <2>2. PICK P : P = [id : Id \cup {None}, data : Seq(Id), out : Seq([id : Id, data : Seq(Id)])]
    OBVIOUS
  <2>3. newSSEParserState \in P
    BY <2>2 DEF newSSEParserState
  <2> QED
    BY <1>2, <1>6, <1>8, <2>1, <2>2, <2>3 DEF Loop
<1>10. LoopFits(y, k, sub, seq)
  <2>1. OnWire(y.wire, 0, from, 0, 0, seq) /\ y.st = ParserAt(from, 0, <<>>)
    BY <1>7, <1>9 DEF newSSEParserState, ParserAt
  <2>2. y.lastId # None => from = y.lastId + 1
    BY <1>5, <1>9
  <2>3. 0 \in 0..2 /\ from \in Nat \ {0}
    BY <1>1, <1>5
  <2>4. \E n1 \in Nat \ {0}, r1 \in 0..2, q1 \in 0..2 :
          /\ y.lastId # None => n1 = y.lastId + 1
          /\ y.st = ParserAt(n1, r1, <<>>)
          /\ OnWire(y.wire, 0, n1, r1, q1, seq)
    BY <2>1, <2>2, <2>3, Zenon
  <2>5. x.at \in Open /\ ~x.aborted
    BY <1>2 DEF Fetch, Open
  <2> QED
    BY <1>1, <1>2, <1>9, <2>4, <2>5 DEF LoopFits
<1>11. loop' = [loop EXCEPT ![k] = y]
  BY <1>2, <1>3, <1>6, <1>8 DEF Fetch
<1>12. told' \subseteq Listener
  BY DEF Fetch, IInv, TypeShape
<1> QED
  BY <1>2, <1>9, <1>10, <1>11, <1>12, LoopMoves DEF Fetch

\* What follows on the wire when event top + 1 is written.
LEMMA WireGrows ==
  ASSUME NEW wire \in Seq(Line), NEW n \in Nat, NEW r \in 0..2, NEW q \in 0..2,
         NEW top \in Nat, top < MaxSeq, MaxSeq \in Nat, OnWire(wire, 0, n, r, q, top)
  PROVE  /\ wire \o Frames(top + 1, top + 1) \in Seq(Line)
         /\ OnWire(wire \o Frames(top + 1, top + 1), 0, n, r, q, top + 1)
<1>1. PICK fr \in Seq(Line) : fr = Frames(top + 1, top + 1)
  <2>1. top + 1 \in 1..(MaxSeq + 1) /\ top + 1 \in 0..MaxSeq /\ top + 1 <= top + 1 + 1
    OBVIOUS
  <2> QED
    BY <2>1, FramesAreLines
<1>2. Len(fr) = 3 /\ \A t \in 0..2 : fr[t + 1] = FrameLine(t, top + 1)
  <2>1. PICK b \in Nat : b = top + 1
    OBVIOUS
  <2>2. /\ Len(fr) = 3 * (b - b + 1)
        /\ \A d \in Nat, t \in 0..2 : 3 * d + t + 1 \in 1..Len(fr) =>
             fr[3 * d + t + 1] = FrameLine(t, b + d)
    <3>1. b <= b + 1 /\ fr = Frames(b, b)
      BY <1>1, <2>1
    <3>2. /\ Len(Frames(b, b)) = 3 * (b - b + 1)
          /\ \A d \in Nat, t \in 0..2 : 3 * d + t + 1 \in 1..Len(Frames(b, b)) =>
               Frames(b, b)[3 * d + t + 1] = FrameLine(t, b + d)
      BY <2>1, <3>1, FramesAre, Zenon
    <3> QED
      BY <3>1, <3>2, Zenon
  <2>3. Len(fr) = 3
    BY <2>2
  <2>4. ASSUME NEW t \in 0..2 PROVE fr[t + 1] = FrameLine(t, b)
    <3>1. 3 * 0 + t + 1 \in 1..Len(fr) /\ 3 * 0 + t + 1 = t + 1 /\ b + 0 = b /\ 0 \in Nat
      BY <2>3
    <3>2. fr[3 * 0 + t + 1] = FrameLine(t, b + 0)
      BY <2>2, <3>1
    <3> QED
      BY <3>1, <3>2
  <2> QED
    BY <2>1, <2>3, <2>4
<1>3. PICK w \in Seq(Line) : w = wire \o fr
  BY <1>1, ConcatProperties
<1>4. /\ Len(wire) \in Nat /\ Len(w) = Len(wire) + 3
      /\ \A i \in 1..Len(wire) : w[i] = wire[i]
      /\ \A i \in 1..3 : w[Len(wire) + i] = fr[i]
  <2>0. Len(wire \o fr) = Len(wire) + Len(fr) /\ Len(wire) \in Nat
    BY <1>1, ConcatProperties
  <2>1. Len(wire) \in Nat /\ Len(w) = Len(wire) + 3 /\ Len(w) = Len(wire) + Len(fr)
    BY <2>0, <1>2, <1>3
  <2>2. ASSUME NEW i \in 1..Len(wire) PROVE w[i] = wire[i]
    BY <1>1, <1>3, <2>1
  <2>3. ASSUME NEW i \in 1..3 PROVE w[Len(wire) + i] = fr[i]
    <3>1. Len(wire) + i \in 1..Len(w) /\ Len(wire) + i > Len(wire) /\ Len(wire) + i - Len(wire) = i
      BY <2>1
    <3> QED
      BY <1>1, <1>2, <1>3, <2>1, <3>1
  <2> QED
    BY <2>1, <2>2, <2>3
<1>5. Len(wire) = 0 + q + 3 * (top + 1 - n) - r /\ (q > 0 => r = 0)
  BY DEF OnWire
<1>6. n <= top + 1 /\ q <= Len(wire)
  <2>1. CASE q > 0
    <3>1. r = 0
      BY <1>5, <2>1
    <3>2. PICK x \in Int, y \in Nat : x = top + 1 - n /\ y = Len(wire)
      BY <1>4
    <3>3. y = q + 3 * x
      BY <1>5, <3>1, <3>2
    <3>4. x >= 0
      BY <3>3
    <3>5. q <= y
      BY <3>3, <3>4
    <3> QED
      BY <3>2, <3>4, <3>5
  <2>2. CASE q = 0
    <3>1. PICK x \in Int : x = top + 1 - n
      OBVIOUS
    <3>2. PICK y \in Nat : y = Len(wire)
      BY <1>4
    <3>3. y = 3 * x - r
      BY <1>5, <2>2, <3>1, <3>2
    <3>4. x >= 0
      BY <3>3
    <3> QED
      BY <2>2, <3>1, <3>2, <3>4
  <2> QED
    BY <2>1, <2>2
<1>7. Len(w) = 0 + q + 3 * ((top + 1) + 1 - n) - r
  BY <1>4, <1>5
<1>8. \A i \in 1..q : w[0 + i].f = IF q - i = 1 THEN "comment" ELSE "end"
  <2>1. ASSUME NEW i \in 1..q PROVE w[0 + i].f = IF q - i = 1 THEN "comment" ELSE "end"
    <3>1. 0 + i = i /\ i \in 1..Len(wire)
      BY <1>4, <1>6
    <3>2. wire[0 + i].f = IF q - i = 1 THEN "comment" ELSE "end"
      BY DEF OnWire
    <3> QED
      BY <1>4, <3>1, <3>2
  <2> QED
    BY <2>1
<1>9. ASSUME NEW d \in 0..MaxSeq, NEW t \in 0..2, NEW i \in Int,
             i = q + 3 * d + t + 1 - r, i \in (q + 1)..(Len(w) - 0)
      PROVE  w[0 + i] = FrameLine(t, n + d)
  <2>1. 0 + i = i
    OBVIOUS
  <2>2. CASE i <= Len(wire)
    <3>1. i \in (q + 1)..(Len(wire) - 0) /\ i \in 1..Len(wire)
      <4>1. Len(wire) \in Nat /\ i >= q + 1
        BY <1>4, <1>9
      <4> QED
        BY <4>1, <2>2
    <3>2. wire[0 + i] = FrameLine(t, n + d)
      BY <1>9, <3>1 DEF OnWire
    <3> QED
      BY <1>4, <2>1, <3>1, <3>2
  <2>3. CASE i > Len(wire)
    <3>0. /\ i = q + 3 * d + t + 1 - r /\ Len(wire) = q + 3 * (top + 1 - n) - r
          /\ i <= Len(wire) + 3
      BY <1>4, <1>5, <1>9
    <3>3. d >= top + 1 - n /\ d <= top + 1 - n
      <4>1. PICK x \in Int : x = top + 1 - n
        OBVIOUS
      <4>2. 3 * d + t + 1 > 3 * x /\ 3 * d + t + 1 <= 3 * x + 3
        BY <2>3, <3>0, <1>4, <4>1
      <4> QED
        BY <4>1, <4>2
    <3>1. d = top + 1 - n /\ i = Len(wire) + (t + 1)
      BY <3>0, <3>3
    <3>2. n + d = top + 1 /\ t + 1 \in 1..3
      BY <3>1
    <3> QED
      BY <1>2, <1>4, <2>1, <3>1, <3>2
  <2> QED
    BY <2>2, <2>3, <1>4
<1>10. OnWire(w, 0, n, r, q, top + 1)
  BY <1>5, <1>7, <1>8, <1>9 DEF OnWire
<1> QED
  BY <1>1, <1>3, <1>10

\* an event that is logged, behind what is on each wire,
LEMMA LogInv ==
  ASSUME IInv, Log
  PROVE  IInv'
<1>1. seq \in Nat /\ seq < MaxSeq /\ MaxSeq \in Nat /\ seq' = seq + 1
  BY ClientBoundsAssumption DEF Log, IInv, TypeShape
<1>2. PICK fr : fr = Frames(seq + 1, seq + 1)
  OBVIOUS
<1>3. loop' = [k \in Loops |-> IF loop[k].at = "read" THEN [loop[k] EXCEPT !.wire = @ \o fr] ELSE loop[k]]
  BY <1>2 DEF Log
<1>4. ASSUME NEW k \in Loops
      PROVE  loop'[k] \in Loop /\ loop'[k].lastId = loop[k].lastId /\ LoopFits(loop'[k], k, sub, seq + 1)
  <2>1. loop[k] \in Loop /\ LoopFits(loop[k], k, sub, seq)
    BY OneLoop
  <2>2. PICK x \in Loop : x = loop[k]
    BY <2>1
  <2>3. x.lastId # None => x.lastId <= seq + 1
    BY <2>1, <2>2, <1>1 DEF LoopFits, Loop, Id
  <2>4. CASE x.at = "read"
    <3>1. PICK n \in Nat \ {0}, r \in 0..2, q \in 0..2 :
            /\ x.lastId # None => n = x.lastId + 1
            /\ x.st = ParserAt(n, r, <<>>)
            /\ OnWire(x.wire, 0, n, r, q, seq)
      BY <2>1, <2>2, <2>4 DEF LoopFits
    <3>2. PICK w : w = x.wire \o fr
      OBVIOUS
    <3>3. w \in Seq(Line) /\ OnWire(w, 0, n, r, q, seq + 1)
      <4>1. x.wire \in Seq(Line)
        BY <2>2 DEF Loop
      <4> QED
        BY <4>1, <3>1, <3>2, <1>1, <1>2, WireGrows
    <3>4. PICK y : y = [x EXCEPT !.wire = w]
      OBVIOUS
    <3>5. /\ y \in Loop /\ y.lastId = x.lastId /\ y.at = x.at /\ y.aborted = x.aborted
          /\ y.st = x.st /\ y.wire = w
      <4>1. PICK S : S = Seq(Line)
        OBVIOUS
      <4>2. PICK P : P = [id : Id \cup {None}, data : Seq(Id), out : Seq([id : Id, data : Seq(Id)])]
        OBVIOUS
      <4> QED
        BY <2>2, <3>3, <3>4, <4>1, <4>2 DEF Loop
    <3>6. LoopFits(y, k, sub, seq + 1)
      <4>1. \E n1 \in Nat \ {0}, r1 \in 0..2, q1 \in 0..2 :
              /\ y.lastId # None => n1 = y.lastId + 1
              /\ y.st = ParserAt(n1, r1, <<>>)
              /\ OnWire(y.wire, 0, n1, r1, q1, seq + 1)
        BY <3>1, <3>3, <3>5, Zenon
      <4> QED
        BY <2>1, <2>2, <2>3, <3>5, <4>1 DEF LoopFits
    <3>7. loop'[k] = y
      BY <1>3, <2>2, <2>4, <3>2, <3>4
    <3> QED
      BY <2>2, <3>5, <3>6, <3>7
  <2>5. CASE x.at # "read"
    <3>1. loop'[k] = x
      BY <1>3, <2>2, <2>5
    <3>2. LoopFits(x, k, sub, seq + 1)
      BY <2>1, <2>2, <2>3, <2>5 DEF LoopFits
    <3> QED
      BY <2>2, <3>1, <3>2
  <2> QED
    BY <2>4, <2>5
<1>5. loop' \in Seq(Loop) /\ Len(loop') = Len(loop) /\ Loops' = Loops
  <2>1. Loops = 1..Len(loop) /\ Len(loop) \in Nat
    BY DEF IInv, TypeShape, Loops
  <2>2. DOMAIN loop' = 1..Len(loop)
    BY <1>3, <2>1
  <2>3. loop' = [k \in 1..Len(loop) |-> loop'[k]]
    BY <1>3, <2>1
  <2>4. loop' \in [1..Len(loop) -> Loop]
    BY <1>4, <2>1, <2>2, <2>3
  <2>5. loop' \in Seq(Loop)
    BY <2>1, <2>4
  <2> QED
    BY <2>1, <2>2, <2>5 DEF Loops
<1>6. TypeShape'
  <2>1. seq' \in 0..MaxSeq /\ told' \subseteq Listener /\ since' = since /\ got' = got
    BY <1>1 DEF Log, IInv, TypeShape
  <2>2. Subscriber(Len(loop))' = Subscriber(Len(loop)) /\ sub' = sub /\ lastEventId' = lastEventId
    BY <1>5 DEF Log, Subscriber
  <2> QED
    BY <1>5, <2>1, <2>2 DEF IInv, TypeShape
<1>7. LoopShape'
  BY <1>1, <1>4, <1>5 DEF Log, LoopShape
<1>8. LastShape'
  <2>1. ASSUME sub # None PROVE loop'[sub.loop].lastId = lastEventId
    <3>1. sub.loop \in Loops
      BY <2>1 DEF IInv, TypeShape, Subscriber, Loops
    <3>2. loop[sub.loop].lastId = lastEventId
      BY <2>1 DEF IInv, LastShape
    <3> QED
      BY <1>4, <3>1, <3>2
  <2>2. lastEventId # None => lastEventId <= seq + 1
    BY <1>1 DEF IInv, LastShape, TypeShape, Id
  <2> QED
    BY <1>1, <2>1, <2>2 DEF Log, LastShape
<1>9. GotShape'
  BY DEF Log, IInv, GotShape, Listeners
<1> QED
  BY <1>6, <1>7, <1>8, <1>9 DEF IInv

\* The rest of the wire, once the chunk is taken off.
LEMMA WireRest ==
  ASSUME NEW wire \in Seq(Line), NEW m \in 1..Len(wire), NEW n \in Nat, NEW r \in 0..2,
         NEW q \in 0..2, NEW top \in Nat, OnWire(wire, m, n, r, q, top)
  PROVE  /\ SubSeq(wire, m + 1, Len(wire)) \in Seq(Line)
         /\ OnWire(SubSeq(wire, m + 1, Len(wire)), 0, n, r, q, top)
<1>1. PICK w : w = SubSeq(wire, m + 1, Len(wire))
  OBVIOUS
<1>2. Len(wire) \in Nat /\ m \in Nat /\ m <= Len(wire)
  OBVIOUS
<1>3. w \in Seq(Line) /\ Len(w) = Len(wire) - m /\ \A i \in 1..(Len(wire) - m) : w[i] = wire[m + i]
  <2>1. m + 1 \in 1..(Len(wire) + 1)
    BY <1>2
  <2>2. w \in Seq(Line)
    <3>1. \A i \in (m + 1)..Len(wire) : wire[i] \in Line
      BY <1>2
    <3> QED
      BY <1>1, <1>2, <3>1, SubSeqProperties
  <2>3. Len(w) = Len(wire) - m
    BY <1>1, <1>2
  <2>4. ASSUME NEW i \in 1..(Len(wire) - m) PROVE w[i] = wire[m + i]
    <3>1. (m + 1) + i - 1 = m + i
      BY <1>2
    <3> QED
      BY <1>1, <1>2, <3>1
  <2> QED
    BY <2>2, <2>3, <2>4
<1>4. Len(wire) = m + q + 3 * (top + 1 - n) - r /\ (q > 0 => r = 0)
  BY DEF OnWire
<1>5. q <= Len(wire) - m
  <2>1. CASE q > 0
    BY <2>1, <1>2, <1>4
  <2>2. CASE q = 0
    BY <2>2, <1>2
  <2> QED
    BY <2>1, <2>2
<1>6. ASSUME NEW i \in 1..q PROVE w[0 + i].f = IF q - i = 1 THEN "comment" ELSE "end"
  <2>1. i \in 1..(Len(wire) - m) /\ 0 + i = i
    BY <1>2, <1>5
  <2>2. wire[m + i].f = IF q - i = 1 THEN "comment" ELSE "end"
    BY DEF OnWire
  <2> QED
    BY <1>3, <2>1, <2>2
<1>7. ASSUME NEW d \in 0..MaxSeq, NEW t \in 0..2, NEW i \in Int,
             i = q + 3 * d + t + 1 - r, i \in (q + 1)..(Len(w) - 0)
      PROVE  w[0 + i] = FrameLine(t, n + d)
  <2>1. i \in (q + 1)..(Len(wire) - m) /\ i \in 1..(Len(wire) - m) /\ 0 + i = i
    BY <1>2, <1>3, <1>7
  <2>2. wire[m + i] = FrameLine(t, n + d)
    BY <1>7, <2>1 DEF OnWire
  <2> QED
    BY <1>3, <2>1, <2>2
<1>8. Len(w) = 0 + q + 3 * (top + 1 - n) - r
  BY <1>2, <1>3, <1>4
<1>9. OnWire(w, 0, n, r, q, top)
  BY <1>4, <1>6, <1>7, <1>8 DEF OnWire
<1> QED
  BY <1>1, <1>3, <1>9

\* Events that follow each other.
LEMMA WholeIs ==
  ASSUME NEW a \in Nat, NEW b \in Nat, a <= b
  PROVE  /\ Whole(a, b) \in Seq([id : Nat, ok : BOOLEAN]) /\ Len(Whole(a, b)) = b - a
         /\ \A i \in 1..(b - a) : Whole(a, b)[i] = [id |-> a + i, ok |-> TRUE]
<1>1. PICK E : E = [id : Nat, ok : BOOLEAN]
  OBVIOUS
<1>2. b - a \in Nat /\ \A i \in 1..(b - a) : [id |-> a + i, ok |-> TRUE] \in E
  BY <1>1
<1>3. Whole(a, b) \in Seq(E)
  BY <1>2 DEF Whole
<1> QED
  BY <1>1, <1>2, <1>3 DEF Whole

\* Those after a up to b, and those after b up to c.
LEMMA WholeJoins ==
  ASSUME NEW a \in Nat, NEW b \in Nat, NEW c \in Nat, a <= b, b <= c
  PROVE  Whole(a, b) \o Whole(b, c) = Whole(a, c)
<1>0. PICK E : E = [id : Nat, ok : BOOLEAN]
  OBVIOUS
<1>1. PICK s \in Seq(E) : /\ s = Whole(a, b) /\ Len(s) = b - a
                          /\ \A i \in 1..(b - a) : s[i] = [id |-> a + i, ok |-> TRUE]
  BY <1>0, WholeIs
<1>2. PICK t \in Seq(E) : /\ t = Whole(b, c) /\ Len(t) = c - b
                          /\ \A i \in 1..(c - b) : t[i] = [id |-> b + i, ok |-> TRUE]
  BY <1>0, WholeIs
<1>3. PICK u \in Seq(E) : /\ u = Whole(a, c) /\ Len(u) = c - a
                          /\ \A i \in 1..(c - a) : u[i] = [id |-> a + i, ok |-> TRUE]
  <2>1. a <= c
    OBVIOUS
  <2> QED
    BY <1>0, <2>1, WholeIs
<1>4. PICK v \in Seq(E) : /\ v = s \o t /\ Len(v) = Len(s) + Len(t)
                          /\ \A i \in 1..(Len(s) + Len(t)) : v[i] = IF i <= Len(s) THEN s[i] ELSE t[i - Len(s)]
  <2>1. s \in Seq(E) /\ t \in Seq(E)
    BY <1>1, <1>2
  <2>2. /\ s \o t \in Seq(E) /\ Len(s \o t) = Len(s) + Len(t)
        /\ \A i \in 1..(Len(s) + Len(t)) : (s \o t)[i] = IF i <= Len(s) THEN s[i] ELSE t[i - Len(s)]
    BY <2>1, ConcatProperties
  <2> QED
    BY <2>2
<1>5. Len(v) = c - a
  BY <1>1, <1>2, <1>4
<1>6. ASSUME NEW i \in 1..(c - a) PROVE v[i] = u[i]
  <2>1. v[i] = IF i <= b - a THEN s[i] ELSE t[i - (b - a)]
    <3>1. i \in 1..((b - a) + (c - b))
      BY <1>6
    <3>2. Len(s) = b - a /\ Len(t) = c - b
      BY <1>1, <1>2
    <3> QED
      BY <1>4, <3>1, <3>2
  <2>2. CASE i <= b - a
    <3>1. i \in 1..(b - a)
      BY <2>2
    <3> QED
      BY <1>1, <1>3, <2>1, <2>2, <3>1
  <2>3. CASE ~ (i <= b - a)
    <3>1. i - (b - a) \in 1..(c - b) /\ b + (i - (b - a)) = a + i
      BY <2>3
    <3>2. t[i - (b - a)] = [id |-> a + i, ok |-> TRUE]
      BY <1>2, <3>1
    <3> QED
      BY <1>3, <2>1, <2>3, <3>2
  <2> QED
    BY <2>2, <2>3
<1>7. v = u
  BY <1>3, <1>4, <1>5, <1>6, SeqEqual
<1> QED
  BY <1>1, <1>2, <1>3, <1>4, <1>7

\* What a listener has heard goes on with the events of a chunk.
LEMMA HeardMore ==
  ASSUME NEW g \in Seq(Call), NEW s \in Id \cup {None}, NEW last \in Id \cup {None},
         NEW n \in Nat \ {0}, NEW n2 \in Nat, n <= n2, last # None => n = last + 1,
         Heard(g, s, last)
  PROVE  Heard(g \o Whole(n - 1, n2 - 1), s, IF n2 = n THEN last ELSE n2 - 1)
<1>0. None \notin Nat
  BY NoneAssumption
<1>1. CASE n2 = n
  <2>1. PICK u \in Seq([id : Nat, ok : BOOLEAN]) : u = Whole(n - 1, n2 - 1) /\ Len(u) = 0
    <3>1. PICK b \in Nat : b = n - 1 /\ b <= b /\ b - b = 0
      OBVIOUS
    <3>2. n - 1 = b /\ n2 - 1 = b
      BY <1>1, <3>1
    <3>3. Whole(b, b) \in Seq([id : Nat, ok : BOOLEAN]) /\ Len(Whole(b, b)) = b - b
      BY <3>1, WholeIs, Zenon
    <3> QED
      BY <3>1, <3>2, <3>3, Zenon
  <2>2. u = <<>>
    BY <2>1, EmptySeq
  <2>3. g \o u = g
    BY <2>2, ConcatEmptySeq
  <2> QED
    BY <1>1, <2>1, <2>3
<1>2. CASE n2 # n
  <2>1. PICK c \in Nat : c = n2 - 1
    BY <1>2
  <2>2. PICK b \in Nat : b = n - 1
    OBVIOUS
  <2>3. b < c
    BY <1>2, <2>1, <2>2
  <2>4. Heard(g \o Whole(b, c), s, c)
    <3>1. CASE last = None
      <4>1. s = None /\ g = <<>>
        BY <3>1 DEF Heard
      <4>2. Whole(b, c) \in Seq([id : Nat, ok : BOOLEAN])
        BY <2>3, WholeIs
      <4>3. g \o Whole(b, c) = Whole(b, c)
        BY <4>1, <4>2, ConcatEmptySeq
      <4>4. b \in 0..c
        BY <2>3
      <4> QED
        BY <1>0, <2>3, <4>1, <4>3, <4>4 DEF Heard
    <3>2. CASE last # None
      <4>1. b = last /\ last \in Nat
        BY <3>2, <2>2 DEF Id
      <4>2. PICK first \in 0..last : /\ s # None => first = s
                                     /\ s = None => first < last
                                     /\ g = Whole(first, last)
        BY <3>2 DEF Heard
      <4>5. first \in Nat /\ first <= b /\ b <= c /\ g = Whole(first, b)
        BY <4>1, <4>2, <2>3
      <4>3. g \o Whole(b, c) = Whole(first, c)
        BY <4>5, WholeJoins
      <4>4. first \in 0..c /\ first < c
        BY <4>1, <4>2, <2>3
      <4> QED
        BY <1>0, <4>2, <4>3, <4>4 DEF Heard
    <3> QED
      BY <3>1, <3>2
  <2> QED
    BY <1>2, <2>1, <2>2, <2>4
<1> QED
  BY <1>1, <1>2

\* What a chunk brings: the events from n to before n2, and a loop that fits.
LEMMA ReadBrings ==
  ASSUME IInv, NEW k \in Loops, NEW m \in 1..Len(loop[k].wire), Read(k, m)
  PROVE  \E n \in Nat \ {0}, n2 \in Nat, y \in Loop :
           /\ n <= n2 /\ n2 <= seq + 1
           /\ loop[k].lastId # None => n = loop[k].lastId + 1
           /\ y.lastId = IF n2 = n THEN loop[k].lastId ELSE n2 - 1
           /\ LoopFits(y, k, sub, seq)
           /\ loop' = [loop EXCEPT ![k] = y]
           /\ lastEventId' = IF n2 = n THEN lastEventId ELSE n2 - 1
           /\ got' = [l \in Listener |-> IF l \in Served(k) THEN got[l] \o Whole(n - 1, n2 - 1) ELSE got[l]]
<1> DEFINE st == feedSSE(loop[k].st, SubSeq(loop[k].wire, 1, m))
           evs == [i \in DOMAIN st.out |-> Delivered(st.out[i])]
<1>0. /\ loop' = [loop EXCEPT ![k].st = [st EXCEPT !.out = <<>>],
                              ![k].lastId = IF evs = <<>> THEN @ ELSE evs[Len(evs)].id,
                              ![k].wire = SubSeq(@, m + 1, Len(@))]
      /\ lastEventId' = IF evs = <<>> THEN lastEventId ELSE evs[Len(evs)].id
      /\ got' = [l \in Listener |-> IF l \in Served(k) THEN got[l] \o evs ELSE got[l]]
  BY Zenon DEF Read
<1> HIDE DEF st
<1>1. /\ loop[k] \in Loop /\ LoopFits(loop[k], k, sub, seq) /\ seq \in 0..MaxSeq
      /\ MaxSeq \in Nat /\ None \notin Nat
  BY OneLoop, ClientBoundsAssumption, NoneAssumption DEF IInv, TypeShape
<1>2. PICK x \in Loop : x = loop[k]
  BY <1>1
<1>3. x.wire \in Seq(Line) /\ m \in 1..Len(x.wire) /\ Len(x.wire) \in Nat
  BY <1>2 DEF Loop
<1>4. PICK n \in Nat \ {0}, r \in 0..2, q \in 0..2 :
        /\ x.lastId # None => n = x.lastId + 1
        /\ x.st = ParserAt(n, r, <<>>)
        /\ OnWire(x.wire, 0, n, r, q, seq)
  BY <1>1, <1>2 DEF Read, LoopFits
<1>5. PICK n2 \in Nat, r2 \in 0..2, q2 \in 0..2 :
        /\ n2 >= n
        /\ feedSSE(ParserAt(n, r, <<>>), SubSeq(x.wire, 1, m)) = ParserAt(n2, r2, Parsed(n, n2))
        /\ OnWire(x.wire, m, n2, r2, q2, seq)
  <2>1. n \in Nat /\ OnWire(x.wire, 0, n, r, q, seq)
    BY <1>4
  <2> QED
    BY <1>1, <1>3, <1>4, <2>1, FeedIs, Zenon
<1>6. n2 <= seq + 1 /\ (r2 > 0 => n2 <= seq)
  <2>1. Len(x.wire) = m + q2 + 3 * (seq + 1 - n2) - r2 /\ (q2 > 0 => r2 = 0)
    BY <1>5 DEF OnWire
  <2>0. 0 <= q2 + 3 * (seq + 1 - n2) - r2 /\ (q2 > 0 => r2 = 0)
    <3>1. PICK c \in Nat : c = Len(x.wire) /\ m \in 1..c
      BY <1>3
    <3>2. c = m + q2 + 3 * (seq + 1 - n2) - r2 /\ m <= c
      BY <2>1, <3>1
    <3> QED
      BY <3>2, <2>1, <1>1
  <2>2. CASE q2 > 0
    <3>1. r2 = 0 /\ q2 + 3 * (seq + 1 - n2) >= 0
      BY <2>0, <2>2, <1>1, <1>5
    <3> QED
      BY <3>1, <1>1, <1>5
  <2>3. CASE q2 = 0
    <3>1. 3 * (seq + 1 - n2) >= r2
      BY <2>0, <2>3, <1>1, <1>5
    <3> QED
      BY <3>1, <1>1, <1>5
  <2> QED
    BY <2>2, <2>3
<1>8. st = ParserAt(n2, r2, Parsed(n, n2))
  BY <1>2, <1>4, <1>5 DEF st
<1>9. n2 - n \in Nat
  BY <1>4, <1>5
<1>10. evs = Whole(n - 1, n2 - 1)
  <2>1. st.out = Parsed(n, n2)
    BY <1>8 DEF ParserAt
  <2>2. /\ DOMAIN Parsed(n, n2) = 1..(n2 - n)
        /\ \A i \in 1..(n2 - n) : Parsed(n, n2)[i] = [id |-> n + i - 1, data |-> <<n + i - 1>>]
    BY DEF Parsed
  <2>3. ASSUME NEW i \in 1..(n2 - n)
        PROVE  Delivered(Parsed(n, n2)[i]) = [id |-> (n - 1) + i, ok |-> TRUE]
    <3>1. n + i - 1 = (n - 1) + i
      BY <1>4, <1>9
    <3>2. Delivered([id |-> n + i - 1, data |-> <<n + i - 1>>]) = [id |-> n + i - 1, ok |-> TRUE]
      BY Zenon DEF Delivered
    <3> QED
      BY <2>2, <3>1, <3>2
  <2>4. (n2 - 1) - (n - 1) = n2 - n
    BY <1>4, <1>5
  <2> QED
    BY <2>1, <2>2, <2>3, <2>4 DEF Whole
<1>11. DOMAIN evs = 1..(n2 - n) /\ Len(evs) = n2 - n
  <2>1. DOMAIN evs = 1..(n2 - n)
    BY <1>8 DEF ParserAt, Parsed
  <2> QED
    BY <1>9, <2>1
<1>12. \A old : (IF evs = <<>> THEN old ELSE evs[Len(evs)].id) = IF n2 = n THEN old ELSE n2 - 1
  <2>1. CASE n2 = n
    <3>1. DOMAIN evs = {}
      BY <1>11, <2>1
    <3>2. evs = <<>>
      BY <3>1
    <3> QED
      BY <2>1, <3>2
  <2>2. CASE n2 # n
    <3>1. n2 - n \in 1..(n2 - n) /\ (n2 - 1) - (n - 1) = n2 - n /\ (n - 1) + (n2 - n) = n2 - 1
      BY <1>4, <1>5, <1>9, <2>2
    <3>2. evs[n2 - n].id = n2 - 1
      <4>1. PICK j \in Int : j = n2 - n
        BY <1>9
      <4>2. evs[j] = [id |-> (n - 1) + j, ok |-> TRUE]
        BY <1>10, <3>1, <4>1 DEF Whole
      <4> QED
        BY <3>1, <4>1, <4>2
    <3>3. evs # <<>>
      <4> HIDE DEF evs
      <4>1. Len(evs) # 0
        BY <1>11, <2>2, <1>4, <1>5
      <4>2. Len(<<>>) = 0
        OBVIOUS
      <4> QED
        BY <4>1, <4>2, Zenon
    <3> QED
      BY <1>11, <2>2, <3>2, <3>3
  <2> QED
    BY <2>1, <2>2
<1> HIDE DEF evs
<1>13. PICK last : last = IF n2 = n THEN x.lastId ELSE n2 - 1
  OBVIOUS
<1>14. PICK w \in Seq(Line) : w = SubSeq(x.wire, m + 1, Len(x.wire)) /\ OnWire(w, 0, n2, r2, q2, seq)
  <2>1. seq \in Nat /\ OnWire(x.wire, m, n2, r2, q2, seq)
    BY <1>1, <1>5
  <2> QED
    BY <1>3, <1>5, <2>1, WireRest, Zenon
<1>15. PICK p : p = ParserAt(n2, r2, <<>>)
  OBVIOUS
<1>16. [st EXCEPT !.out = <<>>] = p
  BY <1>8, <1>15 DEF ParserAt
<1>17. n2 \in Nat \ {0} /\ (r2 > 0 => n2 \in Id)
  BY <1>1, <1>4, <1>5, <1>6 DEF Id
<1>18. p \in Parser
  <2>1. <<>> \in Seq([id : Id, data : Seq(Id)])
    OBVIOUS
  <2>2. (IF r2 = 0 THEN None ELSE n2) \in Id \cup {None}
    BY <1>5, <1>17
  <2>3. (IF r2 = 2 THEN <<n2>> ELSE <<>>) \in Seq(Id)
    BY <1>5, <1>17
  <2> QED
    BY <1>15, <2>1, <2>2, <2>3 DEF ParserAt, Parser
<1>19. last \in Id \cup {None} /\ (last # None => last <= seq /\ n2 = last + 1)
  <2>1. CASE n2 = n
    BY <2>1, <1>1, <1>2, <1>4, <1>13 DEF LoopFits, Loop
  <2>2. CASE n2 # n
    <3>1. last = n2 - 1
      BY <1>13, <2>2, Zenon
    <3>2. n2 \in Nat /\ n \in Nat \ {0} /\ n <= n2 /\ n2 <= seq + 1 /\ seq \in 0..MaxSeq
      BY <1>1, <1>4, <1>5, <1>6
    <3>3. n2 - 1 \in 1..MaxSeq /\ n2 - 1 <= seq /\ n2 = (n2 - 1) + 1
      BY <1>1, <2>2, <3>2
    <3> QED
      BY <3>1, <3>3 DEF Id
  <2> QED
    BY <2>1, <2>2
<1>20. PICK y : y = [x EXCEPT !.st = p, !.lastId = last, !.wire = w]
  OBVIOUS
<1>21. /\ y \in Loop /\ y.lastId = last /\ y.at = x.at /\ y.aborted = x.aborted
       /\ y.st = p /\ y.wire = w
  <2>1. PICK S : S = Seq(Line)
    OBVIOUS
  <2>2. PICK P : P = Parser
    OBVIOUS
  <2>3. p \in P /\ w \in S
    BY <1>14, <1>18, <2>1, <2>2
  <2>4. Loop = [at : {"fetch", "read", "sleep", "ended", "failed"}, aborted : BOOLEAN,
                lastId : Id \cup {None}, wire : S, st : P]
    BY <2>1, <2>2 DEF Loop, Parser
  <2> QED
    BY <1>2, <1>19, <1>20, <2>3, <2>4
<1>22. LoopFits(y, k, sub, seq)
  <2>1. \E n1 \in Nat \ {0}, r1 \in 0..2, q1 \in 0..2 :
          /\ y.lastId # None => n1 = y.lastId + 1
          /\ y.st = ParserAt(n1, r1, <<>>)
          /\ OnWire(y.wire, 0, n1, r1, q1, seq)
    BY <1>5, <1>14, <1>15, <1>17, <1>19, <1>21, Zenon
  <2> QED
    BY <1>1, <1>2, <1>19, <1>21, <2>1 DEF LoopFits
<1>23. loop' = [loop EXCEPT ![k] = y]
  <2>2. loop' = [loop EXCEPT ![k] = [x EXCEPT !.st = p, !.lastId = last, !.wire = w]]
    BY <1>0, <1>2, <1>12, <1>13, <1>14, <1>16
  <2> QED
    BY <1>20, <2>2
<1>24. lastEventId' = IF n2 = n THEN lastEventId ELSE n2 - 1
  BY <1>0, <1>12
<1>25. got' = [l \in Listener |-> IF l \in Served(k) THEN got[l] \o Whole(n - 1, n2 - 1) ELSE got[l]]
  BY <1>0, <1>10
<1>26. /\ n <= n2 /\ n2 <= seq + 1
       /\ loop[k].lastId # None => n = loop[k].lastId + 1
       /\ y.lastId = IF n2 = n THEN loop[k].lastId ELSE n2 - 1
  BY <1>2, <1>4, <1>5, <1>6, <1>13, <1>21
<1> QED
  BY <1>4, <1>5, <1>21, <1>22, <1>23, <1>24, <1>25, <1>26, Zenon

(* ------------------------- chunks and the subscriber ------------------------ *)

\* a chunk,
LEMMA ReadInv ==
  ASSUME IInv, NEW k \in Loops, NEW m \in 1..Len(loop[k].wire), Read(k, m)
  PROVE  IInv'
<1>1. PICK n \in Nat \ {0}, n2 \in Nat, y \in Loop :
           /\ n <= n2 /\ n2 <= seq + 1
           /\ loop[k].lastId # None => n = loop[k].lastId + 1
           /\ y.lastId = IF n2 = n THEN loop[k].lastId ELSE n2 - 1
           /\ LoopFits(y, k, sub, seq)
           /\ loop' = [loop EXCEPT ![k] = y]
           /\ lastEventId' = IF n2 = n THEN lastEventId ELSE n2 - 1
           /\ got' = [l \in Listener |-> IF l \in Served(k) THEN got[l] \o Whole(n - 1, n2 - 1) ELSE got[l]]
  BY ReadBrings
<1>2. UNCHANGED <<seq, sub, since, told>>
  BY DEF Read
<1>3. /\ seq \in 0..MaxSeq /\ MaxSeq \in Nat /\ None \notin Nat
      /\ loop[k] \in Loop /\ LoopFits(loop[k], k, sub, seq)
  BY OneLoop, ClientBoundsAssumption, NoneAssumption DEF IInv, TypeShape
<1>4. sub # None /\ sub.loop = k /\ loop[k].lastId = lastEventId
  <2>1. loop[k].at \in Open /\ ~loop[k].aborted
    BY DEF Read, Open
  <2> QED
    BY <1>3, <2>1 DEF LoopFits, IInv, LastShape
<1>5. /\ loop' \in Seq(Loop) /\ Len(loop') = Len(loop) /\ Loops' = Loops
      /\ loop'[k] = y /\ \A j \in Loops : j # k => loop'[j] = loop[j]
  BY <1>1, PutLoop DEF IInv
<1>6. lastEventId' \in Id \cup {None} /\ (lastEventId' # None => lastEventId' <= seq)
  <2>1. CASE n2 = n
    BY <1>1, <2>1 DEF IInv, TypeShape, LastShape
  <2>2. CASE n2 # n
    <3>1. n2 - 1 \in 1..seq /\ n2 - 1 \in Id
      BY <1>1, <1>3, <2>2 DEF Id
    <3> QED
      BY <1>1, <2>2, <3>1
  <2> QED
    BY <2>1, <2>2
<1>7. ASSUME NEW l \in Listener
      PROVE  /\ got'[l] \in Seq(Call)
             /\ l \in Listeners => Heard(got'[l], since[l], lastEventId')
  <2>1. got[l] \in Seq(Call) /\ since[l] \in Id \cup {None} /\ lastEventId \in Id \cup {None}
    BY DEF IInv, TypeShape
  <2>2. Served(k) = Listeners
    BY <1>4 DEF Served, Listeners
  <2>3. CASE l \in Listeners
    <3>1. got'[l] = got[l] \o Whole(n - 1, n2 - 1)
      BY <1>1, <2>2, <2>3
    <3>2. Heard(got[l], since[l], lastEventId)
      BY <2>3 DEF IInv, GotShape
    <3>3. lastEventId # None => n = lastEventId + 1
      BY <1>1, <1>4
    <3>4. Heard(got[l] \o Whole(n - 1, n2 - 1), since[l], IF n2 = n THEN lastEventId ELSE n2 - 1)
      BY <1>1, <2>1, <3>2, <3>3, HeardMore
    <3>5. Whole(n - 1, n2 - 1) \in Seq(Call)
      <4>1. (n2 - 1) - (n - 1) \in Nat /\ \A i \in 1..((n2 - 1) - (n - 1)) : (n - 1) + i \in Id
        BY <1>1, <1>3 DEF Id
      <4>2. \A i \in 1..((n2 - 1) - (n - 1)) : [id |-> (n - 1) + i, ok |-> TRUE] \in Call
        BY <4>1 DEF Call
      <4>3. PICK E : E = Call
        OBVIOUS
      <4>4. PICK b \in Nat, c \in Nat : b = n - 1 /\ c = (n2 - 1) - b
        BY <4>1
      <4>5. \A i \in 1..c : [id |-> b + i, ok |-> TRUE] \in E
        BY <4>2, <4>3, <4>4
      <4>6. [i \in 1..c |-> [id |-> b + i, ok |-> TRUE]] \in Seq(E)
        <5>1. c \in Nat
          BY <4>4
        <5>2. [i \in 1..c |-> [id |-> b + i, ok |-> TRUE]] \in [1..c -> E]
          BY <4>5, Zenon
        <5> QED
          BY <5>1, <5>2, SeqDef
      <4> QED
        BY <4>3, <4>4, <4>6 DEF Whole
    <3>6. got[l] \o Whole(n - 1, n2 - 1) \in Seq(Call)
      BY <2>1, <3>5, ConcatProperties
    <3> QED
      BY <1>1, <3>1, <3>4, <3>6
  <2>4. CASE l \notin Listeners
    BY <1>1, <2>1, <2>2, <2>4
  <2> QED
    BY <2>3, <2>4
<1>8. TypeShape'
  <2>1. got' \in [Listener -> Seq(Call)]
    BY <1>1, <1>7
  <2>2. Subscriber(Len(loop))' = Subscriber(Len(loop))
    BY <1>5 DEF Subscriber
  <2> QED
    BY <1>2, <1>5, <1>6, <2>1, <2>2 DEF IInv, TypeShape
<1>9. LoopShape'
  BY <1>1, <1>2, <1>5 DEF IInv, LoopShape
<1>10. LastShape'
  <2>1. loop'[sub.loop].lastId = lastEventId'
    BY <1>1, <1>4, <1>5
  <2> QED
    BY <1>2, <1>6, <2>1 DEF LastShape
<1>11. GotShape'
  <2>1. Listeners' = Listeners
    BY <1>2 DEF Listeners
  <2>2. Listeners \subseteq Listener
    BY DEF Listeners, IInv, TypeShape, Subscriber
  <2> QED
    BY <1>2, <1>7, <2>1, <2>2 DEF GotShape
<1> QED
  BY <1>8, <1>9, <1>10, <1>11 DEF IInv

\* Nobody has heard anything since now.
LEMMA HeardNothing ==
  ASSUME NEW last \in Id \cup {None}
  PROVE  Heard(<<>>, last, last)
<1>1. CASE last = None
  BY <1>1 DEF Heard
<1>2. CASE last # None
  <2>1. last \in Nat
    BY <1>2 DEF Id
  <2>2. PICK u \in Seq([id : Nat, ok : BOOLEAN]) : u = Whole(last, last) /\ Len(u) = last - last
    BY <2>1, last <= last, WholeIs
  <2>3. u = <<>>
    BY <2>1, <2>2, EmptySeq
  <2>4. last \in 0..last
    BY <2>1
  <2> QED
    BY <1>2, <2>2, <2>3, <2>4 DEF Heard
<1> QED
  BY <1>1, <1>2

\* a listener that joins, with a loop of its own if it is the first,
LEMMA SubscribeInv ==
  ASSUME IInv, NEW l \in Listener, subscribeToStream(l)
  PROVE  IInv'
<1>1. /\ UNCHANGED <<seq, lastEventId>> /\ told' \subseteq Listener
      /\ got' = [got EXCEPT ![l] = <<>>] /\ since' = [since EXCEPT ![l] = lastEventId]
      /\ l \notin Listeners
  BY DEF subscribeToStream, IInv, TypeShape
<1>2. lastEventId \in Id \cup {None} /\ seq \in 0..MaxSeq /\ loop \in Seq(Loop) /\ Len(loop) \in Nat
  BY DEF IInv, TypeShape
<1>3. got' \in [Listener -> Seq(Call)] /\ since' \in [Listener -> Id \cup {None}]
  <2>1. <<>> \in Seq(Call)
    OBVIOUS
  <2> QED
    BY <1>1, <1>2, <2>1 DEF IInv, TypeShape
<1>4. Heard(got'[l], since'[l], lastEventId)
  <2>1. got'[l] = <<>> /\ since'[l] = lastEventId
    BY <1>1 DEF IInv, TypeShape
  <2> QED
    BY <1>2, <2>1, HeardNothing
<1>5. ASSUME NEW j \in Listeners PROVE Heard(got'[j], since'[j], lastEventId)
  <2>1. j # l /\ j \in Listener
    BY <1>1, <1>5 DEF IInv, TypeShape, Subscriber, Listeners
  <2>2. got'[j] = got[j] /\ since'[j] = since[j]
    BY <1>1, <2>1 DEF IInv, TypeShape
  <2> QED
    BY <2>2, <1>5 DEF IInv, GotShape
<1>6. CASE sub = None
  <2>1. PICK y : y = [at |-> "fetch", aborted |-> FALSE, lastId |-> lastEventId,
                      wire |-> <<>>, st |-> newSSEParserState]
    OBVIOUS
  <2>2. y \in Loop /\ y.at = "fetch" /\ y.lastId = lastEventId
    <3>1. newSSEParserState \in Parser
      BY DEF newSSEParserState, Parser
    <3>2. <<>> \in Seq(Line)
      OBVIOUS
    <3>3. PICK S : S = Seq(Line)
      OBVIOUS
    <3>4. PICK P : P = Parser
      OBVIOUS
    <3>5. Loop = [at : {"fetch", "read", "sleep", "ended", "failed"}, aborted : BOOLEAN,
                  lastId : Id \cup {None}, wire : S, st : P]
      BY <3>3, <3>4 DEF Loop, Parser
    <3> QED
      BY <2>1, <3>1, <3>2, <3>3, <3>4, <3>5, <1>2
  <2>3. loop' = Append(loop, y) /\ sub' = [listeners |-> {l}, loop |-> Len(loop) + 1, timer |-> FALSE]
    BY <1>6, <2>1 DEF subscribeToStream, start
  <2>4. PICK n \in Nat : n = Len(loop) + 1
    BY <1>2
  <2>5. /\ loop' \in Seq(Loop) /\ Len(loop') = n /\ loop'[n] = y
        /\ \A j \in 1..Len(loop) : loop'[j] = loop[j]
    BY <1>2, <2>2, <2>3, <2>4, AppendProperties
  <2>6. /\ sub' \in Subscriber(n) /\ sub' # None /\ sub'.loop = n /\ sub'.listeners = {l}
    <3>1. sub' \in Subscriber(n) /\ sub'.loop = n /\ sub'.listeners = {l}
      BY <1>2, <2>3, <2>4 DEF Subscriber
    <3>2. sub' \in [listeners : SUBSET Listener, loop : Nat, timer : BOOLEAN]
      BY <3>1, <2>4 DEF Subscriber
    <3> QED
      BY <3>1, <3>2, NoneAssumption
  <2>7. TypeShape'
    <3>1. Subscriber(Len(loop))' = Subscriber(n)
      BY <2>5 DEF Subscriber
    <3>2. seq' = seq /\ lastEventId' = lastEventId
      BY <1>1
    <3> QED
      BY <1>1, <1>2, <1>3, <2>5, <2>6, <3>1, <3>2 DEF TypeShape
  <2>8. LoopShape'
    <3>1. Loops' = 1..n /\ seq' = seq
      BY <1>1, <2>5 DEF Loops
    <3>2. ASSUME NEW j \in 1..n PROVE LoopFits(loop'[j], j, sub', seq)
      <4>1. CASE j = n
        <5>1. y.lastId # None => y.lastId <= seq
          BY <2>2 DEF IInv, LastShape
        <5> QED
          BY <2>2, <2>5, <2>6, <4>1, <5>1 DEF LoopFits
      <4>2. CASE j # n
        <5>1. j \in 1..Len(loop) /\ j \in Loops
          BY <2>4, <4>2, <1>2 DEF Loops
        <5>2. LoopFits(loop[j], j, sub, seq)
          BY <5>1, OneLoop
        <5> QED
          BY <1>6, <2>5, <5>1, <5>2 DEF LoopFits
      <4> QED
        BY <4>1, <4>2
    <3> QED
      BY <3>1, <3>2 DEF LoopShape
  <2>9. LastShape'
    BY <1>1, <2>2, <2>5, <2>6 DEF IInv, LastShape
  <2>10. GotShape'
    <3>1. Listeners' = {l}
      BY <2>6 DEF Listeners
    <3> QED
      BY <1>1, <1>4, <3>1 DEF GotShape
  <2> QED
    BY <2>7, <2>8, <2>9, <2>10 DEF IInv
<1>7. CASE sub # None
  <2>1. PICK s \in Subscriber(Len(loop)) : s = sub
    BY <1>7 DEF IInv, TypeShape
  <2>2. loop' = loop /\ sub' = [s EXCEPT !.listeners = @ \cup {l}, !.timer = FALSE]
    BY <1>7, <2>1 DEF subscribeToStream
  <2>3. sub' \in Subscriber(Len(loop)) /\ sub'.loop = s.loop /\ sub'.listeners = s.listeners \cup {l}
    BY <2>1, <2>2 DEF Subscriber
  <2>4. sub' # None
    <3>1. sub' \in [listeners : SUBSET Listener, loop : Nat, timer : BOOLEAN]
      BY <2>3, <1>2 DEF Subscriber
    <3> QED
      BY <3>1, NoneAssumption
  <2>5. TypeShape'
    <3>1. Subscriber(Len(loop))' = Subscriber(Len(loop))
      BY <2>2 DEF Subscriber
    <3>2. seq' = seq /\ lastEventId' = lastEventId
      BY <1>1
    <3> QED
      BY <1>1, <1>2, <1>3, <2>2, <2>3, <3>1, <3>2 DEF TypeShape
  <2>6. LoopShape'
    <3>1. Loops' = Loops /\ seq' = seq
      BY <1>1, <2>2 DEF Loops
    <3>2. ASSUME NEW j \in Loops PROVE LoopFits(loop[j], j, sub', seq)
      <4>1. LoopFits(loop[j], j, sub, seq)
        BY OneLoop
      <4> QED
        BY <4>1, <2>1, <2>3, <2>4 DEF LoopFits
    <3> QED
      BY <2>2, <3>1, <3>2 DEF LoopShape
  <2>7. LastShape'
    BY <1>1, <1>7, <2>1, <2>2, <2>3 DEF IInv, LastShape
  <2>8. GotShape'
    <3>1. Listeners' = Listeners \cup {l}
      BY <1>7, <2>1, <2>3, <2>4 DEF Listeners
    <3> QED
      BY <1>1, <1>4, <1>5, <3>1 DEF GotShape
  <2> QED
    BY <2>5, <2>6, <2>7, <2>8 DEF IInv
<1> QED
  BY <1>6, <1>7

\* one that leaves,
LEMMA UnsubscribeInv ==
  ASSUME IInv, NEW l \in Listener, unsubscribe(l)
  PROVE  IInv'
<1>1. sub # None
  BY DEF unsubscribe, Listeners
<1>2. PICK s \in Subscriber(Len(loop)) : s = sub
  BY <1>1 DEF IInv, TypeShape
<1>3. UNCHANGED <<seq, loop, lastEventId, got, since, told>>
  BY DEF unsubscribe
<1>4. sub' \in Subscriber(Len(loop)) /\ sub'.loop = s.loop /\ sub'.listeners = s.listeners \ {l}
  <2>1. PICK b \in BOOLEAN : b = (s.timer \/ s.listeners = {l})
    OBVIOUS
  <2>2. sub' = [s EXCEPT !.listeners = @ \ {l}, !.timer = b]
    BY <1>2, <2>1 DEF unsubscribe
  <2> QED
    BY <2>1, <2>2 DEF Subscriber
<1>5. sub' # None
  <2>1. sub' \in [listeners : SUBSET Listener, loop : Nat, timer : BOOLEAN]
    BY <1>4 DEF Subscriber, IInv, TypeShape
  <2> QED
    BY <2>1, NoneAssumption
<1>6. TypeShape'
  <2>1. Subscriber(Len(loop))' = Subscriber(Len(loop))
    BY <1>3 DEF Subscriber
  <2> QED
    BY <1>3, <1>4, <2>1 DEF IInv, TypeShape
<1>7. LoopShape'
  <2>1. Loops' = Loops /\ seq' = seq
    BY <1>3 DEF Loops
  <2>2. ASSUME NEW j \in Loops PROVE LoopFits(loop[j], j, sub', seq)
    <3>1. LoopFits(loop[j], j, sub, seq)
      BY OneLoop
    <3> QED
      BY <3>1, <1>2, <1>4, <1>5 DEF LoopFits
  <2> QED
    BY <1>3, <2>1, <2>2 DEF LoopShape
<1>8. LastShape'
  BY <1>1, <1>2, <1>3, <1>4 DEF IInv, LastShape
<1>9. GotShape'
  <2>1. Listeners' \subseteq Listeners
    BY <1>1, <1>2, <1>4, <1>5 DEF Listeners
  <2> QED
    BY <1>3, <2>1 DEF IInv, GotShape
<1> QED
  BY <1>6, <1>7, <1>8, <1>9 DEF IInv

\* and the end of the grace period.
LEMMA TeardownInv ==
  ASSUME IInv, Teardown
  PROVE  IInv'
<1>1. UNCHANGED <<seq, lastEventId, got, since, told>> /\ sub # None
  BY DEF Teardown
<1>2. CASE sub.listeners # {}
  <2>1. UNCHANGED <<loop, sub>>
    BY <1>2 DEF Teardown
  <2> QED
    BY <1>1, <2>1 DEF IInv, TypeShape, LoopShape, LastShape, GotShape, Loops, Listeners, Subscriber
<1>3. CASE sub.listeners = {}
  <2>1. loop' = [loop EXCEPT ![sub.loop].aborted = TRUE] /\ sub' = None
    BY <1>3 DEF Teardown
  <2>2. PICK k \in Loops : k = sub.loop
    BY <1>1 DEF IInv, TypeShape, Subscriber, Loops
  <2>3. loop[k] \in Loop /\ \A j \in Loops : LoopFits(loop[j], j, sub, seq)
    BY OneLoop
  <2>4. PICK x \in Loop : x = loop[k]
    BY <2>3
  <2>5. PICK y : y = [x EXCEPT !.aborted = TRUE]
    OBVIOUS
  <2>6. /\ y \in Loop /\ y.lastId = x.lastId /\ y.at = x.at /\ y.aborted = TRUE
        /\ y.st = x.st /\ y.wire = x.wire
    <3>1. PICK S : S = Seq(Line)
      OBVIOUS
    <3>2. PICK P : P = [id : Id \cup {None}, data : Seq(Id), out : Seq([id : Id, data : Seq(Id)])]
      OBVIOUS
    <3> QED
      BY <2>4, <2>5, <3>1, <3>2 DEF Loop
  <2>7. loop' = [loop EXCEPT ![k] = y]
    BY <2>1, <2>2, <2>4, <2>5
  <2>8. /\ loop' \in Seq(Loop) /\ Len(loop') = Len(loop) /\ Loops' = Loops
        /\ loop'[k] = y /\ \A j \in Loops : j # k => loop'[j] = loop[j]
    BY <2>6, <2>7, PutLoop DEF IInv
  <2>9. TypeShape'
    BY <1>1, <2>1, <2>8 DEF IInv, TypeShape
  <2>10. LoopShape'
    <3>1. ASSUME NEW j \in Loops PROVE LoopFits(loop'[j], j, None, seq)
      <4>1. LoopFits(loop[j], j, sub, seq)
        BY <2>3
      <4>2. CASE j = k
        <5>1. LoopFits(x, k, sub, seq)
          BY <2>4, <4>1, <4>2
        <5>2. LoopFits(y, k, None, seq)
          BY <2>6, <5>1 DEF LoopFits
        <5> QED
          BY <2>8, <4>2, <5>2
      <4>3. CASE j # k
        BY <2>2, <2>8, <4>1, <4>3 DEF LoopFits
      <4> QED
        BY <4>2, <4>3
    <3> QED
      BY <1>1, <2>1, <2>8, <3>1 DEF LoopShape
  <2>11. LastShape'
    BY <1>1, <2>1 DEF IInv, LastShape
  <2>12. GotShape'
    BY <2>1 DEF GotShape, Listeners
  <2> QED
    BY <2>9, <2>10, <2>11, <2>12 DEF IInv
<1> QED
  BY <1>2, <1>3

\* The inductive invariant holds: no step of any actor breaks the fit of parser,
\* wire and last id, whatever the chunks.
THEOREM ClientInvariant == ClientSpec => []IInv
<1>1. ClientInit => IInv
  <2> SUFFICES ASSUME ClientInit PROVE IInv
    OBVIOUS
  <2>1. TypeShape
    <3>1. <<>> \in Seq(Call) /\ <<>> \in Seq(Loop)
      OBVIOUS
    <3>2. 0 \in 0..MaxSeq
      BY ClientBoundsAssumption
    <3> QED
      BY <3>1, <3>2 DEF ClientInit, TypeShape
  <2>2. Loops = {} /\ Listeners = {}
    BY DEF ClientInit, Loops, Listeners
  <2>3. LastShape
    BY DEF ClientInit, LastShape
  <2> QED
    BY <2>1, <2>2, <2>3 DEF IInv, LoopShape, GotShape
<1>2. IInv /\ [ClientNext]_cvars => IInv'
  <2> SUFFICES ASSUME IInv, [ClientNext]_cvars PROVE IInv'
    OBVIOUS
  <2>1. CASE Log
    BY <2>1, LogInv
  <2>2. CASE Teardown
    BY <2>2, TeardownInv
  <2>3. ASSUME NEW k \in Loops, Proceed(k) PROVE IInv'
    BY <2>3, FetchInv, RefusedInv, AwakeInv, RejectsInv, ReadInv DEF Proceed
  <2>4. ASSUME NEW k \in Loops, Lost(k) PROVE IInv'
    BY <2>4, LostInv
  <2>5. ASSUME NEW k \in Loops, Ping(k) PROVE IInv'
    BY <2>5, PingInv
  <2>6. ASSUME NEW l \in Listener, subscribeToStream(l) PROVE IInv'
    BY <2>6, SubscribeInv
  <2>7. ASSUME NEW l \in Listener, unsubscribe(l) PROVE IInv'
    BY <2>7, UnsubscribeInv
  <2>8. CASE UNCHANGED cvars
    BY <2>8 DEF cvars, IInv, TypeShape, LoopShape, LastShape, GotShape, Loops, Listeners, Subscriber
  <2> QED
    BY <2>1, <2>2, <2>3, <2>4, <2>5, <2>6, <2>7, <2>8 DEF ClientNext
<1> QED
  BY <1>1, <1>2, PTL DEF ClientSpec

\* Types of the transport, the client and the subscriber, and that no second
\* connection is open beside the subscriber's.
THEOREM ClientTypesHold == ClientSpec => []ClientTypeOK
<1>1. IInv => ClientTypeOK
  <2> SUFFICES ASSUME IInv PROVE ClientTypeOK
    OBVIOUS
  <2>1. OneConnection
    <3> SUFFICES ASSUME NEW k \in Loops, loop[k].at \in {"fetch", "read", "sleep"}, ~loop[k].aborted
                 PROVE  sub # None /\ sub.loop = k
      BY DEF OneConnection
    <3> QED
      BY OneLoop DEF LoopFits, Open
  <2>2. sub # None => sub \in [listeners : SUBSET Listener, loop : Loops, timer : BOOLEAN]
    <3>1. Loops = 1..Len(loop)
      BY DEF IInv, TypeShape, Loops
    <3> QED
      BY <3>1 DEF IInv, TypeShape, Subscriber
  <2>3. \A l \in Listener : got[l] \in Seq([id : Id, ok : BOOLEAN])
    BY DEF IInv, TypeShape, Call
  <2> QED
    BY <2>1, <2>2, <2>3 DEF ClientTypeOK, IInv, TypeShape
<1> QED
  BY <1>1, ClientInvariant, PTL

\* A listener is called with every event from where the client was when it
\* subscribed, in order, once and whole: for every cut into chunks, every loss and
\* every handover from one loop to the next.
THEOREM NothingIsMissed == ClientSpec => []ListenersMissNothing
<1>1. IInv => ListenersMissNothing
  <2> SUFFICES ASSUME IInv, NEW l \in Listeners
               PROVE  LET first == IF since[l] # None \/ got[l] = <<>> THEN since[l] ELSE got[l][1].id - 1
                      IN IF first = None THEN lastEventId = None
                         ELSE got[l] = [i \in 1..(lastEventId - first) |-> [id |-> first + i, ok |-> TRUE]]
    BY DEF ListenersMissNothing
  <2>1. Heard(got[l], since[l], lastEventId)
    BY DEF IInv, GotShape
  <2>2. None \notin Nat
    BY NoneAssumption
  <2>3. CASE lastEventId = None
    BY <2>1, <2>3 DEF Heard
  <2>4. CASE lastEventId # None
    <3>1. lastEventId \in Nat
      BY <2>4 DEF IInv, TypeShape, Id
    <3>2. PICK first \in 0..lastEventId :
            /\ since[l] # None => first = since[l]
            /\ since[l] = None => first < lastEventId
            /\ got[l] = Whole(first, lastEventId)
      BY <2>1, <2>4 DEF Heard
    <3>3. first \in Nat /\ first <= lastEventId
      BY <3>1, <3>2
    <3>4. CASE since[l] # None
      BY <3>2, <3>4 DEF Whole
    <3>5. CASE since[l] = None
      <4>1. /\ Len(Whole(first, lastEventId)) = lastEventId - first
            /\ \A i \in 1..(lastEventId - first) :
                 Whole(first, lastEventId)[i] = [id |-> first + i, ok |-> TRUE]
        BY <3>1, <3>3, WholeIs
      <4>2. 1 \in 1..(lastEventId - first)
        BY <3>1, <3>2, <3>3, <3>5
      <4>3. got[l][1] = [id |-> first + 1, ok |-> TRUE] /\ got[l] # <<>>
        <5>1. got[l][1] = [id |-> first + 1, ok |-> TRUE]
          BY <3>2, <4>1, <4>2
        <5>2. Len(got[l]) # 0 /\ Len(<<>>) = 0
          BY <3>1, <3>2, <3>3, <4>1, <4>2
        <5> QED
          BY <5>1, <5>2, Zenon
      <4>4. got[l][1].id - 1 = first /\ first # None
        BY <2>2, <3>3, <4>3
      <4> QED
        BY <3>2, <3>5, <4>3, <4>4 DEF Whole
    <3> QED
      BY <3>4, <3>5
  <2> QED
    BY <2>3, <2>4
<1> QED
  BY <1>1, ClientInvariant, PTL
=============================================================================
