--------------------------- MODULE EventStreamProofs ---------------------------
(***************************************************************************)
(* The safety properties of EventStream for every set of clients, every    *)
(* ring size and every bound.                                              *)
(*                                                                         *)
(* The argument: the ring is an interval of sequence numbers that ends at  *)
(* the newest (RingShape).  A copy of it is an interval too, so the first  *)
(* entry beyond the cursor is the cursor's successor, unless the walk has  *)
(* just begun and everything in between has left the ring (CopyShape).     *)
(* Hence an event of the ring below the cursor is with the client or on    *)
(* the wire (InFlight), and as the wire ascends from what the client has   *)
(* (WireShape), an event below the client's id is with the client.         *)
(***************************************************************************)
EXTENDS EventStream, TLAPS

RingShape ==
  /\ Len(buf) <= Cap
  /\ Len(buf) <= LastSeq
  /\ Len(buf) < Cap => Len(buf) = LastSeq
  /\ \A i \in 1..Len(buf) : buf[i] = LastSeq - Len(buf) + i

CopyShape(c) ==
  /\ \A i, j \in DOMAIN snap[c] : snap[c][j] - snap[c][i] = j - i
  /\ \A i \in DOMAIN snap[c] : snap[c][i] <= LastSeq
  /\ gen[c] = "yielded" => snap[c] # <<>> /\ snap[c][1] <= cursor[c]

WireShape(c) ==
  /\ \A i, j \in DOMAIN wire[c] : i < j => wire[c][i] < wire[c][j]
  /\ \A i \in DOMAIN wire[c] :
       wire[c][i] # ErrorFrame =>
         wire[c][i] <= cursor[c] /\ \A t \in got[c] : t < wire[c][i]
  /\ phase[c] # "streaming" \/ gen[c] = "open" => wire[c] = <<>>
  /\ phase[c] = "streaming" <=> gen[c] # "none"

IdShape(c) ==
  /\ got[c] # {} => lastId[c] \in got[c]
  /\ \A t \in got[c] : t <= lastId[c] /\ t <= LastSeq
  /\ phase[c] = "streaming" =>
       cursor[c] <= LastSeq /\ \A t \in got[c] : t <= cursor[c]

Seen(c) ==
  \A s \in InRing : lastId[c] \in got[c] /\ floor[c] < s /\ s <= lastId[c] => s \in got[c]

InFlight(c) ==
  \A s \in InRing :
    (phase[c] = "streaming" /\ floor[c] < s /\ s <= cursor[c])
      => s \in got[c] \/ \E i \in DOMAIN wire[c] : wire[c][i] = s

ClientInv(c) == CopyShape(c) /\ WireShape(c) /\ IdShape(c) /\ Seen(c) /\ InFlight(c)

IInv == TypeOK /\ RingShape /\ \A c \in Client : ClientInv(c)

-----------------------------------------------------------------------------
(* Type correctness. *)

\* The deque after an append: at most Cap entries, the new one last, the
\* others in place or moved up by one.
LEMMA PushedSeq ==
  ASSUME NEW q \in Seq(1..MaxSeq), NEW s \in 1..MaxSeq, Len(q) <= Cap
  PROVE  /\ Pushed(q, s) \in Seq(1..MaxSeq)
         /\ Len(Pushed(q, s)) = IF Len(q) < Cap THEN Len(q) + 1 ELSE Cap
         /\ Pushed(q, s)[Len(Pushed(q, s))] = s
         /\ \A i \in 1..(Len(Pushed(q, s)) - 1) :
              Pushed(q, s)[i] = IF Len(q) < Cap THEN q[i] ELSE q[i + 1]
<1>1. CASE Len(q) < Cap
  BY <1>1 DEF Pushed
<1>2. CASE ~(Len(q) < Cap)
  <2>1. Len(q) = Cap /\ q # <<>>
    BY <1>2, CapAssumption
  <2>2. /\ Tail(q) \in Seq(1..MaxSeq)
        /\ Len(Tail(q)) = Cap - 1
        /\ \A i \in 1..(Cap - 1) : Tail(q)[i] = q[i + 1]
    BY <2>1
  <2>3. QED
    BY <1>2, <2>1, <2>2, CapAssumption DEF Pushed
<1>3. QED
  BY <1>1, <1>2

\* The frame at the head of the wire is an event unless it is the error.
LEMMA HeadTail ==
  ASSUME NEW w \in Seq(0..MaxSeq), w # <<>>
  PROVE  /\ Tail(w) \in Seq(0..MaxSeq) /\ Head(w) \in 0..MaxSeq
         /\ Head(w) # 0 => Head(w) \in 1..MaxSeq
<1>1. PICK E : E = 0..MaxSeq
  OBVIOUS
<1>2. w \in Seq(E) /\ w # <<>>
  BY <1>1
<1>3. w[1] \in E /\ Head(w) = w[1]
  BY <1>2
<1>4. Tail(w) \in Seq(E)
  BY <1>2
<1>5. QED
  BY <1>1, <1>3, <1>4, MaxSeqAssumption

\* The walk hands out an entry of the list, or none.
LEMMA WalkType ==
  ASSUME TypeOK, NEW c \in Client, NEW list \in Seq(1..MaxSeq), Walk(c, list)
  PROVE  /\ gen' \in [Client -> {"none", "open", "yielded", "waiting", "ended"}]
         /\ snap' \in [Client -> Seq(1..MaxSeq)]
         /\ cursor' \in [Client -> 0..MaxSeq]
         /\ wire' \in [Client -> Seq(0..MaxSeq)]
         /\ waiters' \subseteq Client
<1> USE MaxSeqAssumption
<1>1. CASE Emit(c, list)
  <2>1. PICK i \in DOMAIN list : /\ cursor' = [cursor EXCEPT ![c] = list[i]]
                                 /\ wire' = [wire EXCEPT ![c] = Append(@, list[i])]
    BY <1>1 DEF Emit, Pending
  <2>2. list[i] \in 1..MaxSeq
    OBVIOUS
  <2>3. Append(wire[c], list[i]) \in Seq(0..MaxSeq)
    BY <2>2 DEF TypeOK
  <2>4. cursor' \in [Client -> 0..MaxSeq]
    <3>1. list[i] \in 0..MaxSeq
      BY <2>2
    <3>2. cursor \in [Client -> 0..MaxSeq]
      BY DEF TypeOK
    <3>3. QED
      BY <2>1, <3>1, <3>2
  <2>5. wire' \in [Client -> Seq(0..MaxSeq)]
    BY <2>1, <2>3 DEF TypeOK
  <2>6. snap' = [snap EXCEPT ![c] = list] /\ gen' = [gen EXCEPT ![c] = "yielded"] /\ waiters' = waiters
    BY <1>1 DEF Emit
  <2>7. snap' \in [Client -> Seq(1..MaxSeq)] /\ waiters' \subseteq Client
    BY <2>6 DEF TypeOK, LogTypeOK
  <2>8. gen' \in [Client -> {"none", "open", "yielded", "waiting", "ended"}]
    BY <2>6 DEF TypeOK
  <2>9. QED
    BY <2>4, <2>5, <2>7, <2>8
<1>2. CASE Finish(c, list)
  BY <1>2 DEF Finish, TypeOK, LogTypeOK
<1>3. CASE Block(c, list)
  BY <1>3 DEF Block, TypeOK, LogTypeOK
<1>4. QED
  BY <1>1, <1>2, <1>3 DEF Walk

LEMMA NoFrames ==
  /\ [c \in Client |-> {}] \in [Client -> SUBSET (1..MaxSeq)]
  /\ [c \in Client |-> <<>>] \in [Client -> Seq(1..MaxSeq)]
  /\ [c \in Client |-> <<>>] \in [Client -> Seq(0..MaxSeq)]
<1>1. <<>> \in Seq(1..MaxSeq) /\ <<>> \in Seq(0..MaxSeq)
  OBVIOUS
<1>2. QED
  BY <1>1, Zenon

LEMMA InitType == Init => TypeOK
<1>1. <<>> \in Seq(1..MaxSeq)
  OBVIOUS
<1>2. Init => /\ snap \in [Client -> Seq(1..MaxSeq)]
              /\ wire \in [Client -> Seq(0..MaxSeq)]
              /\ got \in [Client -> SUBSET (1..MaxSeq)]
  BY NoFrames, Zenon DEF Init
<1>3. Init => LogTypeOK
  <2> SUFFICES ASSUME LogInit PROVE LogTypeOK
    BY DEF Init
  <2>1. nextSeq \in 1..(MaxSeq + 1)
    BY MaxSeqAssumption DEF LogInit
  <2>2. buf \in Seq(1..MaxSeq) /\ waiters \subseteq Client
    BY <1>1 DEF LogInit
  <2>3. closed \in BOOLEAN
    BY Zenon DEF LogInit
  <2>4. QED
    BY <2>1, <2>2, <2>3 DEF LogTypeOK
<1>4. Init => gen \in [Client -> {"none", "open", "yielded", "waiting", "ended"}]
  BY DEF Init
<1>5. Init => phase \in [Client -> {"connecting", "streaming", "failed"}]
  BY DEF Init
<1>6. Init => cursor \in [Client -> 0..MaxSeq]
  BY MaxSeqAssumption DEF Init
<1>7. Init => lastId \in [Client -> 0..MaxSeq] /\ floor \in [Client -> 0..MaxSeq]
  BY MaxSeqAssumption DEF Init
<1>8. Init => drops \in 0..MaxDrops /\ restarts \in 0..MaxRestarts
  BY DropsAssumption DEF Init
<1>9. QED
  BY <1>2, <1>3, <1>4, <1>5, <1>6, <1>7, <1>8, Zenon DEF TypeOK

LEMMA StepType ==
  ASSUME TypeOK, RingShape, [Next]_vars
  PROVE  TypeOK'
<1> USE MaxSeqAssumption, DropsAssumption DEF TypeOK, LogTypeOK, logVars, streamVars, clientVars
<1>1. CASE Append1
  <2>1. nextSeq \in 1..MaxSeq /\ nextSeq' = nextSeq + 1
    BY <1>1 DEF Append1, LogAppend
  <2>2. buf' \in Seq(1..MaxSeq)
    BY <1>1, <2>1, PushedSeq DEF Append1, LogAppend, RingShape
  <2>3. QED
    BY <1>1, <2>1, <2>2 DEF Append1, LogAppend
<1>2. CASE CloseLog
  BY <1>2 DEF CloseLog, LogClose
<1>3. CASE Restart
  <2>1. <<>> \in Seq(1..MaxSeq)
    OBVIOUS
  <2>2. phase' \in [Client -> {"connecting", "streaming", "failed"}]
    BY <1>3 DEF Restart
  <2>3. /\ snap' \in [Client -> Seq(1..MaxSeq)]
        /\ wire' \in [Client -> Seq(0..MaxSeq)]
        /\ got' \in [Client -> SUBSET (1..MaxSeq)]
    BY <1>3, NoFrames, Zenon DEF Restart
  <2>4. closed' \in BOOLEAN
    BY <1>3, Zenon DEF Restart
  <2>5. QED
    BY <1>3, <2>1, <2>2, <2>3, <2>4 DEF Restart
<1>4. ASSUME NEW c \in Client, Reject(c)
      PROVE  TypeOK'
  BY <1>4 DEF Reject
<1>5. ASSUME NEW c \in Client, Accept(c)
      PROVE  TypeOK'
  <2>1. AfterSeq(c) \in 0..MaxSeq
    BY DEF AfterSeq
  <2>2. QED
    BY <1>5, <2>1 DEF Accept
<1>6. ASSUME NEW c \in Client, StartEvicted(c)
      PROVE  TypeOK'
  <2>1. Append(wire[c], ErrorFrame) \in Seq(0..MaxSeq)
    BY DEF ErrorFrame
  <2>2. QED
    BY <1>6, <2>1 DEF StartEvicted
<1>7. ASSUME NEW c \in Client, Start(c)
      PROVE  TypeOK'
  BY <1>7, WalkType DEF Start
<1>8. ASSUME NEW c \in Client, Resume(c)
      PROVE  TypeOK'
  <2>1. snap[c] \in Seq(1..MaxSeq)
    OBVIOUS
  <2>2. QED
    BY <1>8, <2>1, WalkType DEF Resume
<1>9. ASSUME NEW c \in Client, Wake(c)
      PROVE  TypeOK'
  BY <1>9, WalkType DEF Wake
<1>10. ASSUME NEW c \in Client, DeliverError(c)
       PROVE  TypeOK'
  <2>1. Tail(wire[c]) \in Seq(0..MaxSeq)
    BY <1>10 DEF DeliverError
  <2>2. QED
    BY <1>10, <2>1 DEF DeliverError
<1>11. ASSUME NEW c \in Client, Deliver(c)
       PROVE  TypeOK'
  <2>0. /\ wire[c] \in Seq(0..MaxSeq) /\ wire[c] # <<>> /\ Head(wire[c]) # 0
        /\ wire' = [wire EXCEPT ![c] = Tail(wire[c])]
        /\ lastId' = [lastId EXCEPT ![c] = Head(wire[c])]
    BY <1>11 DEF Deliver, ErrorFrame
  <2>1. Tail(wire[c]) \in Seq(0..MaxSeq) /\ Head(wire[c]) \in 1..MaxSeq
    BY <2>0, HeadTail
  <2>2. wire' \in [Client -> Seq(0..MaxSeq)]
    BY <2>0, <2>1
  <2>3. lastId' \in [Client -> 0..MaxSeq]
    <3>1. Head(wire[c]) \in 0..MaxSeq
      BY <2>1
    <3>2. QED
      BY <2>0, <3>1
  <2>4. got' \in [Client -> SUBSET (1..MaxSeq)]
    <3>1. got[c] \cup {Head(wire[c])} \in SUBSET (1..MaxSeq)
      BY <2>1
    <3>2. QED
      BY <1>11, <3>1 DEF Deliver
  <2>5. UNCHANGED <<logVars, gen, snap, cursor, phase, floor, drops, restarts>>
    BY <1>11 DEF Deliver
  <2>6. QED
    BY <2>2, <2>3, <2>4, <2>5
<1>12. ASSUME NEW c \in Client, EndOfStream(c)
       PROVE  TypeOK'
  BY <1>12 DEF EndOfStream
<1>13. ASSUME NEW c \in Client, Drop(c)
       PROVE  TypeOK'
  <2>1. <<>> \in Seq(1..MaxSeq) /\ <<>> \in Seq(0..MaxSeq)
    OBVIOUS
  <2>2. /\ phase' \in [Client -> {"connecting", "streaming", "failed"}]
        /\ gen' \in [Client -> {"none", "open", "yielded", "waiting", "ended"}]
    BY <1>13 DEF Drop
  <2>3. snap' \in [Client -> Seq(1..MaxSeq)]
    BY <1>13, <2>1 DEF Drop
  <2>4. wire' \in [Client -> Seq(0..MaxSeq)]
    BY <1>13, <2>1 DEF Drop
  <2>5. drops' \in 0..MaxDrops
    BY <1>13 DEF Drop
  <2>6. UNCHANGED <<logVars, cursor, lastId, got, floor, restarts>>
    BY <1>13 DEF Drop
  <2>7. QED
    BY <2>2, <2>3, <2>4, <2>5, <2>6
<1>14. ASSUME NEW c \in Client, Reload(c)
       PROVE  TypeOK'
  BY <1>14 DEF Reload
<1>15. CASE UNCHANGED vars
  BY <1>15 DEF vars
<1>16. QED
  BY <1>1, <1>2, <1>3, <1>4, <1>5, <1>6, <1>7, <1>8, <1>9, <1>10, <1>11,
     <1>12, <1>13, <1>14, <1>15 DEF Next, ClientStep

-----------------------------------------------------------------------------
(* The ring. *)

\* What an append does to an interval that ends at the newest event.
LEMMA AppendRing ==
  ASSUME TypeOK, RingShape, LogAppend
  PROVE  /\ RingShape'
         /\ LastSeq' = LastSeq + 1
         /\ InRing' \subseteq InRing \cup {LastSeq'}
<1> USE CapAssumption, MaxSeqAssumption
<1>1. /\ nextSeq \in 1..MaxSeq
      /\ nextSeq' = nextSeq + 1
      /\ buf' = Pushed(buf, nextSeq)
      /\ buf \in Seq(1..MaxSeq)
  BY DEF LogAppend, TypeOK, LogTypeOK
<1>2. /\ buf' \in Seq(1..MaxSeq)
      /\ Len(buf') = IF Len(buf) < Cap THEN Len(buf) + 1 ELSE Cap
      /\ buf'[Len(buf')] = nextSeq
      /\ \A i \in 1..(Len(buf') - 1) :
           buf'[i] = IF Len(buf) < Cap THEN buf[i] ELSE buf[i + 1]
  <2>1. Len(buf) <= Cap
    BY DEF RingShape
  <2> DEFINE p == Pushed(buf, nextSeq)
  <2>2. /\ p \in Seq(1..MaxSeq)
        /\ Len(p) = IF Len(buf) < Cap THEN Len(buf) + 1 ELSE Cap
        /\ p[Len(p)] = nextSeq
        /\ \A i \in 1..(Len(p) - 1) :
             p[i] = IF Len(buf) < Cap THEN buf[i] ELSE buf[i + 1]
    BY <1>1, <2>1, PushedSeq, Zenon
  <2>3. QED
    BY <1>1, <2>2, Zenon
<1>3. LastSeq' = LastSeq + 1 /\ LastSeq \in Nat /\ Len(buf) \in Nat
  BY <1>1 DEF LastSeq
<1>4. \A i \in 1..Len(buf') : buf'[i] = LastSeq' - Len(buf') + i
  <2> SUFFICES ASSUME NEW i \in 1..Len(buf')
               PROVE  buf'[i] = LastSeq' - Len(buf') + i
    OBVIOUS
  <2>1. CASE i = Len(buf')
    BY <1>1, <1>2, <2>1, <1>3 DEF LastSeq
  <2>2. CASE i # Len(buf')
    <3>1. i \in 1..(Len(buf') - 1)
      BY <2>2, <1>2, <1>3
    <3>2. CASE Len(buf) < Cap
      BY <3>1, <3>2, <1>2, <1>3 DEF RingShape
    <3>3. CASE ~(Len(buf) < Cap)
      <4>1. Len(buf) = Cap /\ i + 1 \in 1..Len(buf)
        BY <3>1, <3>3, <1>2, <1>3 DEF RingShape
      <4>2. QED
        BY <3>1, <3>3, <4>1, <1>2, <1>3 DEF RingShape
    <3>4. QED
      BY <3>2, <3>3
  <2>3. QED
    BY <2>1, <2>2
<1>5. RingShape'
  <2>1. /\ Len(buf') <= Cap
        /\ Len(buf') <= LastSeq'
        /\ Len(buf') < Cap => Len(buf') = LastSeq'
    BY <1>2, <1>3 DEF RingShape
  <2>2. QED
    BY <2>1, <1>4, Zenon DEF RingShape
<1>6. InRing' \subseteq InRing \cup {LastSeq'}
  <2>1. DOMAIN buf' = 1..Len(buf') /\ DOMAIN buf = 1..Len(buf) /\ Len(buf') \in Nat
    BY <1>1, <1>2
  <2>2. buf'[Len(buf')] = LastSeq'
    BY <1>1, <1>2 DEF LastSeq
  <2>3. ASSUME NEW i \in 1..(Len(buf') - 1) PROVE buf'[i] \in InRing
    <3>1. CASE Len(buf) < Cap
      <4>1. i \in 1..Len(buf) /\ buf'[i] = buf[i]
        BY <1>2, <1>3, <2>3, <3>1
      <4> QED
        BY <2>1, <4>1, Zenon DEF InRing
    <3>2. CASE ~(Len(buf) < Cap)
      <4>1. i + 1 \in 1..Len(buf) /\ buf'[i] = buf[i + 1]
        BY <1>2, <1>3, <2>3, <3>2 DEF RingShape
      <4> QED
        BY <2>1, <4>1, Zenon DEF InRing
    <3> QED
      BY <3>1, <3>2
  <2>4. ASSUME NEW i \in DOMAIN buf' PROVE buf'[i] \in InRing \cup {LastSeq'}
    <3>1. i = Len(buf') \/ i \in 1..(Len(buf') - 1)
      BY <2>1, <2>4
    <3> QED
      BY <2>2, <2>3, <3>1, Zenon
  <2> QED
    BY <2>4, Zenon DEF InRing
<1>7. QED
  BY <1>3, <1>5, <1>6

LEMMA RingUnchanged ==
  ASSUME UNCHANGED <<nextSeq, buf>>
  PROVE  /\ RingShape => RingShape'
         /\ LastSeq' = LastSeq
         /\ InRing' = InRing
BY DEF RingShape, LastSeq, InRing

\* The steps of a client leave the ring alone.
LEMMA ClientLeavesRing ==
  ASSUME NEW c \in Client, ClientStep(c) \/ Drop(c) \/ Reload(c)
  PROVE  UNCHANGED <<nextSeq, buf>>
BY DEF ClientStep, Reject, Accept, StartEvicted, Start, Resume, Wake,
       DeliverError, Deliver, EndOfStream, Drop, Reload, logVars

LEMMA StepRing ==
  ASSUME TypeOK, RingShape, [Next]_vars
  PROVE  RingShape'
<1>1. CASE Append1
  BY <1>1, AppendRing DEF Append1
<1>2. CASE CloseLog
  BY <1>2, RingUnchanged DEF CloseLog, LogClose
<1>3. CASE Restart
  BY <1>3, CapAssumption DEF Restart, RingShape, LastSeq
<1>4. ASSUME NEW c \in Client, ClientStep(c) \/ Drop(c) \/ Reload(c)
      PROVE  RingShape'
  BY <1>4, ClientLeavesRing, RingUnchanged
<1>5. CASE UNCHANGED vars
  BY <1>5, RingUnchanged DEF vars, logVars
<1>6. QED
  BY <1>1, <1>2, <1>3, <1>4, <1>5 DEF Next

\* The interval reading of the ring, as the property states it.
LEMMA RingIsInterval ==
  ASSUME TypeOK, RingShape
  PROVE  InRing = {s \in 1..LastSeq : s > LastSeq - Len(buf)}
<1>1. Len(buf) \in Nat /\ LastSeq \in Nat /\ DOMAIN buf = 1..Len(buf)
  BY MaxSeqAssumption DEF TypeOK, LogTypeOK, LastSeq
<1>2. ASSUME NEW s \in InRing
      PROVE  s \in 1..LastSeq /\ s > LastSeq - Len(buf)
  BY <1>1, <1>2 DEF InRing, RingShape
<1>3. ASSUME NEW s \in 1..LastSeq, s > LastSeq - Len(buf)
      PROVE  s \in InRing
  <2> DEFINE k == s - (LastSeq - Len(buf))
  <2>1. k \in 1..Len(buf) /\ LastSeq - Len(buf) + k = s
    BY <1>1, <1>3
  <2>2. buf[k] = LastSeq - Len(buf) + k
    BY <2>1, Zenon DEF RingShape
  <2>3. QED
    BY <1>1, <2>1, <2>2, Zenon DEF InRing
<1>4. QED
  BY <1>2, <1>3

-----------------------------------------------------------------------------
(* The walk of a generator over its copy. *)

\* What the walk may assume of its list: an interval of published events that
\* is the ring itself or reaches down to the cursor.
WalkList(c, list) ==
  /\ list \in Seq(1..MaxSeq)
  /\ \A i, j \in DOMAIN list : list[j] - list[i] = j - i
  /\ \A i \in DOMAIN list : list[i] <= LastSeq
  /\ list = buf \/ (list # <<>> /\ list[1] <= cursor[c])

LEMMA RingIsList ==
  ASSUME TypeOK, RingShape, NEW c \in Client
  PROVE  WalkList(c, buf)
<1>1. /\ buf \in Seq(1..MaxSeq) /\ Len(buf) \in Nat /\ LastSeq \in Int
      /\ DOMAIN buf = 1..Len(buf) /\ Len(buf) <= LastSeq
  BY DEF TypeOK, LogTypeOK, LastSeq, RingShape
<1>2. \A i \in 1..Len(buf) : buf[i] = LastSeq - Len(buf) + i
  BY Zenon DEF RingShape
<1>3. \A i, j \in DOMAIN buf : buf[j] - buf[i] = j - i
  BY <1>1, <1>2
<1>4. \A i \in DOMAIN buf : buf[i] <= LastSeq
  BY <1>1, <1>2
<1>5. QED
  BY <1>1, <1>3, <1>4 DEF WalkList

\* The event handed out is the next one the ring holds beyond the cursor.
LEMMA WalkSkipsNothing ==
  ASSUME TypeOK, RingShape, NEW c \in Client, NEW list, WalkList(c, list),
         NEW i \in Pending(c, list), \A j \in Pending(c, list) : i <= j,
         NEW s \in InRing, cursor[c] < s
  PROVE  list[i] <= s
<1> USE MaxSeqAssumption
<1>1. /\ list \in Seq(1..MaxSeq) /\ i \in 1..Len(list) /\ list[i] \in 1..MaxSeq
      /\ cursor[c] \in 0..MaxSeq /\ list[i] > cursor[c] /\ Len(list) \in Nat
  <2>1. list \in Seq(1..MaxSeq)
    BY DEF WalkList
  <2>2. i \in DOMAIN list /\ list[i] > cursor[c]
    BY DEF Pending
  <2>3. cursor[c] \in 0..MaxSeq
    BY DEF TypeOK
  <2>4. QED
    BY <2>1, <2>2, <2>3
<1>2. s \in Int
  BY RingIsInterval
<1>3. CASE i = 1
  <2>1. list = buf
    BY <1>1, <1>3 DEF WalkList
  <2>2. PICK j \in 1..Len(buf) : buf[j] = s
    BY <1>1, <2>1 DEF InRing
  <2>3. j \in 1..Len(list) /\ list[j] = s
    BY <2>1, <2>2
  <2>4. list[j] - list[i] = j - i
    BY <1>1, <2>3, SMTT(30) DEF WalkList
  <2>5. j - i >= 0
    BY <1>1, <1>3, <2>3
  <2> DEFINE first == list[i]
  <2>6. s - first = j - i /\ first \in Int /\ i \in Int /\ j \in Int
    BY <1>1, <2>3, <2>4
  <2> HIDE DEF first
  <2>7. first <= s
    BY <1>2, <2>5, <2>6
  <2>8. QED
    BY <2>7 DEF first
<1>4. CASE i # 1
  <2>1. i - 1 \in 1..Len(list) /\ ~(i <= i - 1)
    BY <1>1, <1>4
  <2>2. i - 1 \notin Pending(c, list)
    BY <2>1
  <2>3. list[i - 1] <= cursor[c] /\ list[i - 1] \in 1..MaxSeq
    <3>0. DOMAIN list = 1..Len(list) /\ \A j \in 1..Len(list) : list[j] \in 1..MaxSeq
      BY <1>1, SMTT(20)
    <3>1. i - 1 \in DOMAIN list /\ list[i - 1] \in 1..MaxSeq
      BY <2>1, <3>0
    <3>2. ~(list[i - 1] > cursor[c])
      BY <3>1, <2>2, Zenon DEF Pending
    <3>3. QED
      BY <3>1, <3>2, <1>1
  <2>4. list[i] - list[i - 1] = i - (i - 1)
    BY <1>1, <2>1, SMTT(30) DEF WalkList
  <2>5. list[i] = list[i - 1] + 1
    BY <1>1, <2>3, <2>4, SMTT(30)
  <2>6. PICK x \in Int, y \in Int, z \in Int :
          x = list[i] /\ y = list[i - 1] /\ z = cursor[c]
    BY <1>1, <2>3
  <2>7. x = y + 1 /\ y <= z /\ z < s
    BY <2>3, <2>5, <2>6
  <2>8. x <= s
    BY <1>2, <2>7
  <2>9. QED
    BY <2>6, <2>8
<1>5. QED
  BY <1>3, <1>4

LEMMA WalkKeeps ==
  ASSUME TypeOK, RingShape, NEW c \in Client, ClientInv(c),
         NEW list, WalkList(c, list), Walk(c, list), gen[c] # "none",
         UNCHANGED <<nextSeq, buf, closed, clientVars>>
  PROVE  ClientInv(c)'
<1> USE MaxSeqAssumption DEF clientVars
<1>1. LastSeq' = LastSeq /\ InRing' = InRing /\ LastSeq \in Int
  BY DEF LastSeq, InRing, TypeOK, LogTypeOK
<1>2. /\ wire[c] \in Seq(0..MaxSeq) /\ cursor[c] \in 0..MaxSeq
      /\ got[c] \subseteq 1..MaxSeq /\ phase[c] = "streaming"
  BY DEF TypeOK, ClientInv, WireShape
<1>3. CASE Finish(c, list) \/ Block(c, list)
  <2>1. /\ snap'[c] = <<>> /\ gen'[c] \in {"ended", "waiting"}
        /\ cursor'[c] = cursor[c] /\ wire'[c] = wire[c]
    BY <1>3 DEF Finish, Block, TypeOK
  <2>2. CopyShape(c)'
    BY <2>1 DEF CopyShape
  <2>3. WireShape(c)'
    BY <2>1, <1>2 DEF ClientInv, WireShape
  <2>4. IdShape(c)' /\ Seen(c)' /\ InFlight(c)'
    BY <2>1, <1>1 DEF ClientInv, IdShape, Seen, InFlight
  <2>5. QED
    BY <2>2, <2>3, <2>4 DEF ClientInv
<1>4. CASE Emit(c, list)
  <2>1. PICK i \in Pending(c, list) :
          /\ \A j \in Pending(c, list) : i <= j
          /\ cursor' = [cursor EXCEPT ![c] = list[i]]
          /\ wire' = [wire EXCEPT ![c] = Append(@, list[i])]
          /\ snap' = [snap EXCEPT ![c] = list]
          /\ gen' = [gen EXCEPT ![c] = "yielded"]
    BY <1>4, Zenon DEF Emit
  <2> DEFINE n == list[i]
  <2>2. /\ list \in Seq(1..MaxSeq) /\ i \in DOMAIN list /\ n \in 1..MaxSeq
        /\ n > cursor[c] /\ n <= LastSeq
    BY <1>2 DEF WalkList, Pending
  <2>3. /\ cursor'[c] = n /\ wire'[c] = Append(wire[c], n)
        /\ snap'[c] = list /\ gen'[c] = "yielded"
    BY <2>1 DEF TypeOK
  <2> HIDE DEF n
  <2>4. CopyShape(c)'
    <3>1. list # <<>> /\ list[1] <= n
      <4>1. 1 \in DOMAIN list /\ list[i] - list[1] = i - 1 /\ list[1] \in Int
        BY <2>2 DEF WalkList
      <4>2. QED
        BY <4>1, <2>2 DEF n
    <3>2. QED
      BY <2>3, <3>1, <1>1 DEF CopyShape, WalkList
  <2>5. \A k \in DOMAIN wire[c] : wire[c][k] < n
    <3> SUFFICES ASSUME NEW k \in DOMAIN wire[c] PROVE wire[c][k] < n
      OBVIOUS
    <3>1. wire[c][k] \in 0..MaxSeq
      BY <1>2
    <3>2. wire[c][k] = 0 \/ wire[c][k] <= cursor[c]
      BY DEF ClientInv, WireShape, ErrorFrame
    <3>3. PICK x \in Int, y \in Int : x = wire[c][k] /\ y = cursor[c]
      BY <1>2, <3>1
    <3>4. n \in Int /\ n > 0 /\ y < n /\ (x = 0 \/ x <= y)
      BY <2>2, <3>2, <3>3
    <3>5. x < n
      BY <3>4
    <3>6. QED
      BY <3>3, <3>5
  <2>11. /\ DOMAIN wire'[c] = 1..(Len(wire[c]) + 1)
         /\ \A k \in DOMAIN wire[c] : wire'[c][k] = wire[c][k]
         /\ wire'[c][Len(wire[c]) + 1] = n
         /\ DOMAIN wire[c] = 1..Len(wire[c]) /\ Len(wire[c]) \in Nat
    <3>1. wire[c] \in Seq(0..MaxSeq) /\ n \in 0..MaxSeq
      BY <1>2, <2>2
    <3>2. DOMAIN wire[c] = 1..Len(wire[c]) /\ Len(wire[c]) \in Nat
      BY <3>1
    <3>3. /\ DOMAIN Append(wire[c], n) = 1..(Len(wire[c]) + 1)
          /\ Append(wire[c], n)[Len(wire[c]) + 1] = n
      BY <3>1
    <3>4. \A k \in 1..Len(wire[c]) : Append(wire[c], n)[k] = wire[c][k]
      BY <3>1
    <3>5. QED
      BY <2>3, <3>2, <3>3, <3>4
  <2>6. WireShape(c)'
    <3>2. \A k, l \in DOMAIN wire'[c] : k < l => wire'[c][k] < wire'[c][l]
      <4> SUFFICES ASSUME NEW k \in DOMAIN wire'[c], NEW l \in DOMAIN wire'[c], k < l
                   PROVE  wire'[c][k] < wire'[c][l]
        OBVIOUS
      <4>1. k \in DOMAIN wire[c]
        BY <2>11
      <4>2. CASE l \in DOMAIN wire[c]
        BY <2>11, <4>1, <4>2 DEF ClientInv, WireShape
      <4>3. CASE l = Len(wire[c]) + 1
        BY <2>11, <4>1, <4>3, <2>5
      <4>4. QED
        BY <2>11, <4>2, <4>3
    <3>3. \A k \in DOMAIN wire'[c] : wire'[c][k] # ErrorFrame =>
            wire'[c][k] <= cursor'[c] /\ \A t \in got'[c] : t < wire'[c][k]
      <4> SUFFICES ASSUME NEW k \in DOMAIN wire'[c], wire'[c][k] # ErrorFrame
                   PROVE  wire'[c][k] <= n /\ \A t \in got[c] : t < wire'[c][k]
        BY <2>3
      <4>1. CASE k \in DOMAIN wire[c]
        <5>1. wire[c][k] # ErrorFrame /\ wire[c][k] = wire'[c][k]
          BY <2>11, <4>1
        <5>2. \A t \in got[c] : t < wire[c][k]
          BY <4>1, <5>1 DEF ClientInv, WireShape
        <5>3. wire[c][k] \in 0..MaxSeq /\ wire[c][k] < n
          BY <4>1, <1>2, <2>5
        <5>4. QED
          BY <5>1, <5>2, <5>3, <2>2
      <4>2. CASE k = Len(wire[c]) + 1
        <5>1. wire'[c][k] = n
          BY <2>11, <4>2
        <5>2. \A t \in got[c] : t <= cursor[c] /\ t \in 1..MaxSeq
          BY <1>2 DEF ClientInv, IdShape
        <5>3. n \in Int /\ cursor[c] \in Int /\ n > cursor[c]
          BY <1>2, <2>2
        <5>4. \A t \in got[c] : t < n
          BY <5>2, <5>3
        <5>5. QED
          BY <5>1, <5>3, <5>4
      <4>3. QED
        BY <2>11, <4>1, <4>2
    <3>4. QED
      BY <3>2, <3>3, <1>2, <2>3 DEF WireShape
  <2>7. IdShape(c)'
    <3>1. \A t \in got[c] : t <= n
      BY <1>2, <2>2 DEF ClientInv, IdShape
    <3>2. QED
      BY <3>1, <2>2, <2>3, <1>1 DEF ClientInv, IdShape
  <2>8. Seen(c)'
    BY <1>1 DEF ClientInv, Seen
  <2>9. InFlight(c)'
    <3> SUFFICES ASSUME NEW s \in InRing, floor[c] < s, s <= n
                 PROVE  s \in got[c] \/ \E k \in DOMAIN wire'[c] : wire'[c][k] = s
      BY <1>1, <2>3 DEF InFlight
    <3>1. /\ DOMAIN wire'[c] = 1..(Len(wire[c]) + 1)
          /\ \A k \in DOMAIN wire[c] : k \in DOMAIN wire'[c] /\ wire'[c][k] = wire[c][k]
          /\ wire'[c][Len(wire[c]) + 1] = n
          /\ Len(wire[c]) + 1 \in DOMAIN wire'[c]
      BY <2>11
    <3>2. s \in Int
      BY RingIsInterval
    <3>3. CASE s <= cursor[c]
      <4>1. s \in got[c] \/ \E k \in DOMAIN wire[c] : wire[c][k] = s
        BY <3>3, <1>2 DEF ClientInv, InFlight
      <4>2. QED
        BY <3>1, <4>1
    <3>4. CASE cursor[c] < s
      <4>1. n <= s
        BY <3>4, <2>1, WalkSkipsNothing DEF n
      <4>2. s = n
        BY <4>1, <3>2, <2>2
      <4>3. QED
        BY <4>2, <3>1
    <3>5. QED
      BY <3>2, <3>3, <3>4, <1>2
  <2>10. QED
    BY <2>4, <2>6, <2>7, <2>8, <2>9 DEF ClientInv
<1>5. QED
  BY <1>3, <1>4 DEF Walk

-----------------------------------------------------------------------------
(* Every other step, for one client. *)

\* A step that leaves the ring and d alone.
LEMMA OthersUntouched ==
  ASSUME NEW d \in Client, ClientInv(d), UNCHANGED <<nextSeq, buf>>,
         snap'[d] = snap[d], gen'[d] = gen[d], cursor'[d] = cursor[d],
         wire'[d] = wire[d], phase'[d] = phase[d], lastId'[d] = lastId[d],
         got'[d] = got[d], floor'[d] = floor[d]
  PROVE  ClientInv(d)'
<1>1. LastSeq' = LastSeq /\ InRing' = InRing
  BY RingUnchanged
<1>2. CopyShape(d)'
  BY <1>1 DEF ClientInv, CopyShape
<1>3. WireShape(d)'
  BY <1>1 DEF ClientInv, WireShape
<1>4. IdShape(d)'
  BY <1>1 DEF ClientInv, IdShape
<1>5. Seen(d)' /\ InFlight(d)'
  BY <1>1 DEF ClientInv, Seen, InFlight
<1>6. QED
  BY <1>2, <1>3, <1>4, <1>5 DEF ClientInv

LEMMA OneClientMoves ==
  ASSUME TypeOK, NEW c \in Client, ClientStep(c) \/ Drop(c) \/ Reload(c),
         NEW d \in Client, d # c
  PROVE  /\ snap'[d] = snap[d] /\ gen'[d] = gen[d] /\ cursor'[d] = cursor[d]
         /\ wire'[d] = wire[d] /\ phase'[d] = phase[d]
         /\ lastId'[d] = lastId[d] /\ got'[d] = got[d] /\ floor'[d] = floor[d]
<1> USE DEF streamVars, clientVars
<1>1. CASE Start(c) \/ Resume(c) \/ Wake(c)
  <2>1. PICK list : Walk(c, list)
    BY <1>1 DEF Start, Resume, Wake
  <2>2. UNCHANGED clientVars
    BY <1>1 DEF Start, Resume, Wake
  <2>3. CASE Emit(c, list)
    BY <2>2, <2>3 DEF Emit
  <2>4. CASE Finish(c, list)
    BY <2>2, <2>4 DEF Finish
  <2>5. CASE Block(c, list)
    BY <2>2, <2>5 DEF Block
  <2>6. QED
    BY <2>1, <2>3, <2>4, <2>5 DEF Walk
<1>2. CASE Reject(c)
  BY <1>2 DEF Reject
<1>3. CASE Accept(c)
  BY <1>3 DEF Accept
<1>4. CASE StartEvicted(c)
  BY <1>4 DEF StartEvicted
<1>5. CASE DeliverError(c)
  BY <1>5 DEF DeliverError
<1>6. CASE Deliver(c)
  BY <1>6 DEF Deliver
<1>7. CASE EndOfStream(c)
  BY <1>7 DEF EndOfStream
<1>8. CASE Drop(c)
  BY <1>8 DEF Drop
<1>9. CASE Reload(c)
  BY <1>9 DEF Reload
<1>10. QED
  BY <1>1, <1>2, <1>3, <1>4, <1>5, <1>6, <1>7, <1>8, <1>9 DEF ClientStep

\* Appending: the new event is beyond every cursor and every id.
LEMMA AppendKeeps ==
  ASSUME TypeOK, RingShape, LogAppend, NEW d \in Client, ClientInv(d),
         UNCHANGED <<streamVars, clientVars>>
  PROVE  ClientInv(d)'
<1> USE MaxSeqAssumption DEF streamVars, clientVars
<1>1. LastSeq' = LastSeq + 1 /\ InRing' \subseteq InRing \cup {LastSeq'} /\ LastSeq \in Int
  <2>1. LastSeq \in Int
    BY DEF TypeOK, LogTypeOK, LastSeq
  <2>2. QED
    BY <2>1, AppendRing
<1>2. /\ snap[d] \in Seq(1..MaxSeq) /\ got[d] \subseteq 1..MaxSeq
      /\ cursor[d] \in 0..MaxSeq /\ lastId[d] \in 0..MaxSeq
  BY DEF TypeOK
<1>3. CopyShape(d)'
  <2>1. \A i \in DOMAIN snap[d] : snap[d][i] <= LastSeq + 1
    BY <1>1, <1>2 DEF ClientInv, CopyShape
  <2>2. QED
    BY <1>1, <2>1 DEF ClientInv, CopyShape
<1>4. WireShape(d)'
  BY DEF ClientInv, WireShape
<1>5. IdShape(d)'
  <2>1. \A t \in got[d] : t <= LastSeq + 1
    BY <1>1, <1>2 DEF ClientInv, IdShape
  <2>2. phase[d] = "streaming" => cursor[d] <= LastSeq + 1
    BY <1>1, <1>2 DEF ClientInv, IdShape
  <2>3. QED
    BY <1>1, <2>1, <2>2 DEF ClientInv, IdShape
<1>6. Seen(d)'
  <2>1. lastId[d] \in got[d] => ~(LastSeq' <= lastId[d])
    BY <1>1, <1>2 DEF ClientInv, IdShape
  <2>2. QED
    BY <1>1, <2>1 DEF ClientInv, Seen
<1>7. InFlight(d)'
  <2>1. phase[d] = "streaming" => ~(LastSeq' <= cursor[d])
    BY <1>1, <1>2 DEF ClientInv, IdShape
  <2>2. QED
    BY <1>1, <2>1 DEF ClientInv, InFlight
<1>8. QED
  BY <1>3, <1>4, <1>5, <1>6, <1>7 DEF ClientInv

\* A new process: an empty ring, nobody connected, nothing received from it.
LEMMA RestartKeeps ==
  ASSUME TypeOK, Restart, NEW d \in Client, ClientInv(d)
  PROVE  ClientInv(d)'
<1>1. /\ snap'[d] = <<>> /\ wire'[d] = <<>> /\ gen'[d] = "none" /\ got'[d] = {}
      /\ phase'[d] # "streaming"
  BY DEF Restart
<1>2. InRing' = {}
  BY DEF Restart, InRing
<1>3. QED
  BY <1>1, <1>2 DEF ClientInv, CopyShape, WireShape, IdShape, Seen, InFlight

LEMMA AcceptKeeps ==
  ASSUME TypeOK, RingShape, NEW c \in Client, Accept(c), ClientInv(c)
  PROVE  ClientInv(c)'
<1> USE MaxSeqAssumption
<1>1. LastSeq' = LastSeq /\ InRing' = InRing /\ LastSeq \in Nat
  BY RingUnchanged DEF Accept, TypeOK, LogTypeOK, LastSeq
<1>2. /\ phase'[c] = "streaming" /\ gen'[c] = "open" /\ cursor'[c] = AfterSeq(c)
      /\ floor'[c] = IF AfterSeq(c) = 0 THEN 0
                     ELSE IF lastId[c] \in got[c] THEN floor[c] ELSE AfterSeq(c)
      /\ snap'[c] = snap[c] /\ wire'[c] = wire[c] /\ lastId'[c] = lastId[c]
      /\ got'[c] = got[c] /\ phase[c] = "connecting"
  BY DEF Accept, TypeOK
<1>3. /\ got[c] \subseteq 1..MaxSeq /\ lastId[c] \in 0..MaxSeq
      /\ floor[c] \in 0..MaxSeq
  BY DEF TypeOK
<1>4. /\ AfterSeq(c) \in 0..MaxSeq /\ AfterSeq(c) <= LastSeq
      /\ AfterSeq(c) # 0 => AfterSeq(c) = lastId[c]
  BY <1>1, <1>3 DEF AfterSeq
<1>5. lastId[c] \in got[c] => AfterSeq(c) = lastId[c]
  BY <1>1, <1>3 DEF AfterSeq, ClientInv, IdShape
<1>6. wire[c] = <<>>
  BY <1>2 DEF ClientInv, WireShape
<1>7. CopyShape(c)'
  BY <1>1, <1>2 DEF ClientInv, CopyShape
<1>8. WireShape(c)'
  BY <1>2, <1>6 DEF WireShape
<1>9. IdShape(c)'
  BY <1>1, <1>2, <1>4, <1>5 DEF ClientInv, IdShape
<1>10. Seen(c)'
  <2>1. lastId[c] \in got[c] => floor'[c] = floor[c]
    BY <1>2, <1>3, <1>5
  <2>2. QED
    BY <1>1, <1>2, <2>1 DEF ClientInv, Seen
<1>11. InFlight(c)'
  <2> SUFFICES ASSUME NEW s \in InRing, floor'[c] < s, s <= AfterSeq(c)
               PROVE  s \in got[c]
    BY <1>1, <1>2 DEF InFlight
  <2>1. s \in 1..LastSeq
    BY RingIsInterval
  <2>2. AfterSeq(c) # 0 /\ lastId[c] \in got[c]
    BY <2>1, <1>2, <1>4, <1>1
  <2>3. QED
    BY <2>1, <2>2, <1>2, <1>4 DEF ClientInv, Seen
<1>12. QED
  BY <1>7, <1>8, <1>9, <1>10, <1>11 DEF ClientInv

\* The head of the wire is the least of it and beyond all that was received.
LEMMA DeliverKeeps ==
  ASSUME TypeOK, RingShape, NEW c \in Client, Deliver(c), ClientInv(c)
  PROVE  ClientInv(c)'
<1> USE MaxSeqAssumption
<1> DEFINE w == wire[c]
           h == Head(wire[c])
<1>1. LastSeq' = LastSeq /\ InRing' = InRing /\ LastSeq \in Nat
  BY RingUnchanged DEF Deliver, TypeOK, LogTypeOK, LastSeq, logVars
<1>2. /\ w \in Seq(0..MaxSeq) /\ w # <<>> /\ h # ErrorFrame /\ phase[c] = "streaming"
      /\ wire'[c] = Tail(w) /\ lastId'[c] = h /\ got'[c] = got[c] \cup {h}
      /\ gen'[c] = gen[c] /\ snap'[c] = snap[c] /\ cursor'[c] = cursor[c]
      /\ phase'[c] = phase[c] /\ floor'[c] = floor[c]
  BY DEF Deliver, TypeOK
<1>3. /\ DOMAIN w = 1..Len(w) /\ Len(w) \in Nat \ {0} /\ h = w[1] /\ 1 \in DOMAIN w
      /\ DOMAIN Tail(w) = 1..(Len(w) - 1)
      /\ \A i \in 1..(Len(w) - 1) : Tail(w)[i] = w[i + 1] /\ i + 1 \in DOMAIN w
  BY <1>2
<1>4. /\ \A i, j \in DOMAIN w : i < j => w[i] < w[j]
      /\ h <= cursor[c] /\ \A t \in got[c] : t < h
      /\ gen[c] # "open" /\ gen[c] # "none"
  BY <1>2, <1>3 DEF ClientInv, WireShape
<1>5. /\ h \in 1..MaxSeq /\ cursor[c] \in 0..MaxSeq /\ got[c] \subseteq 1..MaxSeq
  <2>1. h \in 1..MaxSeq
    BY <1>2, HeadTail DEF ErrorFrame
  <2>2. QED
    BY <2>1 DEF TypeOK
<1>6. \A i \in 1..(Len(w) - 1) : h < Tail(w)[i]
  BY <1>3, <1>4
<1>7. CopyShape(c)'
  BY <1>1, <1>2 DEF ClientInv, CopyShape
<1> HIDE DEF w, h
<1>8. WireShape(c)'
  <2>1. \A i, j \in DOMAIN wire'[c] : i < j => wire'[c][i] < wire'[c][j]
    <3> SUFFICES ASSUME NEW i \in 1..(Len(w) - 1), NEW j \in 1..(Len(w) - 1), i < j
                 PROVE  Tail(w)[i] < Tail(w)[j]
      BY <1>2, <1>3
    <3>1. i + 1 \in DOMAIN w /\ j + 1 \in DOMAIN w /\ i + 1 < j + 1
      BY <1>3
    <3>2. QED
      BY <3>1, <1>3, <1>4
  <2>2. \A i \in DOMAIN wire'[c] : wire'[c][i] # ErrorFrame =>
          wire'[c][i] <= cursor'[c] /\ \A t \in got'[c] : t < wire'[c][i]
    <3> SUFFICES ASSUME NEW i \in 1..(Len(w) - 1), w[i + 1] # ErrorFrame
                 PROVE  w[i + 1] <= cursor[c] /\ \A t \in got[c] \cup {h} : t < w[i + 1]
      BY <1>2, <1>3
    <3>1. w[i + 1] <= cursor[c] /\ \A t \in got[c] : t < w[i + 1]
      BY <1>3 DEF ClientInv, WireShape, w
    <3>2. h < w[i + 1]
      BY <1>3, <1>6
    <3>3. QED
      BY <3>1, <3>2
  <2>3. QED
    BY <2>1, <2>2, <1>2, <1>4 DEF ClientInv, WireShape
<1>9. IdShape(c)'
  <2>1. cursor[c] <= LastSeq
    BY <1>2 DEF ClientInv, IdShape
  <2>2. \A t \in got[c] \cup {h} : t <= h /\ t <= LastSeq /\ t <= cursor[c]
    BY <1>1, <1>4, <1>5, <2>1
  <2>3. QED
    BY <1>1, <1>2, <2>1, <2>2 DEF IdShape
<1>10. \A s \in InRing : (floor[c] < s /\ s <= cursor[c])
         => s \in got[c] \/ \E i \in DOMAIN w : w[i] = s
  BY <1>2 DEF ClientInv, InFlight, w
<1>11. InRing \subseteq Nat
  BY RingIsInterval
<1>12. Seen(c)'
  <2> SUFFICES ASSUME NEW s \in InRing, floor[c] < s, s <= h, s \notin got[c]
               PROVE  s = h
    BY <1>1, <1>2 DEF Seen
  <2>1. PICK i \in DOMAIN w : w[i] = s
    BY <1>4, <1>5, <1>10, <1>11
  <2>2. i = 1 \/ h < w[i]
    BY <1>3, <1>4
  <2>3. QED
    BY <2>1, <2>2, <1>3, <1>5, <1>11
<1>13. InFlight(c)'
  <2> SUFFICES ASSUME NEW s \in InRing, floor[c] < s, s <= cursor[c],
                      s \notin got[c], s # h
               PROVE  \E i \in DOMAIN Tail(w) : Tail(w)[i] = s
    BY <1>1, <1>2 DEF InFlight
  <2>1. PICK i \in DOMAIN w : w[i] = s
    BY <1>10
  <2>2. i # 1 /\ i - 1 \in 1..(Len(w) - 1) /\ (i - 1) + 1 = i
    BY <2>1, <1>3
  <2>3. Tail(w)[i - 1] = w[i]
    BY <2>2, <1>3
  <2>4. QED
    BY <2>1, <2>2, <2>3, <1>3
<1>14. QED
  BY <1>7, <1>8, <1>9, <1>12, <1>13 DEF ClientInv

LEMMA MovingClientKeeps ==
  ASSUME TypeOK, RingShape, NEW c \in Client, ClientInv(c),
         ClientStep(c) \/ Drop(c) \/ Reload(c)
  PROVE  ClientInv(c)'
<1> USE MaxSeqAssumption
<1>1. LastSeq' = LastSeq /\ InRing' = InRing
  BY ClientLeavesRing, RingUnchanged
<1>2. CASE Reject(c)
  <2>1. phase[c] = "connecting" /\ phase'[c] = "failed"
    BY <1>2 DEF Reject, TypeOK
  <2>2. /\ snap'[c] = snap[c] /\ gen'[c] = gen[c] /\ cursor'[c] = cursor[c]
        /\ wire'[c] = wire[c] /\ lastId'[c] = lastId[c] /\ got'[c] = got[c]
        /\ floor'[c] = floor[c]
    BY <1>2 DEF Reject, streamVars
  <2>3. QED
    BY <1>1, <2>1, <2>2 DEF ClientInv, CopyShape, WireShape, IdShape, Seen, InFlight
<1>3. CASE Accept(c)
  BY <1>3, AcceptKeeps
<1>4. CASE StartEvicted(c)
  <2>1. /\ wire'[c] = Append(wire[c], ErrorFrame) /\ gen'[c] = "ended" /\ gen[c] = "open"
        /\ snap'[c] = snap[c] /\ cursor'[c] = cursor[c] /\ lastId'[c] = lastId[c]
        /\ got'[c] = got[c] /\ floor'[c] = floor[c] /\ phase'[c] = phase[c]
    BY <1>4 DEF StartEvicted, TypeOK, clientVars
  <2>2. wire[c] = <<>> /\ phase[c] = "streaming"
    BY <2>1 DEF ClientInv, WireShape
  <2>3. wire'[c] = <<ErrorFrame>>
    BY <2>1, <2>2
  <2>4. WireShape(c)'
    <3>1. DOMAIN wire'[c] = {1} /\ wire'[c][1] = ErrorFrame
      BY <2>3
    <3>2. QED
      BY <3>1, <2>1, <2>2 DEF WireShape
  <2>5. CopyShape(c)'
    BY <1>1, <2>1 DEF ClientInv, CopyShape
  <2>6. IdShape(c)'
    BY <1>1, <2>1 DEF ClientInv, IdShape
  <2>7. Seen(c)'
    BY <1>1, <2>1 DEF ClientInv, Seen
  <2>8. InFlight(c)'
    BY <1>1, <2>1, <2>2 DEF ClientInv, InFlight
  <2>9. QED
    BY <2>4, <2>5, <2>6, <2>7, <2>8 DEF ClientInv
<1>5. CASE Start(c)
  <2>1. WalkList(c, buf)
    BY RingIsList
  <2>2. QED
    BY <1>5, <2>1, WalkKeeps DEF Start
<1>6. CASE Resume(c)
  <2>1. WalkList(c, snap[c])
    BY <1>6 DEF Resume, WalkList, ClientInv, CopyShape, TypeOK
  <2>2. QED
    BY <1>6, <2>1, WalkKeeps DEF Resume
<1>7. CASE Wake(c)
  <2>1. WalkList(c, buf)
    BY RingIsList
  <2>2. QED
    BY <1>7, <2>1, WalkKeeps DEF Wake
<1>8. CASE DeliverError(c)
  <2>1. /\ wire[c] \in Seq(0..MaxSeq) /\ wire[c] # <<>> /\ wire'[c] = Tail(wire[c])
        /\ phase[c] = "streaming" /\ wire[c][1] = ErrorFrame
        /\ snap'[c] = snap[c] /\ cursor'[c] = cursor[c] /\ lastId'[c] = lastId[c]
        /\ got'[c] = got[c] /\ floor'[c] = floor[c] /\ phase'[c] = phase[c]
        /\ gen'[c] = gen[c]
    BY <1>8 DEF DeliverError, TypeOK, clientVars
  <2> DEFINE w == wire[c]
  <2>2. /\ DOMAIN w = 1..Len(w) /\ Len(w) \in Nat \ {0} /\ 1 \in DOMAIN w
        /\ DOMAIN Tail(w) = 1..(Len(w) - 1)
        /\ \A i \in 1..(Len(w) - 1) : Tail(w)[i] = w[i + 1] /\ i + 1 \in DOMAIN w
    BY <2>1
  <2>3. \A i, j \in DOMAIN w : i < j => w[i] < w[j]
    BY DEF ClientInv, WireShape
  <2>4. gen[c] # "open" /\ gen[c] # "none"
    BY <2>1 DEF ClientInv, WireShape
  <2> HIDE DEF w
  <2>5. WireShape(c)'
    <3>1. \A i, j \in DOMAIN wire'[c] : i < j => wire'[c][i] < wire'[c][j]
      <4> SUFFICES ASSUME NEW i \in 1..(Len(w) - 1), NEW j \in 1..(Len(w) - 1), i < j
                   PROVE  Tail(w)[i] < Tail(w)[j]
        BY <2>1, <2>2 DEF w
      <4>1. i + 1 \in DOMAIN w /\ j + 1 \in DOMAIN w /\ i + 1 < j + 1
        BY <2>2
      <4>2. QED
        BY <4>1, <2>2, <2>3
    <3>2. \A i \in DOMAIN wire'[c] : wire'[c][i] # ErrorFrame =>
            wire'[c][i] <= cursor'[c] /\ \A t \in got'[c] : t < wire'[c][i]
      <4> SUFFICES ASSUME NEW i \in 1..(Len(w) - 1), w[i + 1] # ErrorFrame
                   PROVE  w[i + 1] <= cursor[c] /\ \A t \in got[c] : t < w[i + 1]
        BY <2>1, <2>2 DEF w
      <4>1. QED
        BY <2>2 DEF ClientInv, WireShape, w
    <3>3. QED
      BY <3>1, <3>2, <2>1, <2>4 DEF ClientInv, WireShape
  <2>6. CopyShape(c)'
    BY <1>1, <2>1 DEF ClientInv, CopyShape
  <2>7. IdShape(c)'
    BY <1>1, <2>1 DEF ClientInv, IdShape
  <2>8. Seen(c)'
    BY <1>1, <2>1 DEF ClientInv, Seen
  <2>9. InFlight(c)'
    <3> SUFFICES ASSUME NEW s \in InRing, floor[c] < s, s <= cursor[c], s \notin got[c]
                 PROVE  \E i \in DOMAIN Tail(w) : Tail(w)[i] = s
      BY <1>1, <2>1 DEF InFlight, w
    <3>1. PICK i \in DOMAIN w : w[i] = s
      BY <2>1 DEF ClientInv, InFlight, w
    <3>2. s \in 1..LastSeq
      BY RingIsInterval
    <3>3. i # 1
      BY <3>1, <3>2, <2>1 DEF ErrorFrame, w
    <3>4. i - 1 \in 1..(Len(w) - 1) /\ (i - 1) + 1 = i
      BY <3>1, <3>3, <2>2
    <3>5. QED
      BY <3>1, <3>4, <2>2
  <2>10. QED
    BY <2>5, <2>6, <2>7, <2>8, <2>9 DEF ClientInv
<1>9. CASE Deliver(c)
  BY <1>9, DeliverKeeps
<1>10. CASE EndOfStream(c)
  <2>1. /\ phase'[c] = "connecting" /\ gen'[c] = "none" /\ wire'[c] = <<>>
        /\ snap'[c] = snap[c] /\ lastId'[c] = lastId[c]
        /\ got'[c] = got[c] /\ floor'[c] = floor[c]
    BY <1>10 DEF EndOfStream, TypeOK
  <2>2. QED
    BY <1>1, <2>1 DEF ClientInv, CopyShape, WireShape, IdShape, Seen, InFlight
<1>11. CASE Drop(c)
  <2>1. /\ phase'[c] = "connecting" /\ gen'[c] = "none" /\ wire'[c] = <<>>
        /\ snap'[c] = <<>> /\ lastId'[c] = lastId[c]
        /\ got'[c] = got[c] /\ floor'[c] = floor[c]
    BY <1>11 DEF Drop, TypeOK
  <2>2. QED
    BY <1>1, <2>1 DEF ClientInv, CopyShape, WireShape, IdShape, Seen, InFlight
<1>12. CASE Reload(c)
  <2>1. /\ phase'[c] = "connecting" /\ phase[c] = "failed" /\ got'[c] = {}
        /\ gen'[c] = gen[c] /\ wire'[c] = wire[c] /\ snap'[c] = snap[c]
        /\ cursor'[c] = cursor[c]
    BY <1>12 DEF Reload, TypeOK, streamVars
  <2>2. QED
    BY <1>1, <2>1 DEF ClientInv, CopyShape, WireShape, IdShape, Seen, InFlight
<1>13. QED
  BY <1>2, <1>3, <1>4, <1>5, <1>6, <1>7, <1>8, <1>9, <1>10, <1>11, <1>12 DEF ClientStep

-----------------------------------------------------------------------------
(* The inductive invariant and the theorems. *)

LEMMA InitInv == Init => IInv
<1> SUFFICES ASSUME Init PROVE IInv
  OBVIOUS
<1>1. TypeOK
  BY InitType
<1>2. RingShape
  BY CapAssumption DEF Init, LogInit, RingShape, LastSeq
<1>3. ASSUME NEW c \in Client
      PROVE  ClientInv(c)
  BY DEF Init, LogInit, ClientInv, CopyShape, WireShape, IdShape, Seen, InFlight, InRing
<1>4. QED
  BY <1>1, <1>2, <1>3 DEF IInv

LEMMA StepInv == IInv /\ [Next]_vars => IInv'
<1> SUFFICES ASSUME IInv, [Next]_vars PROVE IInv'
  OBVIOUS
<1>1. TypeOK /\ RingShape /\ \A c \in Client : ClientInv(c)
  BY DEF IInv
<1>2. TypeOK' /\ RingShape'
  BY <1>1, StepType, StepRing
<1>3. ASSUME NEW d \in Client
      PROVE  ClientInv(d)'
  <2>1. CASE Append1
    BY <1>1, <2>1, AppendKeeps DEF Append1
  <2>2. CASE CloseLog
    BY <1>1, <2>2, OthersUntouched DEF CloseLog, LogClose, streamVars, clientVars
  <2>3. CASE Restart
    BY <1>1, <2>3, RestartKeeps
  <2>4. ASSUME NEW c \in Client, ClientStep(c) \/ Drop(c) \/ Reload(c)
        PROVE  ClientInv(d)'
    <3>1. CASE d = c
      BY <1>1, <2>4, <3>1, MovingClientKeeps
    <3>2. CASE d # c
      BY <1>1, <2>4, <3>2, OneClientMoves, ClientLeavesRing, OthersUntouched
    <3>3. QED
      BY <3>1, <3>2
  <2>5. CASE UNCHANGED vars
    BY <1>1, <2>5, OthersUntouched DEF vars, logVars, streamVars, clientVars
  <2>6. QED
    BY <2>1, <2>2, <2>3, <2>4, <2>5 DEF Next
<1>4. QED
  BY <1>2, <1>3 DEF IInv

THEOREM StreamInvariant == Spec => []IInv
BY InitInv, StepInv, PTL DEF Spec

\* Every variable of the log, the generators and the clients keeps its type.
THEOREM StreamTypeOK == Spec => []TypeOK
<1>1. IInv => TypeOK
  BY DEF IInv
<1>2. QED
  BY <1>1, StreamInvariant, PTL

\* append() and the deque: the ring is always the newest events, up to Cap.
THEOREM RingHoldsNewest == Spec => []RingIsNewestSuffix
<1>1. IInv => RingIsNewestSuffix
  <2> SUFFICES ASSUME IInv PROVE RingIsNewestSuffix
    OBVIOUS
  <2>1. /\ InRing = {s \in 1..LastSeq : s > LastSeq - Len(buf)}
        /\ Len(buf) \in Nat /\ LastSeq \in Nat
    BY RingIsInterval, MaxSeqAssumption DEF IInv, TypeOK, LogTypeOK, LastSeq
  <2>2. Len(buf) = Cap \/ (Len(buf) < Cap /\ Len(buf) = LastSeq)
    BY <2>1, CapAssumption DEF IInv, RingShape
  <2>3. QED
    BY <2>1, <2>2, CapAssumption DEF RingIsNewestSuffix
<1>2. QED
  BY <1>1, StreamInvariant, PTL

\* Reconnects, 412s and restarts never make a client pass over an event that is
\* still in the ring.
THEOREM NoEventSkipped == Spec => []NothingInRingSkipped
<1>1. IInv => NothingInRingSkipped
  BY DEF IInv, ClientInv, Seen, NothingInRingSkipped
<1>2. QED
  BY <1>1, StreamInvariant, PTL

\* What a generator has moved past is with the client or on the wire.
THEOREM NoEventLostInFlight == Spec => []NothingLostInFlight
<1>1. IInv => NothingLostInFlight
  BY DEF IInv, ClientInv, InFlight, NothingLostInFlight
<1>2. QED
  BY <1>1, StreamInvariant, PTL

\* No duplicates and no reordering in what a client yields.
THEOREM NoDuplicates == Spec => []EveryFrameIsNew
<1>1. IInv => EveryFrameIsNew
  <2> SUFFICES ASSUME IInv, NEW c \in Client, NEW i \in DOMAIN wire[c],
                      wire[c][i] # ErrorFrame
               PROVE  /\ \A t \in got[c] : t < wire[c][i]
                      /\ \A j \in 1..(i - 1) : wire[c][j] < wire[c][i]
    BY DEF EveryFrameIsNew
  <2>1. WireShape(c) /\ wire[c] \in Seq(0..MaxSeq)
    BY DEF IInv, ClientInv, TypeOK
  <2>2. i \in 1..Len(wire[c]) /\ Len(wire[c]) \in Nat
    BY <2>1
  <2>3. \A j \in 1..(i - 1) : j \in DOMAIN wire[c] /\ j < i
    BY <2>1, <2>2
  <2>4. QED
    BY <2>1, <2>3 DEF WireShape
<1>2. QED
  BY <1>1, StreamInvariant, PTL

-----------------------------------------------------------------------------
(* A 412. *)

\* The entry below the oldest one of the ring has been published, is beyond
\* the client's id, and is gone.
THEOREM RejectionIsDeserved == Spec => RejectedOnlyWhenLost
<1>1. IInv /\ [Next]_vars =>
        [\A c \in Client : phase[c] # "failed" /\ phase'[c] = "failed"
           => \E s \in 1..LastSeq : s > lastId[c] /\ s \notin InRing /\ s \notin got[c]]_vars
  <2> SUFFICES ASSUME IInv, Next, NEW c \in Client,
                      phase[c] # "failed", phase'[c] = "failed"
               PROVE  \E s \in 1..LastSeq : s > lastId[c] /\ s \notin InRing /\ s \notin got[c]
    OBVIOUS
  <2>1. TypeOK /\ RingShape /\ ClientInv(c)
    BY DEF IInv
  <2>2. Reject(c)
    <3>1. ~Append1 /\ ~CloseLog
      BY DEF Append1, CloseLog, clientVars
    <3>2. ~Restart
      BY DEF Restart
    <3>3. PICK d \in Client : ClientStep(d) \/ Drop(d) \/ Reload(d)
      BY <3>1, <3>2 DEF Next
    <3>4. d = c
      BY <2>1, <3>3, OneClientMoves
    <3>5. QED
      BY <2>1, <3>3, <3>4 DEF ClientStep, Accept, StartEvicted, Start, Resume, Wake,
         DeliverError, Deliver, EndOfStream, Drop, Reload, clientVars, TypeOK
  <2>3. /\ lastId[c] > 0 /\ lastId[c] <= LastSeq
        /\ buf # <<>> /\ lastId[c] < buf[1] - 1
        /\ lastId[c] \in Nat /\ LastSeq \in Nat
    BY <2>1, <2>2 DEF Reject, Evicted, AfterSeq, OldestSeq, TypeOK, LogTypeOK, LastSeq
  <2>4. /\ Len(buf) \in Nat \ {0} /\ buf[1] = LastSeq - Len(buf) + 1
    BY <2>1, <2>3 DEF RingShape, TypeOK, LogTypeOK
  <2> DEFINE s == LastSeq - Len(buf)
  <2>5. s \in 1..LastSeq /\ s > lastId[c]
    BY <2>3, <2>4
  <2>6. s \notin InRing
    BY <2>1, <2>4, <2>5, RingIsInterval
  <2>7. s \notin got[c]
    BY <2>1, <2>3, <2>5 DEF ClientInv, IdShape
  <2>8. QED
    BY <2>5, <2>6, <2>7
<1>2. QED
  BY <1>1, StreamInvariant, PTL DEF Spec, RejectedOnlyWhenLost

-----------------------------------------------------------------------------
(* The feed, the abstract specification of GET /stream, is implemented. *)

LEMMA FeedInitial == Init => Feed!FeedInit
BY DEF Init, LogInit, Feed!FeedInit, LastSeq

\* A frame is read: it is the next event the feed may hand out, as whatever of
\* the ring lies below it would be further up the wire or already received.
LEMMA DeliverReceives ==
  ASSUME IInv, NEW c \in Client, Deliver(c)
  PROVE  Feed!Receive(c)
<1> DEFINE w == wire[c]
           h == Head(wire[c])
<1>1. TypeOK /\ RingShape /\ WireShape(c) /\ IdShape(c) /\ InFlight(c)
  BY DEF IInv, ClientInv
<1>2. /\ w \in Seq(0..MaxSeq) /\ w # <<>> /\ h # ErrorFrame /\ phase[c] = "streaming"
      /\ got' = [got EXCEPT ![c] = @ \cup {h}] /\ floor' = floor
      /\ LastSeq' = LastSeq
  BY <1>1 DEF Deliver, TypeOK, LastSeq, logVars
<1>3. /\ DOMAIN w = 1..Len(w) /\ Len(w) \in Nat \ {0} /\ h = w[1] /\ 1 \in DOMAIN w
  BY <1>2
<1>4. /\ h <= cursor[c] /\ cursor[c] <= LastSeq /\ \A t \in got[c] : t < h
      /\ \A i \in DOMAIN w : 1 < i => h < w[i]
  BY <1>1, <1>2, <1>3 DEF WireShape, IdShape
<1>5. /\ h \in 1..MaxSeq /\ cursor[c] \in 0..MaxSeq /\ LastSeq \in Nat
      /\ floor[c] \in Nat
  <2>1. h \in 1..MaxSeq
    BY <1>2, MaxSeqAssumption, HeadTail DEF ErrorFrame
  <2>2. cursor[c] \in 0..MaxSeq /\ floor[c] \in Nat /\ nextSeq \in 1..(MaxSeq + 1)
    BY <1>1, MaxSeqAssumption DEF TypeOK, LogTypeOK
  <2>3. LastSeq \in Nat
    BY <2>2, MaxSeqAssumption DEF LastSeq
  <2>4. QED
    BY <2>1, <2>2, <2>3
<1>6. h \in 1..LastSeq
  BY <1>4, <1>5
<1> HIDE DEF w, h
<1>7. ASSUME NEW t \in (floor[c] + 1)..(h - 1), t \notin got[c]
      PROVE  t <= LastSeq - Cap
  <2>1. t \in 1..LastSeq /\ floor[c] < t /\ t < h /\ t <= cursor[c]
    BY <1>4, <1>5, <1>7
  <2>2. SUFFICES ASSUME t > LastSeq - Cap PROVE FALSE
    BY <2>1, <1>5, CapAssumption
  <2>3. t \in InRing
    <3>0. InRing = {s \in 1..LastSeq : s > LastSeq - Len(buf)}
      BY <1>1, RingIsInterval, Zenon
    <3>b. buf \in Seq(1..MaxSeq)
      BY <1>1, Zenon DEF TypeOK, LogTypeOK
    <3>1. /\ InRing = {s \in 1..LastSeq : s > LastSeq - Len(buf)}
          /\ Len(buf) \in Nat
      BY <3>0, <3>b
    <3>2. Len(buf) = Cap \/ Len(buf) = LastSeq
      BY <1>1, <3>1, CapAssumption DEF RingShape
    <3>3. QED
      BY <2>1, <2>2, <3>1, <3>2, <1>5, CapAssumption
  <2>4. PICK i \in DOMAIN w : w[i] = t
    BY <1>1, <1>2, <1>7, <2>1, <2>3 DEF InFlight, w
  <2>5. i = 1 \/ 1 < i
    BY <1>3, <2>4
  <2>6. QED
    BY <1>3, <1>4, <1>5, <2>1, <2>4, <2>5
<1>8. QED
  BY <1>2, <1>4, <1>6, <1>7, Zenon DEF Feed!Receive

\* A connection is accepted: the client presents an id only when it has nothing
\* of this process yet.
LEMMA AcceptPresents ==
  ASSUME IInv, NEW c \in Client, Accept(c)
  PROVE  Feed!Present(c) \/ UNCHANGED <<LastSeq, got, floor>>
<1>1. /\ TypeOK /\ IdShape(c)
      /\ got[c] \subseteq 1..MaxSeq /\ lastId[c] \in 0..MaxSeq
      /\ floor \in [Client -> 0..MaxSeq] /\ LastSeq \in Nat
  <2>1. TypeOK /\ IdShape(c)
    BY DEF IInv, ClientInv
  <2>2. /\ got[c] \subseteq 1..MaxSeq /\ lastId[c] \in 0..MaxSeq
        /\ floor \in [Client -> 0..MaxSeq] /\ nextSeq \in 1..(MaxSeq + 1)
    BY <2>1 DEF TypeOK, LogTypeOK
  <2>3. LastSeq \in Nat
    BY <2>2, MaxSeqAssumption DEF LastSeq
  <2>4. QED
    BY <2>1, <2>2, <2>3
<1>2. LastSeq' = LastSeq /\ got' = got
  BY DEF Accept, LastSeq
<1>3. AfterSeq(c) \in 0..MaxSeq
  BY <1>1, MaxSeqAssumption DEF AfterSeq
<1>4. floor' = [floor EXCEPT ![c] =
                  IF AfterSeq(c) = 0 THEN 0
                  ELSE IF lastId[c] \in got[c] THEN @ ELSE AfterSeq(c)]
  BY DEF Accept
<1>5. CASE got[c] = {}
  <2>1. \E id \in 0..MaxSeq : floor' = [floor EXCEPT ![c] = id]
    <3>1. CASE AfterSeq(c) = 0
      <4>1. floor' = [floor EXCEPT ![c] = AfterSeq(c)]
        BY <1>4, <3>1
      <4>2. QED
        BY <1>3, <4>1
    <3>2. CASE AfterSeq(c) # 0
      <4>1. floor' = [floor EXCEPT ![c] = AfterSeq(c)]
        BY <1>4, <1>5, <3>2
      <4>2. QED
        BY <1>3, <4>1
    <3>3. QED
      BY <3>1, <3>2
  <2>2. QED
    BY <1>2, <1>5, <2>1 DEF Feed!Present
<1>6. CASE got[c] # {}
  <2>1. lastId[c] \in got[c] /\ lastId[c] <= LastSeq /\ lastId[c] \in 1..MaxSeq
    BY <1>1, <1>6 DEF IdShape
  <2>2. AfterSeq(c) # 0
    BY <1>1, <2>1 DEF AfterSeq
  <2>3. floor' = [floor EXCEPT ![c] = floor[c]]
    BY <1>4, <2>1, <2>2
  <2>4. floor' = floor
    BY <1>1, <2>3
  <2>5. QED
    BY <1>2, <2>4
<1>7. QED
  BY <1>5, <1>6

\* Every step of the stream is a step of the feed, or invisible to it.
LEMMA FeedStep == IInv /\ [Next]_vars => [Feed!FeedNext]_(Feed!feedVars)
<1> SUFFICES ASSUME IInv, [Next]_vars
             PROVE  Feed!FeedNext \/ UNCHANGED <<LastSeq, got, floor>>
  BY DEF Feed!feedVars
<1>1. TypeOK
  BY DEF IInv
<1>2. CASE Append1
  <2>1. /\ nextSeq \in 1..MaxSeq /\ nextSeq' = nextSeq + 1
        /\ got' = got /\ floor' = floor
    BY <1>1, <1>2, MaxSeqAssumption DEF Append1, LogAppend, TypeOK, LogTypeOK, clientVars
  <2>2. Feed!Publish
    BY <2>1, MaxSeqAssumption DEF Feed!Publish, LastSeq
  <2>3. QED
    BY <2>2 DEF Feed!FeedNext
<1>3. CASE CloseLog
  BY <1>3 DEF CloseLog, LogClose, LastSeq, clientVars
<1>4. CASE Restart
  <2>1. LastSeq' = 0 /\ got' = [c \in Client |-> {}] /\ floor' \in [Client -> 0..MaxSeq]
    BY <1>1, <1>4 DEF Restart, LastSeq, TypeOK
  <2>2. Feed!NewProcess
    BY <2>1 DEF Feed!NewProcess
  <2>3. QED
    BY <2>2 DEF Feed!FeedNext
<1>5. ASSUME NEW c \in Client, Deliver(c)
      PROVE  Feed!FeedNext
  BY <1>5, DeliverReceives DEF Feed!FeedNext
<1>6. ASSUME NEW c \in Client, Accept(c)
      PROVE  Feed!FeedNext \/ UNCHANGED <<LastSeq, got, floor>>
  BY <1>6, AcceptPresents DEF Feed!FeedNext
<1>7. ASSUME NEW c \in Client, Reload(c)
      PROVE  Feed!FeedNext
  <2>1. Feed!Refresh(c)
    BY <1>7 DEF Reload, Feed!Refresh, LastSeq, logVars
  <2>2. QED
    BY <2>1 DEF Feed!FeedNext
<1>8. ASSUME NEW c \in Client,
             \/ Reject(c) \/ StartEvicted(c) \/ Start(c) \/ Resume(c) \/ Wake(c)
             \/ DeliverError(c) \/ EndOfStream(c) \/ Drop(c)
      PROVE  UNCHANGED <<LastSeq, got, floor>>
  BY <1>8 DEF Reject, StartEvicted, Start, Resume, Wake, DeliverError, EndOfStream,
     Drop, LastSeq, logVars, clientVars
<1>9. CASE UNCHANGED vars
  BY <1>9 DEF vars, logVars, clientVars, LastSeq
<1>10. QED
  BY <1>2, <1>3, <1>4, <1>5, <1>6, <1>7, <1>8, <1>9 DEF Next, ClientStep

\* Over broken connections, evictions, reloads and restarts, the stream gives
\* each client what the feed promises.
THEOREM StreamImplementsFeed == Spec => ImplementsFeed
BY FeedInitial, FeedStep, StreamInvariant, PTL DEF Spec, ImplementsFeed, Feed!FeedSpec
=============================================================================
