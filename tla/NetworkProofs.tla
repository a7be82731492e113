----------------------------- MODULE NetworkProofs -----------------------------
(***************************************************************************)
(* The safety properties of NetworkAccess for any number of requests,      *)
(* browsers and failures.                                                  *)
(*                                                                         *)
(* The argument: a request is past the lock only while it is the head of   *)
(* the line, and no request is twice in the line (LineShape).  So at most  *)
(* one request is between two calls of the SDK, and what is forwarded      *)
(* agrees with the recorded state, but for the one that is starting the    *)
(* tunnel or cleaning up after it failed to (TunnelShape).  For the codes: *)
(* only the value shown is ever being drawn (QrShape).                     *)
(***************************************************************************)
EXTENDS NetworkAccess, FiniteSetTheorems, TLAPS

CopyOf(n) ==
  [token : 0..n, configured : BOOLEAN, state : {"off", "starting", "on", "error"}, url : 0..n]
OpOf(n) == [kind : Kind \cup {"done"}, mine : BOOLEAN, at : Phase, answer : CopyOf(n)]

TypeShape ==
  /\ issued \in Nat
  /\ token \in 0..issued /\ auth \in BOOLEAN
  /\ state \in {"off", "starting", "on", "error"} /\ url \in 0..issued
  /\ meta \in CopyOf(issued)
  /\ listeners \subseteq 1..issued
  /\ ops \in Seq(OpOf(issued))
  /\ busy \in [Card -> 0..Len(ops)]
  /\ DOMAIN qr = Coded /\ DOMAIN drawing = Coded
  /\ events \in Nat /\ upsets \in 0..MaxUpset

QrShape ==
  \A c \in Coded :
    /\ drawing[c] \subseteq {Value(c, meta)}
    /\ drawing[c] = {} => qr[c] \in {<<>>, Value(c, meta)}

\* Past the lock; in its line.
Inside == {"forward", "kill", "disconnect"}
InLine == Inside \cup {"waiting"}

LineShape ==
  /\ line \in Seq(Nat)
  /\ \A k \in DOMAIN line : line[k] \in DOMAIN ops /\ ops[line[k]].at \in InLine
  /\ \A k, l \in DOMAIN line : line[k] = line[l] => k = l
  /\ \A i \in DOMAIN ops :
       /\ ops[i].at \in Inside => line # <<>> /\ line[1] = i
       /\ ops[i].at = "waiting" => \E k \in DOMAIN line : line[k] = i

TunnelShape ==
  /\ \A x, y \in listeners : x = y
  /\ \A i \in DOMAIN ops :
       /\ ops[i].at = "forward" => listeners = {} /\ state = "starting"
       /\ ops[i].at = "kill" => state = "error"
  /\ (\A i \in DOMAIN ops : ops[i].at \notin {"forward", "kill"})
       => listeners = IF state = "on" THEN {url} ELSE {}

IInv == TypeShape /\ QrShape /\ LineShape /\ TunnelShape

-----------------------------------------------------------------------------
(* Requests. *)

\* Request i goes on to one of the phases P, every other one stays as it is.
Moved(i, P) ==
  /\ ops' \in Seq(OpOf(issued'))
  /\ Len(ops') = Len(ops) /\ DOMAIN ops' = DOMAIN ops
  /\ ops'[i].at \in P
  /\ \A j \in DOMAIN ops : j # i => ops'[j] = ops[j]

\* What was issued stays issued.
LEMMA CopyGrows ==
  ASSUME NEW n \in Nat, NEW m \in Nat, n <= m
  PROVE  CopyOf(n) \subseteq CopyOf(m) /\ OpOf(n) \subseteq OpOf(m)
<1>1. 0..n \subseteq 0..m
  OBVIOUS
<1>2. CopyOf(n) \subseteq CopyOf(m)
  BY <1>1 DEF CopyOf
<1>3. OpOf(n) \subseteq OpOf(m)
  BY <1>2 DEF OpOf
<1>4. QED BY <1>2, <1>3

LEMMA OpReplaced ==
  ASSUME TypeShape, issued' \in Nat, issued <= issued',
         NEW i \in DOMAIN ops, NEW e \in OpOf(issued'), ops' = [ops EXCEPT ![i] = e]
  PROVE  Moved(i, {e.at})
<1>1. ops \in Seq(OpOf(issued))
  BY DEF TypeShape
<1>2. OpOf(issued) \subseteq OpOf(issued')
  BY CopyGrows DEF TypeShape
<1>3. /\ Len(ops') = Len(ops) /\ DOMAIN ops' = DOMAIN ops
      /\ ops'[i] = e /\ \A j \in DOMAIN ops : j # i => ops'[j] = ops[j]
  BY <1>1
<1>4. \A j \in DOMAIN ops : ops[j] \in OpOf(issued')
  BY <1>1, <1>2
<1>5. ops' \in Seq(OpOf(issued'))
  BY <1>1, <1>3, <1>4
<1>6. QED BY <1>3, <1>5 DEF Moved

\* What is remembered of a request that is over.
LEMMA OpOver ==
  ASSUME NEW n \in Nat, NEW o \in OpOf(n)
  PROVE  /\ [Op("done", o.mine) EXCEPT !.at = "over"] \in OpOf(n)
         /\ [Op("done", o.mine) EXCEPT !.at = "over"].at = "over"
<1>1. Default \in CopyOf(n)
  BY DEF Default, LanAccess, CopyOf
<1>2. "over" \in Phase /\ o.mine \in BOOLEAN
  BY DEF Phase, OpOf
<1>3. [Op("done", o.mine) EXCEPT !.at = "over"]
        = [kind |-> "done", mine |-> o.mine, at |-> "over", answer |-> Default]
  BY DEF Op
<1>4. QED BY <1>1, <1>2, <1>3 DEF OpOf

\* What the operators that move a request do to it.
LEMMA OpMoves ==
  ASSUME TypeShape, issued' \in Nat, issued <= issued', NEW i \in DOMAIN ops
  PROVE  /\ \A p \in Phase : ops' = At(i, p) => Moved(i, {p})
         /\ ops' = Over(i) => Moved(i, {"over"})
         /\ \A p \in Phase, a \in CopyOf(issued') :
              ops' = [ops EXCEPT ![i].at = p, ![i].answer = a] => Moved(i, {p})
<1>1. PICK o \in OpOf(issued') : o = ops[i]
  <2>1. ops[i] \in OpOf(issued)
    BY DEF TypeShape
  <2>2. QED BY <2>1, CopyGrows DEF TypeShape
<1>2. ASSUME NEW p \in Phase, ops' = At(i, p) PROVE Moved(i, {p})
  <2>1. ops' = [ops EXCEPT ![i] = [o EXCEPT !.at = p]]
    BY <1>1, <1>2 DEF At
  <2>2. [o EXCEPT !.at = p] \in OpOf(issued') /\ [o EXCEPT !.at = p].at = p
    BY <1>1, <1>2, SMT DEF OpOf
  <2>3. QED BY <2>1, <2>2, OpReplaced
<1>3. ASSUME ops' = Over(i) PROVE Moved(i, {"over"})
  <2>1. ops' = [ops EXCEPT ![i] = [Op("done", o.mine) EXCEPT !.at = "over"]]
    BY <1>1, <1>3 DEF Over
  <2>2. /\ [Op("done", o.mine) EXCEPT !.at = "over"] \in OpOf(issued')
        /\ [Op("done", o.mine) EXCEPT !.at = "over"].at = "over"
    BY <1>1, OpOver
  <2>3. QED BY <2>1, <2>2, OpReplaced
<1>4. ASSUME NEW p \in Phase, NEW a \in CopyOf(issued'),
             ops' = [ops EXCEPT ![i].at = p, ![i].answer = a]
      PROVE  Moved(i, {p})
  <2>1. ops' = [ops EXCEPT ![i] = [o EXCEPT !.at = p, !.answer = a]]
    <3>1. ops \in Seq(OpOf(issued))
      BY DEF TypeShape
    <3>2. QED BY <1>1, <1>4, <3>1
  <2>2. /\ [o EXCEPT !.at = p, !.answer = a] \in OpOf(issued')
        /\ [o EXCEPT !.at = p, !.answer = a].at = p
    BY <1>1, <1>4, SMT DEF OpOf
  <2>3. QED BY <2>1, <2>2, OpReplaced
<1>5. QED BY <1>2, <1>3, <1>4

\* A request is answered or refused: this page still has to hear of it.
LEMMA OpEnds ==
  ASSUME TypeShape, issued' \in Nat, issued <= issued', NEW i \in DOMAIN ops
  PROVE  /\ \A a \in CopyOf(issued') :
              Reply(i, a) => Moved(i, {"answered", "over"}) /\ events' \in Nat
         /\ \A ways : Refuse(i, ways) => Moved(i, {"failed", "over"}) /\ events' \in Nat
<1>1. "answered" \in Phase /\ "failed" \in Phase
  BY DEF Phase
<1>2. ASSUME NEW a \in CopyOf(issued'), Reply(i, a)
      PROVE  Moved(i, {"answered", "over"}) /\ events' \in Nat
  <2>1. Moved(i, {"answered"}) \/ Moved(i, {"over"})
    BY <1>1, <1>2, OpMoves, Zenon DEF Reply
  <2>2. events' \in Nat
    BY <1>2 DEF Reply, TypeShape
  <2>3. QED BY <2>1, <2>2 DEF Moved
<1>3. ASSUME NEW ways, Refuse(i, ways)
      PROVE  Moved(i, {"failed", "over"}) /\ events' \in Nat
  <2>1. Moved(i, {"failed"}) \/ Moved(i, {"over"})
    BY <1>1, <1>3, OpMoves, Zenon DEF Refuse
  <2>2. events' \in Nat
    BY <1>3 DEF Refuse, TypeShape
  <2>3. QED BY <2>1, <2>2 DEF Moved
<1>4. QED BY <1>2, <1>3

-----------------------------------------------------------------------------
(* The lock: what each way of moving a request does to the line and to     *)
(* what may be said of the tunnel.                                         *)

\* Whoever is inside is the head of the line, and alone.
LEMMA InsideAlone ==
  ASSUME LineShape, NEW i \in DOMAIN ops, line # <<>>, line[1] = i
  PROVE  \A j \in DOMAIN ops : ops[j].at \in Inside => j = i
BY DEF LineShape

\* A request that is not in the line moves outside it.
LEMMA StaysOutside ==
  ASSUME LineShape, TunnelShape, NEW i \in DOMAIN ops, NEW P, Moved(i, P),
         ops[i].at \notin InLine, P \cap InLine = {}, UNCHANGED tunnel
  PROVE  LineShape' /\ TunnelShape'
<1>1. /\ DOMAIN ops' = DOMAIN ops /\ ops'[i].at \notin InLine
      /\ \A j \in DOMAIN ops : j # i => ops'[j].at = ops[j].at
      /\ line' = line /\ state' = state /\ url' = url /\ listeners' = listeners
  BY DEF Moved, tunnel
<1>2. \A k \in DOMAIN line : line[k] # i
  BY DEF LineShape
<1>3. LineShape'
  BY <1>1, <1>2 DEF LineShape, InLine
<1>4. TunnelShape'
  BY <1>1 DEF TunnelShape, InLine, Inside
<1>5. QED BY <1>3, <1>4

\* A request joins the end of the line.
LEMMA Joins ==
  ASSUME LineShape, TunnelShape, NEW i \in DOMAIN ops, Moved(i, {"waiting"}),
         DOMAIN ops \subseteq Nat,
         ops[i].at \notin InLine, line # <<>>, line' = Append(line, i),
         UNCHANGED <<state, url, listeners>>
  PROVE  LineShape' /\ TunnelShape'
<1>1. /\ DOMAIN ops' = DOMAIN ops /\ ops'[i].at = "waiting"
      /\ \A j \in DOMAIN ops : j # i => ops'[j].at = ops[j].at
  BY DEF Moved
<1>2. /\ line \in Seq(Nat) /\ i \in Nat
      /\ \A k \in DOMAIN line : line[k] # i
  BY DEF LineShape
<1>3. /\ line' \in Seq(Nat) /\ line' # <<>> /\ line'[1] = line[1]
      /\ Len(line) + 1 \in DOMAIN line' /\ line'[Len(line) + 1] = i
      /\ \A k \in DOMAIN line : k \in DOMAIN line' /\ line'[k] = line[k]
      /\ \A k \in DOMAIN line' : k \in DOMAIN line \/ k = Len(line) + 1
  BY <1>2
<1>4. LineShape'
  <2>1. ASSUME NEW k \in DOMAIN line'
        PROVE  line'[k] \in DOMAIN ops' /\ ops'[line'[k]].at \in InLine
    <3>1. CASE k \in DOMAIN line
      <4>1. /\ line'[k] = line[k] /\ line[k] # i
            /\ line[k] \in DOMAIN ops /\ ops[line[k]].at \in InLine
        BY <1>2, <1>3, <3>1 DEF LineShape
      <4>2. QED BY <1>1, <4>1
    <3>2. CASE k = Len(line) + 1
      <4>1. line'[k] = i
        BY <1>3, <3>2
      <4>2. QED BY <1>1, <4>1 DEF InLine
    <3>3. QED BY <1>3, <2>1, <3>1, <3>2
  <2>2. \A k, l \in DOMAIN line' : line'[k] = line'[l] => k = l
    BY <1>2, <1>3 DEF LineShape
  <2>3. ASSUME NEW j \in DOMAIN ops'
        PROVE  /\ ops'[j].at \in Inside => line' # <<>> /\ line'[1] = j
               /\ ops'[j].at = "waiting" => \E k \in DOMAIN line' : line'[k] = j
    <3>1. CASE j = i
      BY <1>1, <1>3, <3>1 DEF Inside
    <3>2. CASE j # i
      <4>1. j \in DOMAIN ops /\ ops'[j].at = ops[j].at
        BY <1>1, <2>3, <3>2
      <4>2. /\ ops[j].at \in Inside => line[1] = j
            /\ ops[j].at = "waiting" => \E k \in DOMAIN line : line[k] = j
        BY <4>1 DEF LineShape
      <4>3. (\E k \in DOMAIN line : line[k] = j) => \E k \in DOMAIN line' : line'[k] = j
        BY <1>3
      <4>4. QED BY <1>3, <4>1, <4>2, <4>3
    <3>3. QED BY <3>1, <3>2
  <2>4. QED BY <1>3, <2>1, <2>2, <2>3 DEF LineShape
<1>5. TunnelShape'
  BY <1>1 DEF TunnelShape, InLine, Inside
<1>6. QED BY <1>4, <1>5

\* A request takes the lock at the head of the line, or an empty line.
LEMMA HeadMoves ==
  ASSUME LineShape, NEW i \in DOMAIN ops, NEW P, Moved(i, P), P \subseteq Inside,
         DOMAIN ops \subseteq Nat,
         \/ line = <<>> /\ line' = <<i>> /\ ops[i].at \notin InLine
         \/ line # <<>> /\ line[1] = i /\ line' = line
  PROVE  LineShape'
<1>1. /\ DOMAIN ops' = DOMAIN ops /\ ops'[i].at \in Inside /\ i \in Nat
      /\ \A j \in DOMAIN ops : j # i => ops'[j].at = ops[j].at
  BY DEF Moved
<1>2. CASE line = <<>> /\ line' = <<i>>
  <2>1. DOMAIN line = {} /\ DOMAIN line' = {1} /\ line'[1] = i /\ line' \in Seq(Nat) /\ line' # <<>>
    BY <1>1, <1>2
  <2>2. \A j \in DOMAIN ops : ops[j].at \notin Inside /\ ops[j].at # "waiting"
    BY <1>2, <2>1 DEF LineShape
  <2>3. "waiting" \notin Inside
    BY DEF Inside
  <2>4. QED BY <1>1, <2>1, <2>2, <2>3 DEF LineShape, InLine
<1>3. CASE line # <<>> /\ line[1] = i /\ line' = line
  <2>1. "waiting" \notin Inside /\ line \in Seq(Nat)
    BY DEF Inside, LineShape
  <2>2. 1 \in DOMAIN line
    BY <1>3, <2>1
  <2>3. \A k \in DOMAIN line' : line'[k] \in DOMAIN ops' /\ ops'[line'[k]].at \in InLine
    BY <1>1, <1>3 DEF LineShape, InLine
  <2>4. QED BY <1>1, <1>3, <2>1, <2>2, <2>3, InsideAlone DEF LineShape
<1>4. QED BY <1>2, <1>3

\* The head leaves the line with the tunnel as it says it is.
LEMMA HeadLeaves ==
  ASSUME LineShape, TunnelShape, NEW i \in DOMAIN ops, NEW P, Moved(i, P),
         P \cap InLine = {}, line # <<>>, line[1] = i, line' = Tail(line),
         listeners' = IF state' = "on" THEN {url'} ELSE {}
  PROVE  LineShape' /\ TunnelShape'
<1>1. /\ DOMAIN ops' = DOMAIN ops /\ ops'[i].at \notin InLine
      /\ \A j \in DOMAIN ops : j # i => ops'[j].at = ops[j].at
  BY DEF Moved
<1>2. /\ line \in Seq(Nat) /\ line' \in Seq(Nat) /\ 1 \in DOMAIN line
      /\ \A k \in DOMAIN line' : k \in Nat /\ k + 1 \in DOMAIN line /\ line'[k] = line[k + 1]
      /\ \A k \in DOMAIN line : k = 1 \/ (k - 1 \in DOMAIN line' /\ line'[k - 1] = line[k])
  <2>1. line \in Seq(Nat)
    BY DEF LineShape
  <2>2. /\ line' \in Seq(Nat) /\ DOMAIN line = 1..Len(line) /\ Len(line) \in Nat \ {0}
        /\ DOMAIN line' = 1..(Len(line) - 1)
        /\ \A k \in 1..(Len(line) - 1) : line'[k] = line[k + 1]
    BY <2>1
  <2>3. ASSUME NEW k \in DOMAIN line'
        PROVE  k \in Nat /\ k + 1 \in DOMAIN line /\ line'[k] = line[k + 1]
    BY <2>2
  <2>4. ASSUME NEW k \in DOMAIN line, k # 1
        PROVE  k - 1 \in DOMAIN line' /\ line'[k - 1] = line[k]
    <3>1. k - 1 \in 1..(Len(line) - 1) /\ (k - 1) + 1 = k
      BY <2>2, <2>4
    <3>2. QED BY <2>2, <3>1
  <2>5. QED BY <2>1, <2>2, <2>3, <2>4
<1>3. \A k \in DOMAIN line' : k + 1 # 1 /\ line[k + 1] # i
  BY <1>2 DEF LineShape
<1>4. \A j \in DOMAIN ops' : ops'[j].at \notin Inside
  BY <1>1, InsideAlone DEF InLine
<1>5. LineShape'
  <2>1. ASSUME NEW k \in DOMAIN line'
        PROVE  line'[k] \in DOMAIN ops' /\ ops'[line'[k]].at \in InLine
    <3>1. PICK j : j = line[k + 1]
      OBVIOUS
    <3>2. k + 1 \in DOMAIN line /\ line'[k] = j /\ j # i
      BY <1>2, <1>3, <3>1
    <3>3. j \in DOMAIN ops /\ ops[j].at \in InLine
      BY <3>1, <3>2 DEF LineShape
    <3> QED
      BY <1>1, <3>2, <3>3
  <2>2. \A k, l \in DOMAIN line' : line'[k] = line'[l] => k = l
    <3> SUFFICES ASSUME NEW k \in DOMAIN line', NEW l \in DOMAIN line', line'[k] = line'[l]
                 PROVE  k = l
      OBVIOUS
    <3>1. k + 1 = l + 1
      BY <1>2 DEF LineShape
    <3>2. QED BY <1>2, <3>1
  <2>3. ASSUME NEW j \in DOMAIN ops', ops'[j].at = "waiting"
        PROVE  \E k \in DOMAIN line' : line'[k] = j
    <3>1. j # i /\ ops[j].at = "waiting"
      BY <1>1, <2>3 DEF InLine
    <3>2. PICK k \in DOMAIN line : line[k] = j
      BY <1>1, <3>1 DEF LineShape
    <3>3. QED BY <1>2, <3>1, <3>2
  <2>4. QED BY <1>2, <1>4, <2>1, <2>2, <2>3 DEF LineShape
<1>6. TunnelShape'
  <2>1. \A x, y \in listeners' : x = y
    OBVIOUS
  <2>2. \A j \in DOMAIN ops' : ops'[j].at \notin {"forward", "kill"}
    BY <1>4 DEF Inside
  <2>3. QED BY <2>1, <2>2 DEF TunnelShape
<1>7. QED BY <1>5, <1>6

-----------------------------------------------------------------------------
(* The handlers. *)

States == {"off", "starting", "on", "error"}

\* What a handler may leave behind of the state it shares with the others.
ServerTypes ==
  /\ token' \in 0..issued' /\ auth' \in BOOLEAN
  /\ state' \in States /\ url' \in 0..issued'
  /\ events' \in Nat

LEMMA LeaveType ==
  ASSUME TypeShape, issued' \in Nat, issued <= issued', NEW i \in DOMAIN ops,
         NEW t \in 0..issued', NEW s \in States, NEW u \in 0..issued', NEW rest,
         Leave(i, t, s, u, rest)
  PROVE  /\ Moved(i, {"answered", "over"})
         /\ ServerTypes
         /\ state' = s /\ url' = u /\ line' = rest
<1>1. /\ token' = IF ops[i].kind = "disable" THEN 0 ELSE t
      /\ auth' = (auth /\ ops[i].kind # "forget")
      /\ state' = s /\ url' = u /\ line' = rest
      /\ Reply(i, LanAccess(token', auth', s, u))
  BY DEF Leave
<1>2. token' \in 0..issued'
  BY <1>1
<1>3. auth' \in BOOLEAN
  BY <1>1, Zenon
<1>4. LanAccess(token', auth', s, u) \in CopyOf(issued')
  BY <1>2, <1>3 DEF LanAccess, CopyOf, States
<1>5. Moved(i, {"answered", "over"}) /\ events' \in Nat
  BY <1>1, <1>4, OpEnds
<1>6. QED BY <1>1, <1>2, <1>3, <1>5 DEF ServerTypes

\* start() and stop() have the lock: they find nothing to do and leave, or call
\* the SDK.
LEMMA EnterKeeps ==
  ASSUME IInv, issued' \in Nat, issued <= issued', NEW i \in DOMAIN ops,
         NEW t \in 0..issued', NEW rest, Enter(i, t, rest),
         \/ line = <<>> /\ rest = <<>> /\ ops[i].at = "sent"
         \/ line # <<>> /\ line[1] = i /\ rest = Tail(line) /\ ops[i].at = "waiting"
  PROVE  /\ LineShape' /\ TunnelShape' /\ ServerTypes
         /\ ops' \in Seq(OpOf(issued')) /\ Len(ops') = Len(ops)
         /\ listeners' = listeners
<1>1. /\ TypeShape /\ LineShape /\ TunnelShape /\ listeners' = listeners
      /\ state \in States /\ url \in 0..issued' /\ DOMAIN ops \subseteq Nat
  BY DEF IInv, Enter, TypeShape, States
<1>2. ops[i].at \notin Inside /\ \A j \in DOMAIN ops : ops[j].at \notin Inside
  BY <1>1, InsideAlone DEF Inside, LineShape
<1>3. listeners = IF state = "on" THEN {url} ELSE {}
  BY <1>1, <1>2 DEF TunnelShape, Inside
<1>4. CASE Idle(ops[i].kind)
  <2>1. Leave(i, t, state, url, rest)
    BY <1>4 DEF Enter
  <2>2. /\ Moved(i, {"answered", "over"}) /\ ServerTypes
        /\ state' = state /\ url' = url /\ line' = rest
    BY <1>1, <2>1, LeaveType
  <2>3. {"answered", "over"} \cap InLine = {}
    BY DEF InLine, Inside
  <2>4. LineShape' /\ TunnelShape'
    <3>1. CASE line = <<>> /\ rest = <<>> /\ ops[i].at = "sent"
      <4>1. ops[i].at \notin InLine /\ UNCHANGED tunnel
        BY <1>1, <2>2, <3>1 DEF InLine, Inside, tunnel
      <4>2. QED BY <1>1, <2>2, <2>3, <4>1, StaysOutside
    <3>2. CASE line # <<>> /\ line[1] = i /\ rest = Tail(line)
      <4>1. listeners' = IF state' = "on" THEN {url'} ELSE {}
        BY <1>1, <1>3, <2>2
      <4>2. QED BY <1>1, <2>2, <2>3, <3>2, <4>1, HeadLeaves
    <3>3. QED BY <3>1, <3>2
  <2>5. QED BY <1>1, <2>2, <2>4 DEF Moved
<1>5. CASE ~Idle(ops[i].kind)
  <2> DEFINE p == IF ops[i].kind = "start" THEN "forward" ELSE "disconnect"
  <2>1. /\ line' = <<i>> \o rest
        /\ ops' = At(i, p)
        /\ token' = t /\ auth' = auth /\ events' = events
        /\ state' = IF ops[i].kind = "start" THEN "starting" ELSE state
        /\ url' = IF ops[i].kind = "start" THEN 0 ELSE url
    BY <1>5 DEF Enter
  <2>2. p \in Phase /\ p \in Inside
    BY DEF Phase, Inside
  <2> HIDE DEF p
  <2>3. Moved(i, {p})
    BY <1>1, <2>1, <2>2, OpMoves
  <2>4. ServerTypes
    BY <1>1, <2>1 DEF ServerTypes, States, TypeShape
  <2>5. \/ line = <<>> /\ line' = <<i>> /\ ops[i].at \notin InLine
        \/ line # <<>> /\ line[1] = i /\ line' = line
    <3>1. CASE line = <<>> /\ rest = <<>> /\ ops[i].at = "sent"
      BY <2>1, <3>1 DEF InLine, Inside
    <3>2. CASE line # <<>> /\ line[1] = i /\ rest = Tail(line)
      <4>1. line \in Seq(Nat) /\ i \in Nat
        BY <1>1 DEF LineShape
      <4>2. <<i>> \o Tail(line) = line
        BY <3>2, <4>1
      <4>3. QED BY <2>1, <3>2, <4>2
    <3>3. QED BY <3>1, <3>2
  <2>6. LineShape'
    BY <1>1, <2>2, <2>3, <2>5, HeadMoves
  <2>7. /\ DOMAIN ops' = DOMAIN ops /\ ops'[i].at = p
        /\ \A j \in DOMAIN ops : j # i => ops'[j].at \notin Inside
    BY <1>2, <2>3 DEF Moved
  <2>8. TunnelShape'
    <3>1. CASE ops[i].kind = "start"
      <4>1. p = "forward" /\ state # "on" /\ state' = "starting"
        BY <1>5, <2>1, <3>1 DEF p, Idle
      <4>2. QED BY <1>1, <1>3, <2>7, <4>1 DEF TunnelShape, Inside
    <3>2. CASE ops[i].kind # "start"
      <4>1. p = "disconnect" /\ state' = state /\ url' = url
        BY <2>1, <3>2 DEF p
      <4>2. QED BY <1>1, <1>3, <2>7, <4>1 DEF TunnelShape, Inside
    <3>3. QED BY <3>1, <3>2
  <2>9. QED BY <1>1, <2>3, <2>4, <2>6, <2>8 DEF Moved
<1>6. QED BY <1>4, <1>5

\* A request that needs the lock takes it, or joins those that wait for it.
LEMMA LockKeeps ==
  ASSUME IInv, issued' \in Nat, issued <= issued', NEW i \in DOMAIN ops,
         NEW t \in 0..issued', Lock(i, t), ops[i].at = "sent"
  PROVE  /\ LineShape' /\ TunnelShape' /\ ServerTypes
         /\ ops' \in Seq(OpOf(issued')) /\ Len(ops') = Len(ops)
         /\ listeners' = listeners
<1>1. CASE line = <<>>
  BY <1>1, EnterKeeps DEF Lock
<1>2. CASE line # <<>>
  <2>1. /\ line' = Append(line, i) /\ ops' = At(i, "waiting") /\ token' = t
        /\ UNCHANGED <<auth, state, url, listeners, events>>
    BY <1>2 DEF Lock
  <2>2. /\ TypeShape /\ LineShape /\ TunnelShape /\ DOMAIN ops \subseteq Nat
        /\ "waiting" \in Phase /\ ops[i].at \notin InLine
    BY DEF IInv, TypeShape, Phase, InLine, Inside
  <2>3. Moved(i, {"waiting"})
    BY <2>1, <2>2, OpMoves
  <2>4. LineShape' /\ TunnelShape'
    BY <1>2, <2>1, <2>2, <2>3, Joins
  <2>5. ServerTypes
    BY <2>1, <2>2 DEF ServerTypes, States, TypeShape
  <2>6. QED BY <2>1, <2>3, <2>4, <2>5 DEF Moved
<1>3. QED BY <1>1, <1>2

\* The page is left alone by a handler, and its copy stays one of what was issued.
LEMMA ServerKeeps ==
  ASSUME IInv, issued' \in Nat, issued <= issued', ServerTypes,
         ops' \in Seq(OpOf(issued')), Len(ops') = Len(ops),
         listeners' \subseteq 1..issued', UNCHANGED page, upsets' \in 0..MaxUpset,
         LineShape', TunnelShape'
  PROVE  IInv'
<1>1. TypeShape'
  <2>1. meta' \in CopyOf(issued')
    BY CopyGrows DEF IInv, TypeShape, page
  <2>2. QED BY <2>1 DEF IInv, TypeShape, ServerTypes, States, page
<1>2. QrShape'
  BY DEF IInv, QrShape, page
<1>3. QED BY <1>1, <1>2 DEF IInv

LEMMA HandleKeeps ==
  ASSUME IInv, NEW i \in DOMAIN ops, Handle(i)
  PROVE  IInv'
<1> DEFINE kind == ops[i].kind
<1>1. /\ TypeShape /\ LineShape /\ TunnelShape /\ ops[i].at = "sent" /\ issued \in Nat
      /\ UNCHANGED page /\ upsets' = upsets /\ upsets \in 0..MaxUpset
      /\ ops[i].at \notin InLine /\ listeners \subseteq 1..issued
  BY DEF IInv, TypeShape, Handle, InLine, Inside
<1>2. Fresh \in Nat /\ issued <= Fresh /\ Fresh \in 0..Fresh /\ listeners \subseteq 1..Fresh
  BY <1>1 DEF Fresh
<1>3. /\ {"answered", "over"} \cap InLine = {} /\ {"failed", "over"} \cap InLine = {}
  BY DEF InLine, Inside
<1>4. CASE kind = "enable" /\ token' = Fresh /\ issued' = Fresh
           /\ Reply(i, LanAccess(Fresh, auth, state, url)) /\ UNCHANGED <<auth, tunnel>>
  <2>1. LanAccess(Fresh, auth, state, url) \in CopyOf(issued')
    BY <1>1, <1>2, <1>4 DEF TypeShape, LanAccess, CopyOf
  <2>2. Moved(i, {"answered", "over"}) /\ events' \in Nat
    BY <1>1, <1>2, <1>4, <2>1, OpEnds
  <2>3. ServerTypes
    BY <1>1, <1>2, <1>4, <2>2 DEF ServerTypes, States, TypeShape, tunnel
  <2>4. LineShape' /\ TunnelShape'
    BY <1>1, <1>3, <1>4, <2>2, StaysOutside
  <2>5. listeners' \subseteq 1..issued'
    BY <1>2, <1>4 DEF tunnel
  <2>6. QED BY <1>1, <1>2, <1>4, <2>2, <2>3, <2>4, <2>5, ServerKeeps DEF Moved
<1>5. CASE kind = "save" /\ auth' = TRUE /\ Reply(i, LanAccess(token, TRUE, state, url))
           /\ UNCHANGED <<token, issued, tunnel>>
  <2>1. /\ LanAccess(token, TRUE, state, url) \in CopyOf(issued')
        /\ issued' \in Nat /\ issued <= issued'
        /\ Reply(i, LanAccess(token, TRUE, state, url))
    BY <1>1, <1>5 DEF TypeShape, LanAccess, CopyOf
  <2>2. Moved(i, {"answered", "over"}) /\ events' \in Nat
    BY <1>1, <2>1, OpEnds
  <2>3. ServerTypes
    BY <1>1, <1>5, <2>2 DEF ServerTypes, States, TypeShape, tunnel
  <2>4. LineShape' /\ TunnelShape'
    BY <1>1, <1>3, <1>5, <2>2, StaysOutside
  <2>5. listeners' \subseteq 1..issued'
    BY <1>1, <1>5 DEF tunnel
  <2>6. QED BY <1>1, <1>5, <2>2, <2>3, <2>4, <2>5, ServerKeeps DEF Moved
<1>6. CASE Refuse(i, <<token, auth, issued, tunnel>>)
  <2>1. UNCHANGED <<token, auth, issued, tunnel, events>>
    BY <1>6 DEF Refuse
  <2>2. Moved(i, {"failed", "over"}) /\ events' \in Nat
    BY <1>1, <1>6, <2>1, OpEnds
  <2>3. ServerTypes
    BY <1>1, <2>1, <2>2 DEF ServerTypes, States, TypeShape, tunnel
  <2>4. LineShape' /\ TunnelShape'
    BY <1>1, <1>3, <2>1, <2>2, StaysOutside
  <2>5. listeners' \subseteq 1..issued'
    BY <1>1, <2>1 DEF tunnel
  <2>6. QED BY <1>1, <2>1, <2>2, <2>3, <2>4, <2>5, ServerKeeps DEF Moved
<1>7. CASE issued' = Fresh /\ Lock(i, Fresh)
  BY <1>1, <1>2, <1>7, LockKeeps, ServerKeeps
<1>8. CASE Lock(i, token) /\ UNCHANGED issued
  <2>1. token \in 0..issued' /\ issued' \in Nat /\ issued <= issued'
    BY <1>1, <1>8 DEF TypeShape
  <2>2. /\ LineShape' /\ TunnelShape' /\ ServerTypes
        /\ ops' \in Seq(OpOf(issued')) /\ Len(ops') = Len(ops)
        /\ listeners' = listeners
    BY <1>1, <1>8, <2>1, LockKeeps
  <2>3. QED BY <1>1, <1>8, <2>1, <2>2, ServerKeeps
<1>9. QED BY <1>4, <1>5, <1>6, <1>7, <1>8 DEF Handle

LEMMA TakeLockKeeps ==
  ASSUME IInv, NEW i \in DOMAIN ops, TakeLock(i)
  PROVE  IInv'
<1>1. /\ TypeShape /\ issued \in Nat /\ issued' \in Nat /\ issued <= issued' /\ token \in 0..issued'
      /\ UNCHANGED page /\ upsets' = upsets /\ upsets \in 0..MaxUpset
      /\ listeners \subseteq 1..issued'
  BY DEF IInv, TypeShape, TakeLock
<1>2. /\ line # <<>> /\ line[1] = i /\ ops[i].at = "waiting" /\ Enter(i, token, Tail(line))
  <2>1. line \in Seq(Nat) /\ ops[i].at = "waiting" /\ Head(line) = i
    BY DEF IInv, LineShape, TakeLock
  <2>2. line # <<>>
    BY <2>1 DEF IInv, LineShape
  <2>3. QED BY <2>1, <2>2 DEF TakeLock
<1>3. /\ LineShape' /\ TunnelShape' /\ ServerTypes
      /\ ops' \in Seq(OpOf(issued')) /\ Len(ops') = Len(ops)
      /\ listeners' = listeners
  BY <1>1, <1>2, EnterKeeps
<1>4. QED BY <1>1, <1>3, ServerKeeps

\* Inside, a request is alone and at the head.
LEMMA InsideIsHead ==
  ASSUME IInv, NEW i \in DOMAIN ops, ops[i].at \in Inside
  PROVE  /\ line \in Seq(Nat) /\ line # <<>> /\ line[1] = i
         /\ \A j \in DOMAIN ops : ops[j].at \in Inside => j = i
BY InsideAlone DEF IInv, LineShape

\* The SDK gave a URL: it is the only one, and the tunnel is on.
LEMMA ForwardKeeps ==
  ASSUME IInv, NEW i \in DOMAIN ops, Forward(i)
  PROVE  IInv'
<1>1. /\ TypeShape /\ LineShape /\ TunnelShape
      /\ issued \in Nat /\ issued' = issued + 1 /\ Fresh = issued + 1
      /\ UNCHANGED page /\ upsets' = upsets /\ upsets \in 0..MaxUpset
      /\ listeners' = listeners \cup {Fresh} /\ Leave(i, token, "on", Fresh, Tail(line))
      /\ ops[i].at = "forward" /\ ops[i].at \in Inside
  BY DEF IInv, TypeShape, Forward, Fresh, Inside
<1>2. /\ issued' \in Nat /\ issued <= issued' /\ token \in 0..issued'
      /\ Fresh \in 0..issued' /\ "on" \in States
  BY <1>1 DEF TypeShape, States
<1>3. /\ Moved(i, {"answered", "over"}) /\ ServerTypes
      /\ state' = "on" /\ url' = Fresh /\ line' = Tail(line)
  BY <1>1, <1>2, LeaveType
<1>4. listeners' = IF state' = "on" THEN {url'} ELSE {}
  BY <1>1, <1>3 DEF TunnelShape
<1>5. {"answered", "over"} \cap InLine = {}
  BY DEF InLine, Inside
<1>6. LineShape' /\ TunnelShape'
  BY <1>1, <1>3, <1>4, <1>5, InsideIsHead, HeadLeaves
<1>7. listeners' \subseteq 1..issued'
  BY <1>1 DEF TypeShape
<1>8. QED BY <1>1, <1>2, <1>3, <1>6, <1>7, ServerKeeps DEF Moved

\* The SDK raised, with a listener or without: start() has still to clean up.
LEMMA ForwardFailsKeeps ==
  ASSUME IInv, NEW i \in DOMAIN ops, ForwardFails(i)
  PROVE  IInv'
<1>1. /\ TypeShape /\ LineShape /\ TunnelShape
      /\ issued \in Nat /\ UNCHANGED page /\ upsets' \in 0..MaxUpset
      /\ UNCHANGED <<token, auth, url, line, events>> /\ state' = "error"
      /\ ops[i].at = "forward" /\ ops[i].at \in Inside /\ ops' = At(i, "kill")
      /\ listeners = {} /\ DOMAIN ops \subseteq Nat
      /\ "kill" \in Phase /\ "kill" \in Inside /\ "forward" \in Inside
  <2>1. TypeShape /\ LineShape /\ TunnelShape
    BY DEF IInv
  <2>2. /\ UNCHANGED page /\ upsets < MaxUpset /\ upsets' = upsets + 1
        /\ UNCHANGED <<token, auth, url, line, events>> /\ state' = "error"
        /\ ops[i].at = "forward" /\ ops' = At(i, "kill")
    BY DEF ForwardFails
  <2>3. issued \in Nat /\ upsets \in 0..MaxUpset /\ DOMAIN ops \subseteq Nat
    BY <2>1 DEF TypeShape
  <2>4. upsets' \in 0..MaxUpset
    BY <2>2, <2>3, NetworkBoundsAssumption
  <2>5. "kill" \in Phase /\ "kill" \in Inside /\ "forward" \in Inside
    BY DEF Inside, Phase
  <2>6. listeners = {}
    BY <2>1, <2>2 DEF TunnelShape
  <2>7. QED BY <2>1, <2>2, <2>3, <2>4, <2>5, <2>6
<1>2. \/ listeners' = {} /\ issued' = issued
      \/ listeners' = {Fresh} /\ issued' = Fresh /\ Fresh = issued + 1
  BY <1>1 DEF ForwardFails, Fresh
<1>3. issued' \in Nat /\ issued <= issued' /\ listeners' \subseteq 1..issued'
  BY <1>1, <1>2
<1>4. Moved(i, {"kill"})
  BY <1>1, <1>3, OpMoves
<1>5. ServerTypes
  BY <1>1, <1>3 DEF ServerTypes, TypeShape, States
<1>6. LineShape'
  BY <1>1, <1>4, InsideIsHead, HeadMoves
<1>7. TunnelShape'
  <2>1. /\ DOMAIN ops' = DOMAIN ops /\ ops'[i].at = "kill"
        /\ \A j \in DOMAIN ops : j # i => ops'[j].at \notin Inside
    BY <1>1, <1>4, InsideIsHead DEF Moved
  <2>2. \A x, y \in listeners' : x = y
    BY <1>2
  <2>3. QED BY <1>1, <2>1, <2>2 DEF TunnelShape
<1>8. QED BY <1>1, <1>3, <1>4, <1>5, <1>6, <1>7, ServerKeeps DEF Moved

LEMMA KilledKeeps ==
  ASSUME IInv, NEW i \in DOMAIN ops, Killed(i)
  PROVE  IInv'
<1> DEFINE ways == <<token, auth, state, url, issued, page, upsets>>
<1>1. /\ TypeShape /\ LineShape /\ TunnelShape
      /\ issued \in Nat /\ upsets \in 0..MaxUpset
      /\ ops[i].at = "kill" /\ ops[i].at \in Inside /\ state = "error"
      /\ listeners' = {} /\ line' = Tail(line) /\ Refuse(i, ways)
  BY DEF IInv, TypeShape, Killed, Inside, TunnelShape
<1>2. UNCHANGED ways /\ events' = events
  BY <1>1 DEF Refuse
<1>3. Moved(i, {"failed", "over"}) /\ events' \in Nat
  BY <1>1, <1>2, OpEnds
<1>4. ServerTypes
  BY <1>1, <1>2, <1>3 DEF ServerTypes, TypeShape, States
<1>5. {"failed", "over"} \cap InLine = {}
  BY DEF InLine, Inside
<1>6. listeners' = IF state' = "on" THEN {url'} ELSE {}
  BY <1>1, <1>2
<1>7. LineShape' /\ TunnelShape'
  BY <1>1, <1>3, <1>5, <1>6, InsideIsHead, HeadLeaves
<1>8. QED BY <1>1, <1>2, <1>3, <1>4, <1>7, ServerKeeps DEF Moved

LEMMA DisconnectedKeeps ==
  ASSUME IInv, NEW i \in DOMAIN ops, Disconnected(i)
  PROVE  IInv'
<1>1. /\ TypeShape /\ LineShape /\ TunnelShape
      /\ issued \in Nat /\ issued' = issued /\ issued <= issued'
      /\ UNCHANGED page /\ upsets' = upsets /\ upsets \in 0..MaxUpset
      /\ listeners' = {} /\ Leave(i, token, "off", 0, Tail(line))
      /\ ops[i].at \in Inside /\ token \in 0..issued' /\ 0 \in 0..issued' /\ "off" \in States
  BY DEF IInv, TypeShape, Disconnected, Inside, States
<1>2. /\ Moved(i, {"answered", "over"}) /\ ServerTypes
      /\ state' = "off" /\ url' = 0 /\ line' = Tail(line)
  BY <1>1, LeaveType
<1>3. {"answered", "over"} \cap InLine = {}
  BY DEF InLine, Inside
<1>4. listeners' = IF state' = "on" THEN {url'} ELSE {}
  BY <1>1, <1>2
<1>5. LineShape' /\ TunnelShape'
  BY <1>1, <1>2, <1>3, <1>4, InsideIsHead, HeadLeaves
<1>6. QED BY <1>1, <1>2, <1>5, ServerKeeps DEF Moved

-----------------------------------------------------------------------------
(* The page. *)

\* The page takes over a copy: what is being drawn of the old one is given up.
LEMMA ShowKeeps ==
  ASSUME TypeShape, QrShape, NEW m, Show(m)
  PROVE  QrShape' /\ DOMAIN qr' = Coded /\ DOMAIN drawing' = Coded /\ meta' = m
<1>1. /\ meta' = m
      /\ qr' = [c \in Coded |-> IF Value(c, m) = <<>> THEN <<>> ELSE qr[c]]
      /\ drawing' = [c \in Coded |->
           IF Value(c, m) = Value(c, meta) THEN drawing[c]
           ELSE {Value(c, m)} \ {<<>>}]
  BY DEF Show, Cancelled
<1>2. ASSUME NEW c \in Coded
      PROVE  /\ drawing'[c] \subseteq {Value(c, m)}
             /\ drawing'[c] = {} => qr'[c] \in {<<>>, Value(c, m)}
  <2>1. CASE Value(c, m) = Value(c, meta)
    BY <1>1, <2>1 DEF QrShape
  <2>2. CASE Value(c, m) # Value(c, meta)
    BY <1>1, <2>2
  <2>3. QED BY <2>1, <2>2
<1>3. QED BY <1>1, <1>2 DEF QrShape

\* The server's side and the requests are left alone.
LEMMA PageKeeps ==
  ASSUME IInv, UNCHANGED <<token, auth, tunnel, issued, ops>>,
         meta' \in CopyOf(issued), busy' \in [Card -> 0..Len(ops)],
         DOMAIN qr' = Coded, DOMAIN drawing' = Coded,
         events' \in Nat, upsets' \in 0..MaxUpset, QrShape'
  PROVE  IInv'
<1>1. TypeShape'
  BY DEF IInv, TypeShape, tunnel
<1>2. LineShape'
  BY DEF IInv, LineShape, tunnel
<1>3. TunnelShape'
  BY DEF IInv, TunnelShape, tunnel
<1>4. QED BY <1>1, <1>2, <1>3 DEF IInv

LEMMA DrawnKeeps ==
  ASSUME IInv, NEW c \in Coded, NEW v \in drawing[c], NEW shown \in {v, <<>>},
         Drawn(c, v, shown), upsets' \in 0..MaxUpset
  PROVE  IInv'
<1>1. /\ drawing' = [drawing EXCEPT ![c] = drawing[c] \ {v}]
      /\ qr' = [qr EXCEPT ![c] = shown]
      /\ UNCHANGED <<token, auth, tunnel, issued, ops, meta, busy, events>>
  BY DEF Drawn
<1>2. v = Value(c, meta)
  BY DEF IInv, QrShape
<1>3. /\ DOMAIN qr = Coded /\ DOMAIN drawing = Coded /\ meta \in CopyOf(issued)
      /\ busy \in [Card -> 0..Len(ops)] /\ events \in Nat
  BY DEF IInv, TypeShape
<1>4. QrShape'
  <2>1. ASSUME NEW d \in Coded
        PROVE  /\ drawing'[d] \subseteq {Value(d, meta)}
               /\ drawing'[d] = {} => qr'[d] \in {<<>>, Value(d, meta)}
    <3>1. CASE d = c
      BY <1>1, <1>2, <1>3, <3>1 DEF IInv, QrShape
    <3>2. CASE d # c
      BY <1>1, <1>3, <3>2 DEF IInv, QrShape
    <3>3. QED BY <3>1, <3>2
  <2>2. QED BY <1>1, <2>1 DEF QrShape
<1>5. QED BY <1>1, <1>3, <1>4, PageKeeps

LEMMA ReopenKeeps ==
  ASSUME IInv, Reopen
  PROVE  IInv'
<1>1. /\ meta \in CopyOf(issued) /\ events \in Nat /\ upsets' \in 0..MaxUpset
      /\ Len(ops) \in Nat
  BY NetworkBoundsAssumption DEF IInv, TypeShape, Reopen
<1>2. busy' \in [Card -> 0..Len(ops)]
  BY <1>1 DEF Reopen
<1>3. QrShape' /\ DOMAIN qr' = Coded /\ DOMAIN drawing' = Coded
  BY DEF Reopen, QrShape
<1>4. QED BY <1>1, <1>2, <1>3, PageKeeps DEF Reopen

\* The answer to a GET replaces the page's copy; or it is lost.
LEMMA RefreshKeeps ==
  ASSUME IInv, Refresh \/ RefreshFails
  PROVE  IInv'
<1>1. /\ TypeShape /\ QrShape /\ events' \in Nat /\ upsets' \in 0..MaxUpset
      /\ busy \in [Card -> 0..Len(ops)]
  BY NetworkBoundsAssumption DEF IInv, TypeShape, Refresh, RefreshFails
<1>2. CASE Refresh
  <2>1. Now \in CopyOf(issued)
    BY <1>1 DEF TypeShape, Now, LanAccess, CopyOf
  <2>2. Show(Now) /\ UNCHANGED <<token, auth, tunnel, issued, ops, busy, upsets>>
    BY <1>2 DEF Refresh
  <2>3. QrShape' /\ DOMAIN qr' = Coded /\ DOMAIN drawing' = Coded /\ meta' = Now
    BY <1>1, <2>2, ShowKeeps
  <2>4. QED BY <1>1, <2>1, <2>2, <2>3, PageKeeps
<1>3. CASE RefreshFails
  <2>1. UNCHANGED <<token, auth, tunnel, issued, ops, page>>
    BY <1>3 DEF RefreshFails
  <2>2. QrShape'
    BY <1>1, <2>1 DEF QrShape, page
  <2>3. QED BY <1>1, <2>1, <2>2, PageKeeps DEF page, TypeShape
<1>4. QED BY <1>2, <1>3

\* A request that is not in the line moves, and so may the page.
LEMMA OutsideKeeps ==
  ASSUME IInv, NEW i \in DOMAIN ops, NEW P, Moved(i, P),
         ops[i].at \notin InLine, P \cap InLine = {},
         UNCHANGED <<token, auth, tunnel, issued>>,
         meta' \in CopyOf(issued), busy' \in [Card -> 0..Len(ops)],
         DOMAIN qr' = Coded, DOMAIN drawing' = Coded,
         events' \in Nat, upsets' \in 0..MaxUpset, QrShape'
  PROVE  IInv'
<1>1. LineShape' /\ TunnelShape'
  BY StaysOutside DEF IInv
<1>2. TypeShape'
  BY DEF IInv, TypeShape, Moved, tunnel
<1>3. QED BY <1>1, <1>2 DEF IInv

LEMMA AnsweredKeeps ==
  ASSUME IInv, NEW i \in DOMAIN ops, Answered(i)
  PROVE  IInv'
<1>1. /\ TypeShape /\ QrShape /\ ops[i].at \notin InLine /\ issued \in Nat
      /\ issued' \in Nat /\ issued <= issued'
      /\ ops' = Over(i) /\ UNCHANGED <<token, auth, tunnel, issued, events, upsets>>
      /\ events' \in Nat /\ upsets' \in 0..MaxUpset /\ meta \in CopyOf(issued)
      /\ busy \in [Card -> 0..Len(ops)] /\ Len(ops) \in Nat
  BY DEF IInv, TypeShape, Answered, InLine, Inside
<1>2. Moved(i, {"over"}) /\ {"over"} \cap InLine = {}
  BY <1>1, OpMoves DEF InLine, Inside
<1>3. busy' \in [Card -> 0..Len(ops)]
  BY <1>1 DEF Answered, Freed
<1>4. /\ QrShape' /\ DOMAIN qr' = Coded /\ DOMAIN drawing' = Coded
      /\ meta' \in CopyOf(issued)
  <2>1. CASE Show(ops[i].answer)
    <3>1. ops[i].answer \in CopyOf(issued)
      <4>1. ops[i] \in OpOf(issued)
        BY <1>1 DEF TypeShape
      <4>2. QED BY <4>1 DEF OpOf
    <3>2. QED BY <1>1, <2>1, <3>1, ShowKeeps
  <2>2. CASE UNCHANGED <<meta, qr, drawing>>
    BY <1>1, <2>2 DEF TypeShape, QrShape
  <2>3. QED BY <2>1, <2>2 DEF Answered
<1>5. QED BY <1>1, <1>2, <1>3, <1>4, OutsideKeeps

LEMMA LostKeeps ==
  ASSUME IInv, NEW i \in DOMAIN ops, Lost(i)
  PROVE  IInv'
<1>1. /\ TypeShape /\ QrShape /\ ops[i].at \notin InLine
      /\ issued' \in Nat /\ issued <= issued' /\ UNCHANGED <<token, auth, tunnel, issued, page, events>>
      /\ ops' = [ops EXCEPT ![i].at = "failed", ![i].answer = Default]
      /\ events' \in Nat /\ upsets' \in 0..MaxUpset /\ "failed" \in Phase
  <2>1. TypeShape /\ QrShape
    BY DEF IInv
  <2>2. /\ ops[i].at \in {"sent", "answered"} /\ upsets < MaxUpset /\ upsets' = upsets + 1
        /\ ops' = [ops EXCEPT ![i].at = "failed", ![i].answer = Default]
        /\ UNCHANGED <<token, auth, tunnel, issued, page, events>>
    BY DEF Lost
  <2>3. issued \in Nat /\ upsets \in 0..MaxUpset /\ events \in Nat
    BY <2>1 DEF TypeShape
  <2>4. upsets' \in 0..MaxUpset
    BY <2>2, <2>3, NetworkBoundsAssumption
  <2>5. ops[i].at \notin InLine /\ "failed" \in Phase
    BY <2>2 DEF InLine, Inside, Phase
  <2>6. issued' \in Nat /\ issued <= issued' /\ events' \in Nat
    BY <2>2, <2>3
  <2>7. QED BY <2>1, <2>2, <2>4, <2>5, <2>6
<1>2. Default \in CopyOf(issued')
  BY <1>1 DEF Default, LanAccess, CopyOf
<1>3. Moved(i, {"failed"}) /\ {"failed"} \cap InLine = {}
  BY <1>1, <1>2, OpMoves DEF InLine, Inside
<1>4. /\ QrShape' /\ DOMAIN qr' = Coded /\ DOMAIN drawing' = Coded
      /\ meta' \in CopyOf(issued) /\ busy' \in [Card -> 0..Len(ops)]
  BY <1>1 DEF TypeShape, QrShape, page
<1>5. QED BY <1>1, <1>3, <1>4, OutsideKeeps

\* A new request is not in the line.
LEMMA ClickKeeps ==
  ASSUME IInv, NEW kind \in Kind, Click(kind) \/ ClickElsewhere(kind)
  PROVE  IInv'
<1>1. PICK e \in {Op(kind, TRUE), Op(kind, FALSE)} : ops' = Append(ops, e)
  BY DEF Click, ClickElsewhere
<1>2. e \in OpOf(issued) /\ e.at = "sent"
  <2>1. Default \in CopyOf(issued)
    BY DEF IInv, TypeShape, Default, LanAccess, CopyOf
  <2>2. PICK b \in BOOLEAN : e = [kind |-> kind, mine |-> b, at |-> "sent", answer |-> Default]
    BY <1>1 DEF Op
  <2>3. QED BY <2>1, <2>2 DEF OpOf, Phase
<1>3. /\ ops \in Seq(OpOf(issued)) /\ ops' \in Seq(OpOf(issued)) /\ Len(ops') = Len(ops) + 1
      /\ Len(ops) \in Nat
      /\ \A j \in DOMAIN ops : j \in DOMAIN ops' /\ ops'[j] = ops[j]
      /\ \A j \in DOMAIN ops' : j \in DOMAIN ops \/ ops'[j].at = "sent"
  BY <1>1, <1>2 DEF IInv, TypeShape
<1>4. UNCHANGED <<token, auth, tunnel, issued, meta, qr, drawing, events, upsets>>
  BY DEF Click, ClickElsewhere, page
<1>5. busy' \in [Card -> 0..Len(ops')]
  <2>1. busy \in [Card -> 0..Len(ops)]
    BY DEF IInv, TypeShape
  <2>2. CASE busy' = busy
    BY <1>3, <2>1, <2>2
  <2>3. CASE busy' = [busy EXCEPT ![CardOf(kind)] = Len(ops')]
    <3>1. \A c \in Card : busy[c] \in 0..Len(ops')
      BY <1>3, <2>1
    <3>2. Len(ops') \in 0..Len(ops') /\ DOMAIN busy' = Card
      BY <1>3, <2>1, <2>3
    <3>3. QED BY <2>1, <2>3, <3>1, <3>2
  <2>4. QED BY <2>2, <2>3 DEF Click, ClickElsewhere, page
<1>6. TypeShape' /\ QrShape'
  BY <1>3, <1>4, <1>5 DEF IInv, TypeShape, QrShape, tunnel
<1>7. LineShape'
  <2>1. line' = line /\ LineShape
    BY <1>4 DEF IInv, tunnel
  <2>2. ASSUME NEW j \in DOMAIN ops', ops'[j].at \in InLine
        PROVE  j \in DOMAIN ops /\ ops'[j] = ops[j]
    BY <1>3, <2>2 DEF InLine, Inside
  <2>3. "waiting" \in InLine /\ Inside \subseteq InLine
    BY DEF InLine
  <2>4. \A k \in DOMAIN line' : line'[k] \in DOMAIN ops' /\ ops'[line'[k]].at \in InLine
    BY <1>3, <2>1 DEF LineShape
  <2>5. ASSUME NEW j \in DOMAIN ops'
        PROVE  /\ ops'[j].at \in Inside => line' # <<>> /\ line'[1] = j
               /\ ops'[j].at = "waiting" => \E k \in DOMAIN line' : line'[k] = j
    BY <2>1, <2>2, <2>3 DEF LineShape
  <2>6. QED BY <2>1, <2>4, <2>5 DEF LineShape
<1>8. TunnelShape'
  <2>1. state' = state /\ url' = url /\ listeners' = listeners /\ TunnelShape
    BY <1>4 DEF IInv, tunnel
  <2>2. \A j \in DOMAIN ops' : ops'[j].at \in {"forward", "kill"} => ops'[j] = ops[j] /\ j \in DOMAIN ops
    BY <1>3
  <2>3. QED BY <1>3, <2>1, <2>2 DEF TunnelShape
<1>9. QED BY <1>6, <1>7, <1>8 DEF IInv

-----------------------------------------------------------------------------
(* The theorems. *)

LEMMA InitInv == NetInit => IInv
<1> SUFFICES ASSUME NetInit PROVE IInv
  OBVIOUS
<1>1. /\ ops = <<>> /\ line = <<>> /\ listeners = {} /\ state = "off" /\ url = 0
      /\ issued = 1 /\ events = 0 /\ upsets = 0 /\ meta = Now
      /\ busy = [c \in Card |-> 0]
      /\ qr = [c \in Coded |-> Value(c, meta)] /\ drawing = [c \in Coded |-> {}]
  BY DEF NetInit
<1>2. token \in 0..1 /\ auth \in BOOLEAN
  BY DEF NetInit
<1>3. meta \in CopyOf(issued)
  BY <1>1, <1>2 DEF Now, LanAccess, CopyOf
<1>4. TypeShape
  BY <1>1, <1>2, <1>3, NetworkBoundsAssumption DEF TypeShape
<1>5. QrShape
  BY <1>1 DEF QrShape
<1>6. LineShape /\ TunnelShape
  BY <1>1 DEF LineShape, TunnelShape
<1>7. QED BY <1>4, <1>5, <1>6 DEF IInv

LEMMA StepInv == IInv /\ [NetNext]_vars => IInv'
<1> SUFFICES ASSUME IInv, [NetNext]_vars PROVE IInv'
  OBVIOUS
<1>1. ASSUME NEW i \in DOMAIN ops,
             \/ Handle(i) \/ TakeLock(i) \/ Forward(i) \/ ForwardFails(i) \/ Killed(i)
             \/ Disconnected(i) \/ Answered(i) \/ Lost(i)
      PROVE  IInv'
  BY <1>1, HandleKeeps, TakeLockKeeps, ForwardKeeps, ForwardFailsKeeps, KilledKeeps,
     DisconnectedKeeps, AnsweredKeeps, LostKeeps
<1>2. ASSUME NEW c \in Coded, Draw(c) \/ DrawFails(c) PROVE IInv'
  <2>1. CASE Draw(c)
    <3>1. upsets' \in 0..MaxUpset
      BY <2>1 DEF Draw, IInv, TypeShape
    <3>2. QED BY <2>1, <3>1, DrawnKeeps DEF Draw
  <2>2. CASE DrawFails(c)
    <3>1. upsets' \in 0..MaxUpset
      BY <2>2, NetworkBoundsAssumption DEF DrawFails, IInv, TypeShape
    <3>2. QED BY <2>2, <3>1, DrawnKeeps DEF DrawFails
  <2>3. QED BY <1>2, <2>1, <2>2
<1>3. ASSUME NEW kind \in Kind, Click(kind) \/ ClickElsewhere(kind) PROVE IInv'
  BY <1>3, ClickKeeps
<1>4. CASE Refresh \/ RefreshFails
  BY <1>4, RefreshKeeps
<1>5. CASE Reopen
  BY <1>5, ReopenKeeps
<1>6. CASE UNCHANGED vars
  <2>1. /\ UNCHANGED <<token, auth, tunnel, issued, ops>>
        /\ UNCHANGED <<meta, busy, qr, drawing, events, upsets>>
    BY <1>6 DEF vars, page
  <2>2. QED BY <2>1, PageKeeps DEF IInv, TypeShape, QrShape
<1>7. QED
  BY <1>1, <1>2, <1>3, <1>4, <1>5, <1>6 DEF NetNext, Running

\* The inductive invariant holds in every reachable state.
THEOREM NetInvariant == NetSpec => []IInv
BY InitInv, StepInv, PTL DEF NetSpec

\* The types, the line of the lock, and that a QR code on screen is that of the
\* URL beside it once nothing is being drawn (useQrDataUrl).
THEOREM NetTypesHold == NetSpec => []NetTypeOK
<1>1. IInv => NetTypeOK
  <2> SUFFICES ASSUME IInv PROVE NetTypeOK
    OBVIOUS
  <2>1. QrIsCurrent
    BY DEF IInv, QrShape, QrIsCurrent
  <2>2. /\ Now \in Copy /\ meta \in Copy /\ listeners \subseteq 1..issued
        /\ ops \in Seq([kind : Kind \cup {"done"}, mine : BOOLEAN, at : Phase, answer : Copy])
        /\ busy \in [Card -> 0..Len(ops)]
        /\ DOMAIN qr = Coded /\ DOMAIN drawing = Coded
        /\ events \in Nat /\ upsets \in 0..MaxUpset
    BY DEF IInv, TypeShape, CopyOf, OpOf, Copy, Now, LanAccess
  <2>3. ASSUME NEW i \in DOMAIN ops
        PROVE  /\ ops[i].at \in {"forward", "kill", "disconnect"} => line # <<>> /\ Head(line) = i
               /\ ops[i].at = "waiting" => i \in ToSet(line)
    <3>1. line \in Seq(Nat) /\ LineShape
      BY DEF IInv, LineShape
    <3>2. line # <<>> => Head(line) = line[1]
      BY <3>1
    <3>3. QED BY <3>1, <3>2 DEF LineShape, Inside, ToSet
  <2>4. IsInjective(line)
    BY DEF IInv, LineShape, IsInjective
  <2>5. QED BY <2>1, <2>2, <2>3, <2>4 DEF NetTypeOK
<1>2. QED BY <1>1, NetInvariant, PTL

\* Whoever starts, stops and fails at the tunnel in whatever order: at most one
\* URL is forwarded, and when nobody has the lock the settings tell which.
THEOREM TunnelStateHolds == NetSpec => []TunnelIsTruthful
<1>1. IInv => TunnelIsTruthful
  <2> SUFFICES ASSUME IInv PROVE TunnelIsTruthful
    OBVIOUS
  <2>1. Cardinality(listeners) <= 1
    <3>1. CASE listeners = {}
      BY <3>1, FS_EmptySet
    <3>2. CASE listeners # {}
      <4>1. PICK x : listeners = {x}
        BY <3>2 DEF IInv, TunnelShape
      <4>2. Cardinality(listeners) = 1
        BY <4>1, FS_Singleton, Zenon
      <4>3. QED BY <4>2
    <3>3. QED BY <3>1, <3>2
  <2>2. ASSUME LockFree
        PROVE  listeners = IF state = "on" THEN {url} ELSE {}
    <3>1. LineShape /\ line \in Seq(Nat)
      BY DEF IInv, LineShape
    <3>2. \A j \in DOMAIN ops : ops[j].at \notin Inside
      <4>1. CASE line = <<>>
        BY <3>1, <4>1 DEF LineShape
      <4>2. CASE line # <<>> /\ ops[Head(line)].at = "waiting"
        <5>1. Head(line) = line[1] /\ 1 \in DOMAIN line
          BY <3>1, <4>2
        <5>2. Head(line) \in DOMAIN ops
          BY <3>1, <5>1 DEF LineShape
        <5>3. "waiting" \notin Inside
          BY DEF Inside
        <5>4. QED BY <3>1, <4>2, <5>1, <5>2, <5>3, InsideAlone
      <4>3. QED BY <2>2, <4>1, <4>2 DEF LockFree
    <3>3. QED BY <3>2 DEF IInv, TunnelShape, Inside
  <2>3. QED BY <2>1, <2>2 DEF TunnelIsTruthful
<1>2. QED BY <1>1, NetInvariant, PTL
=============================================================================
