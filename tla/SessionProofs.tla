----------------------------- MODULE SessionProofs -----------------------------
(***************************************************************************)
(* The safety properties of Session for all sets of requests and tool      *)
(* calls and every queue bound.                                            *)
(*                                                                         *)
(* The argument for the gate: while the receive loop runs, the gate is     *)
(* open exactly when no query is being written and no turn is running      *)
(* (GateShape), and each of the four steps that move the gate moves that   *)
(* sum with it.  The gate is set up once only, because just the holder of  *)
(* the start lock spawns, and it spawns only what is not started           *)
(* (StartShape).  For the order: what was sent, the message in hand and    *)
(* the queue are, one after the other, in the order of the log             *)
(* (OrderShape), as the log and the queue grow at the end only.            *)
(***************************************************************************)
EXTENDS Session, SequenceTheorems, TLAPS

StartShape ==
  /\ \A r \in Req : call[r] = "spawn" =>
       startLock # <<>> /\ Head(startLock) = r /\ ~started
  /\ ~started =>
       recv = "none" /\ send = "none" /\ turnDone /\ turns = <<>> /\ spawned = 0
  /\ started => spawned = 1

GateShape ==
  recv = "running" =>
    /\ turnDone => turns = <<>> /\ send # "query"
    /\ ~turnDone => \/ turns = <<>> /\ send = "query"
                    \/ Len(turns) = 1 /\ send # "query"

HeldShape == send \in {"gate", "query", "sent"} => held \in Msg

RouterShape ==
  \A t \in Tool :
    /\ tool[t] = "asked" <=> t \in pending
    /\ tool[t] \in {"idle", "asked"} => decision[t] = "none"

\* x occurs in q; x occurs in q before an occurrence of y.
Occurs(q, x) == \E k \in DOMAIN q : q[k] = x
Before(q, x, y) == \E k, l \in DOMAIN q : k < l /\ q[k] = x /\ q[l] = y

\* What was sent, the message in hand and the queue, in this order, follow the log.
OrderShape ==
  /\ \A i \in DOMAIN sent : Occurs(log, sent[i])
  /\ \A i \in DOMAIN inbound : Occurs(log, inbound[i])
  /\ \A i, j \in DOMAIN sent : i < j => Before(log, sent[i], sent[j])
  /\ \A i, j \in DOMAIN inbound : i < j => Before(log, inbound[i], inbound[j])
  /\ \A i \in DOMAIN sent, j \in DOMAIN inbound : Before(log, sent[i], inbound[j])
  /\ send = "gate" =>
       /\ Occurs(log, held)
       /\ \A i \in DOMAIN sent : Before(log, sent[i], held)
       /\ \A j \in DOMAIN inbound : Before(log, held, inbound[j])

IInv ==
  TypeOK /\ HeldShape /\ StartShape /\ GateShape /\ RouterShape /\ OrderShape

-----------------------------------------------------------------------------
(* Type correctness. *)

\* Sequences of any kind stay sequences of it under the operations used here.
LEMMA SeqType ==
  ASSUME NEW S, NEW q \in Seq(S)
  PROVE  /\ q # <<>> =>
              Head(q) \in S /\ Tail(q) \in Seq(S) /\ Len(Tail(q)) = Len(q) - 1
         /\ \A e \in S :
              /\ Append(q, e) \in Seq(S)
              /\ Len(Append(q, e)) = Len(q) + 1
              /\ Append(q, e) # <<>>
              /\ q # <<>> => Head(Append(q, e)) = Head(q)
              /\ q = <<>> => Head(Append(q, e)) = e
<1>1. q # <<>> =>
        Head(q) \in S /\ Tail(q) \in Seq(S) /\ Len(Tail(q)) = Len(q) - 1
  OBVIOUS
<1>2. ASSUME NEW e \in S
      PROVE  /\ Append(q, e) \in Seq(S)
             /\ Len(Append(q, e)) = Len(q) + 1
             /\ Append(q, e) # <<>>
             /\ q # <<>> => Head(Append(q, e)) = Head(q)
             /\ q = <<>> => Head(Append(q, e)) = e
  OBVIOUS
<1> QED
  BY <1>1, <1>2

\* The continuation of a request leaves the log, the queue and the requests
\* well formed, and no request begins to spawn in it.
LEMMA ProceedType ==
  ASSUME TypeOK, NEW r \in Req, Proceed(r)
  PROVE  /\ log' \in Seq(Msg \cup {"done"})
         /\ inbound' \in Seq(Msg) /\ Len(inbound') <= QueueCap
         /\ call' \in [Req -> {"new", "body", "lock", "spawn", "control",
                               "done", "refused", "failed"}]
         /\ \A s \in Req : call'[s] = "spawn" => s # r /\ call[s] = "spawn"
<1>1. log' \in Seq(Msg \cup {"done"})
  <2>1. CASE r \in Msg
    BY <2>1, SeqType DEF Proceed, TypeOK
  <2>2. CASE r \notin Msg
    BY <2>2 DEF Proceed, TypeOK
  <2>3. QED BY <2>1, <2>2
<1>2. inbound' \in Seq(Msg) /\ Len(inbound') <= QueueCap
  <2>1. CASE Accepted(r)
    BY <2>1, QueueAssumption DEF Accepted, Proceed, TypeOK
  <2>2. CASE ~Accepted(r)
    BY <2>2 DEF Proceed, TypeOK
  <2>3. QED BY <2>1, <2>2
<1>3. /\ call' \in [Req -> {"new", "body", "lock", "spawn", "control",
                            "done", "refused", "failed"}]
      /\ \A s \in Req : call'[s] = "spawn" => s # r /\ call[s] = "spawn"
  BY DEF Proceed, TypeOK
<1>4. QED BY <1>1, <1>2, <1>3

LEMMA InitInv == Init => IInv
<1> SUFFICES ASSUME Init PROVE IInv
  OBVIOUS
<1> USE DEF Init
<1>1. TypeOK
  <2>1. started \in BOOLEAN /\ turnDone \in BOOLEAN /\ closed \in BOOLEAN
        /\ interrupted \in BOOLEAN
    BY Zenon
  <2>2. startLock \in Seq(Req) /\ inbound \in Seq(Msg) /\ Len(inbound) <= QueueCap
        /\ log \in Seq(Msg \cup {"done"}) /\ sent \in Seq(Msg) /\ turns \in Seq(Msg)
    BY QueueAssumption
  <2>3. /\ tool \in [Tool -> {"idle", "asked", "answered", "returned", "cancelled"}]
        /\ asker \in [Tool -> Msg \cup {NoMsg}]
        /\ decision \in [Tool -> Decision \cup {"none"}]
        /\ call \in [Req -> {"new", "body", "lock", "spawn", "control",
                             "done", "refused", "failed"}]
    BY Zenon
  <2>4. pending \subseteq Tool /\ held \in Msg \cup {NoMsg} /\ spawned \in Nat
    OBVIOUS
  <2>5. QED
    BY <2>1, <2>2, <2>3, <2>4 DEF TypeOK
<1>2. HeldShape /\ StartShape /\ GateShape /\ RouterShape /\ OrderShape
  BY DEF HeldShape, StartShape, GateShape, RouterShape, OrderShape
<1>3. QED BY <1>1, <1>2 DEF IInv

\* One step of any actor keeps every variable in its type.
LEMMA TypeStep ==
  ASSUME IInv, [Next]_vars
  PROVE  TypeOK' /\ HeldShape'
<1> USE DEF IInv, reqVars, loopVars, closeVars, toolVars, sdkVars, HeldShape
<1>1. ASSUME NEW r \in Req, Lookup(r) \/ InterruptFails(r)
      PROVE  TypeOK' /\ HeldShape'
  <2>1. CASE Lookup(r)
    BY <2>1 DEF Lookup, TypeOK
  <2>2. CASE InterruptFails(r)
    BY <2>2 DEF InterruptFails, TypeOK
  <2>3. QED BY <1>1, <2>1, <2>2
<1>2. ASSUME NEW r \in Req, Submit(r) PROVE TypeOK' /\ HeldShape'
  <2>1. Proceed(r) /\ UNCHANGED <<startLock, started, spawned, loopVars, closeVars,
                                 toolVars, sent, sdkVars>>
    BY <1>2, Zenon DEF Submit
  <2>2. /\ log' \in Seq(Msg \cup {"done"})
        /\ inbound' \in Seq(Msg) /\ Len(inbound') <= QueueCap
        /\ call' \in [Req -> {"new", "body", "lock", "spawn", "control",
                              "done", "refused", "failed"}]
    BY <2>1, ProceedType, Zenon
  <2> QED BY <2>1, <2>2 DEF TypeOK
<1>3. ASSUME NEW r \in Req, Contend(r) PROVE TypeOK' /\ HeldShape'
  <2>1. startLock' \in Seq(Req)
    BY <1>3, SeqType DEF Contend, TypeOK
  <2>2. QED BY <1>3, <2>1 DEF Contend, TypeOK
<1>4. ASSUME NEW r \in Req, SpawnDone(r) PROVE TypeOK' /\ HeldShape'
  <2>1. startLock' \in Seq(Req)
    BY <1>4, SeqType DEF SpawnDone, TypeOK, StartShape
  <2>2. started' \in BOOLEAN
    BY <1>4, Zenon DEF SpawnDone
  <2>3. Proceed(r)
    BY <1>4 DEF SpawnDone
  <2>4. QED BY <1>4, <2>1, <2>2, <2>3, ProceedType DEF SpawnDone, TypeOK
<1>5. ASSUME NEW r \in Req, SpawnFails(r) PROVE TypeOK' /\ HeldShape'
  <2>1. startLock' \in Seq(Req)
    BY <1>5, SeqType DEF SpawnFails, TypeOK, StartShape
  <2>2. QED BY <1>5, <2>1 DEF SpawnFails, TypeOK
<1>6. ASSUME NEW r \in Req, Locked(r) PROVE TypeOK' /\ HeldShape'
  <2>1. CASE started /\ startLock' = Tail(startLock) /\ Proceed(r)
    <3>1. startLock' \in Seq(Req)
      BY <1>6, <2>1, SeqType DEF Locked, TypeOK
    <3>2. QED BY <1>6, <2>1, <3>1, ProceedType DEF Locked, TypeOK
  <2>2. CASE /\ call' = [call EXCEPT ![r] = "spawn"]
             /\ UNCHANGED <<startLock, inbound, log>>
    BY <1>6, <2>2 DEF Locked, TypeOK
  <2>3. QED BY <1>6, <2>1, <2>2 DEF Locked
<1>7. ASSUME NEW r \in Req, Interrupt(r) PROVE TypeOK' /\ HeldShape'
  <2>1. interrupted' \in BOOLEAN
    BY <1>7, Zenon DEF Interrupt
  <2>2. QED BY <1>7, <2>1 DEF Interrupt, TypeOK
<1>8. CASE Take
  <2>1. /\ inbound' \in Seq(Msg) /\ Len(inbound') <= QueueCap
        /\ held' \in Msg
    BY <1>8, SeqType, QueueAssumption DEF Take, TypeOK
  <2>2. QED BY <1>8, <2>1 DEF Take, TypeOK
<1>9. CASE Dispatch
  <2>1. sent' \in Seq(Msg)
    BY <1>9, SeqType DEF Dispatch, TypeOK
  <2>2. turnDone' \in BOOLEAN
    BY <1>9, Zenon DEF Dispatch
  <2>3. QED BY <1>9, <2>1, <2>2 DEF Dispatch, TypeOK
<1>10. CASE QueryAccepted
  <2>1. turns' \in Seq(Msg)
    BY <1>10, SeqType DEF QueryAccepted, TypeOK
  <2>2. QED BY <1>10, <2>1 DEF QueryAccepted, TypeOK
<1>11. CASE QueryReturns \/ QueryFails
  <2>1. turnDone' \in BOOLEAN
    BY <1>11, Zenon DEF QueryReturns, QueryFails, TypeOK
  <2>2. QED BY <1>11, <2>1 DEF QueryReturns, QueryFails, TypeOK
<1>12. CASE Result
  <2>1. turns' \in Seq(Msg)
    BY <1>12, SeqType DEF Result, TypeOK
  <2>2. turnDone' \in BOOLEAN /\ interrupted' \in BOOLEAN
    BY <1>12, Zenon DEF Result
  <2>3. QED BY <1>12, <2>1, <2>2 DEF Result, TypeOK
<1>13. CASE RecvEnds
  <2>1. turnDone' \in BOOLEAN
    BY <1>13, Zenon DEF RecvEnds
  <2>2. QED BY <1>13, <2>1 DEF RecvEnds, TypeOK
<1>14. ASSUME NEW t \in Tool, Callback(t) PROVE TypeOK' /\ HeldShape'
  <2>1. CASE Ask(t)
    <3>1. Head(turns) \in Msg
      BY <2>1, SeqType DEF Ask, TypeOK
    <3>2. QED BY <2>1, <3>1 DEF Ask, TypeOK
  <2>2. CASE Return(t)
    BY <2>2 DEF Return, TypeOK
  <2>3. ASSUME NEW d \in Decision, Reply(t, d) PROVE TypeOK' /\ HeldShape'
    BY <2>3 DEF Reply, TypeOK
  <2>4. QED BY <1>14, <2>1, <2>2, <2>3 DEF Callback
<1>15. CASE CloseCold
  <2>1. log' \in Seq(Msg \cup {"done"})
    BY <1>15, SeqType DEF CloseCold, TypeOK
  <2>2. closed' \in BOOLEAN
    BY <1>15, Zenon DEF CloseCold
  <2>3. QED BY <1>15, <2>1, <2>2 DEF CloseCold, Cancelled, TypeOK
<1>16. CASE Close
  <2>1. closed' \in BOOLEAN /\ turnDone' \in BOOLEAN
    BY <1>16, Zenon DEF Close
  <2>2. QED BY <1>16, <2>1 DEF Close, Cancelled, TypeOK
<1>17. CASE Disconnect
  <2>1. log' \in Seq(Msg \cup {"done"})
    BY <1>17, SeqType DEF Disconnect, TypeOK
  <2>2. QED BY <1>17, <2>1 DEF Disconnect, Cancelled, TypeOK
<1>18. CASE UNCHANGED vars
  BY <1>18 DEF vars, TypeOK
<1>19. QED
  BY <1>1, <1>2, <1>3, <1>4, <1>5, <1>6, <1>7, <1>8, <1>9, <1>10, <1>11, <1>12,
     <1>13, <1>14, <1>15, <1>16, <1>17, <1>18 DEF Next, Handler, SendLoop

-----------------------------------------------------------------------------
(* The start: only the holder of the lock spawns, and it spawns once. *)

\* Lock, started flag and loops stay consistent in every step.
LEMMA StartStep ==
  ASSUME IInv, [Next]_vars
  PROVE  StartShape'
<1> USE DEF IInv, reqVars, loopVars, closeVars, toolVars, sdkVars, StartShape
<1>1. ASSUME NEW r \in Req, Lookup(r) \/ InterruptFails(r) \/ Interrupt(r)
      PROVE  StartShape'
  BY <1>1 DEF Lookup, InterruptFails, Interrupt, TypeOK
<1>2. ASSUME NEW r \in Req, Submit(r) PROVE StartShape'
  BY <1>2, ProceedType DEF Submit
<1>3. ASSUME NEW r \in Req, Contend(r) PROVE StartShape'
  <2>1. /\ startLock' # <<>>
        /\ startLock # <<>> => Head(startLock') = Head(startLock)
        /\ startLock = <<>> => Head(startLock') = r
    BY <1>3, SeqType DEF Contend, TypeOK
  <2>2. ASSUME NEW s \in Req, call'[s] = "spawn"
        PROVE  startLock' # <<>> /\ Head(startLock') = s
    BY <1>3, <2>1, <2>2 DEF Contend, TypeOK
  <2>3. QED BY <1>3, <2>2 DEF Contend
<1>4. ASSUME NEW r \in Req, SpawnDone(r) PROVE StartShape'
  <2>1. ASSUME NEW s \in Req PROVE call'[s] # "spawn"
    BY <1>4, ProceedType DEF SpawnDone
  <2>2. started' /\ spawned' = 1
    BY <1>4 DEF SpawnDone
  <2>3. QED BY <2>1, <2>2
<1>5. ASSUME NEW r \in Req, SpawnFails(r) PROVE StartShape'
  <2>1. ASSUME NEW s \in Req PROVE call'[s] # "spawn"
    BY <1>5 DEF SpawnFails, TypeOK
  <2>2. QED BY <1>5, <2>1 DEF SpawnFails
<1>6. ASSUME NEW r \in Req, Locked(r) PROVE StartShape'
  <2>1. CASE started /\ startLock' = Tail(startLock) /\ Proceed(r)
    <3>1. ASSUME NEW s \in Req PROVE call'[s] # "spawn"
      BY <2>1, ProceedType
    <3>2. QED BY <1>6, <2>1, <3>1 DEF Locked
  <2>2. CASE /\ ~started
             /\ call' = [call EXCEPT ![r] = "spawn"]
             /\ UNCHANGED <<startLock, inbound, log>>
    BY <1>6, <2>2 DEF Locked, TypeOK
  <2>3. QED BY <1>6, <2>1, <2>2 DEF Locked
<1>7. CASE Take \/ Dispatch \/ QueryAccepted \/ QueryReturns \/ QueryFails
  BY <1>7 DEF Take, Dispatch, QueryAccepted, QueryReturns, QueryFails
<1>8. CASE Result \/ RecvEnds
  BY <1>8 DEF Result, RecvEnds
<1>9. ASSUME NEW t \in Tool, Callback(t) PROVE StartShape'
  BY <1>9 DEF Callback, Ask, Return, Reply
<1>10. CASE CloseCold \/ Close \/ Disconnect
  BY <1>10 DEF CloseCold, Close, Disconnect
<1>11. CASE UNCHANGED vars
  BY <1>11 DEF vars
<1>12. QED
  BY <1>1, <1>2, <1>3, <1>4, <1>5, <1>6, <1>7, <1>8, <1>9, <1>10, <1>11
     DEF Next, Handler, SendLoop

-----------------------------------------------------------------------------
(* The gate: each step that moves it moves the query or the turn it is for. *)

\* The gate stays closed exactly while a query is written or a turn runs.
LEMMA GateStep ==
  ASSUME IInv, [Next]_vars
  PROVE  GateShape'
<1> USE DEF IInv, reqVars, loopVars, closeVars, toolVars, sdkVars, GateShape
<1>1. ASSUME NEW r \in Req, Handler(r) PROVE GateShape'
  <2>1. CASE SpawnDone(r)
    BY <2>1 DEF SpawnDone, StartShape
  <2>2. CASE ~SpawnDone(r)
    BY <1>1, <2>2 DEF Handler, Lookup, Submit, Contend, SpawnFails, Locked,
                      Interrupt, InterruptFails
  <2>3. QED BY <2>1, <2>2
<1>2. CASE Take
  BY <1>2 DEF Take
<1>3. CASE Dispatch
  BY <1>3, Zenon DEF Dispatch
<1>4. CASE QueryAccepted
  <2>1. recv = "running" => Len(turns') = 1
    BY <1>4, SeqType DEF QueryAccepted, TypeOK, HeldShape
  <2>2. QED BY <1>4, <2>1 DEF QueryAccepted
<1>5. CASE QueryReturns
  BY <1>5 DEF QueryReturns
<1>6. CASE QueryFails
  BY <1>6 DEF QueryFails
<1>7. CASE Result
  <2>1. Len(turns) = 1 /\ send # "query"
    BY <1>7 DEF Result
  <2>2. turns' = <<>>
    <3>1. turns \in Seq(Msg) /\ turns' = Tail(turns)
      BY <1>7 DEF Result, TypeOK
    <3>2. turns' \in Seq(Msg) /\ Len(turns') = 0
      BY <2>1, <3>1, SeqType
    <3> QED
      BY <3>2
  <2>3. QED BY <1>7, <2>1, <2>2 DEF Result
<1>8. CASE RecvEnds \/ Close
  BY <1>8 DEF RecvEnds, Close
<1>9. ASSUME NEW t \in Tool, Callback(t) PROVE GateShape'
  BY <1>9 DEF Callback, Ask, Return, Reply
<1>10. CASE CloseCold \/ Disconnect
  BY <1>10 DEF CloseCold, Disconnect
<1>11. CASE UNCHANGED vars
  BY <1>11 DEF vars
<1>12. QED
  BY <1>1, <1>2, <1>3, <1>4, <1>5, <1>6, <1>7, <1>8, <1>9, <1>10, <1>11
     DEF Next, SendLoop

-----------------------------------------------------------------------------
(* The router: a future is pending exactly while its call waits. *)

\* Calls and futures are created, resolved and cancelled together.
LEMMA RouterStep ==
  ASSUME IInv, [Next]_vars
  PROVE  RouterShape'
<1> USE DEF IInv, reqVars, loopVars, closeVars, toolVars, sdkVars, RouterShape
<1>1. ASSUME NEW r \in Req, Handler(r) PROVE RouterShape'
  BY <1>1 DEF Handler, Lookup, Submit, Contend, SpawnDone, SpawnFails, Locked,
              Interrupt, InterruptFails
<1>2. CASE SendLoop \/ Result \/ RecvEnds
  BY <1>2 DEF SendLoop, Take, Dispatch, QueryAccepted, QueryReturns, QueryFails,
              Result, RecvEnds
<1>3. ASSUME NEW t \in Tool, Ask(t) PROVE RouterShape'
  BY <1>3 DEF Ask, TypeOK
<1>4. ASSUME NEW t \in Tool, NEW d \in Decision, Reply(t, d) PROVE RouterShape'
  BY <1>4 DEF Reply, Answerable, TypeOK
<1>5. ASSUME NEW t \in Tool, Return(t) PROVE RouterShape'
  BY <1>5 DEF Return, TypeOK
<1>6. CASE CloseCold \/ Close \/ Disconnect
  <2>1. pending' = {} /\ tool' = Cancelled /\ decision' = decision
    BY <1>6 DEF CloseCold, Close, Disconnect
  <2>2. QED BY <2>1 DEF Cancelled, TypeOK
<1>7. CASE UNCHANGED vars
  BY <1>7 DEF vars
<1>8. QED
  BY <1>1, <1>2, <1>3, <1>4, <1>5, <1>6, <1>7 DEF Next, Callback

-----------------------------------------------------------------------------
(* The order: the log grows at its end only, and so does the queue. *)

\* What an appended event leaves in place and what it comes after.
LEMMA LogGrows ==
  ASSUME NEW S, NEW q \in Seq(S), NEW e \in S
  PROVE  /\ Occurs(Append(q, e), e)
         /\ \A x : Occurs(q, x) => Occurs(Append(q, e), x) /\ Before(Append(q, e), x, e)
         /\ \A x, y : Before(q, x, y) => Before(Append(q, e), x, y)
<1> DEFINE p == Append(q, e)
<1>1. /\ DOMAIN p = 1..(Len(q) + 1) /\ DOMAIN q = 1..Len(q) /\ Len(q) \in Nat
      /\ p[Len(q) + 1] = e
      /\ \A i \in DOMAIN q : i \in DOMAIN p /\ p[i] = q[i] /\ i < Len(q) + 1
      /\ Len(q) + 1 \in DOMAIN p
  OBVIOUS
<1> HIDE DEF p
<1>2. Occurs(p, e)
  BY <1>1 DEF Occurs
<1>3. ASSUME NEW x, Occurs(q, x)
      PROVE  Occurs(p, x) /\ Before(p, x, e)
  BY <1>1, <1>3 DEF Occurs, Before
<1>4. ASSUME NEW x, NEW y, Before(q, x, y)
      PROVE  Before(p, x, y)
  BY <1>1, <1>4 DEF Before
<1>5. QED
  BY <1>2, <1>3, <1>4 DEF p

\* A step that adds to the log and leaves the messages on their way alone.
LEMMA OnlyLogMoves ==
  ASSUME IInv, UNCHANGED <<inbound, sent>>,
         send' = "gate" => send = "gate" /\ held' = held,
         log' = log \/ \E e \in Msg \cup {"done"} : log' = Append(log, e)
  PROVE  OrderShape'
<1>1. /\ \A x : Occurs(log, x) => Occurs(log', x)
      /\ \A x, y : Before(log, x, y) => Before(log', x, y)
  <2>1. CASE log' = log
    BY <2>1
  <2>2. CASE \E e \in Msg \cup {"done"} : log' = Append(log, e)
    <3>1. PICK e \in Msg \cup {"done"} : log' = Append(log, e)
      BY <2>2
    <3>2. log \in Seq(Msg \cup {"done"})
      BY DEF IInv, TypeOK
    <3>3. QED BY <3>1, <3>2, LogGrows, Zenon
  <2>3. QED BY <2>1, <2>2
<1>2. inbound' = inbound /\ sent' = sent /\ OrderShape
  BY DEF IInv
<1>3. send' = "gate" =>
        /\ Occurs(log', held')
        /\ \A i \in DOMAIN sent : Before(log', sent[i], held')
        /\ \A j \in DOMAIN inbound : Before(log', held', inbound[j])
  BY <1>1, <1>2, Zenon DEF OrderShape
<1>4. QED
  BY <1>1, <1>2, <1>3, Zenon DEF OrderShape

\* A message is logged, and queued behind everything on its way if there is room.
LEMMA ProceedOrder ==
  ASSUME IInv, NEW r \in Req, Proceed(r), UNCHANGED <<sent, held>>,
         send' = "gate" => send = "gate"
  PROVE  OrderShape'
<1>1. CASE ~Accepted(r)
  BY <1>1, OnlyLogMoves DEF Proceed
<1>2. CASE Accepted(r)
  <2>1. r \in Msg /\ log' = Append(log, r) /\ inbound' = Append(inbound, r)
    BY <1>2 DEF Proceed, Accepted
  <2>2. log \in Seq(Msg \cup {"done"}) /\ inbound \in Seq(Msg)
    BY DEF IInv, TypeOK
  <2>3. /\ Occurs(log', r)
        /\ \A x : Occurs(log, x) => Occurs(log', x) /\ Before(log', x, r)
        /\ \A x, y : Before(log, x, y) => Before(log', x, y)
    BY <2>1, <2>2, LogGrows
  <2>4. \A j \in DOMAIN inbound' :
          (j \in DOMAIN inbound /\ inbound'[j] = inbound[j])
            \/ (j = Len(inbound) + 1 /\ inbound'[j] = r)
    BY <2>1, <2>2
  <2>5. ASSUME NEW i \in DOMAIN inbound', NEW j \in DOMAIN inbound', i < j
        PROVE  Before(log', inbound'[i], inbound'[j])
    <3>1. i \in DOMAIN inbound /\ inbound'[i] = inbound[i]
      BY <2>1, <2>2, <2>4, <2>5
    <3>2. QED
      BY <2>3, <2>4, <2>5, <3>1 DEF IInv, OrderShape
  <2>6. QED
    BY <2>3, <2>4, <2>5 DEF IInv, OrderShape
<1>3. QED
  BY <1>1, <1>2

\* Every step keeps the messages on their way in the order of the log.
LEMMA OrderStep ==
  ASSUME IInv, [Next]_vars
  PROVE  OrderShape'
<1> USE DEF reqVars, loopVars, closeVars, toolVars, sdkVars
<1>1. ASSUME NEW r \in Req, Handler(r) PROVE OrderShape'
  <2>1. CASE Submit(r)
    BY <2>1, ProceedOrder DEF Submit
  <2>2. CASE SpawnDone(r)
    BY <2>2, ProceedOrder DEF SpawnDone
  <2>3. CASE Locked(r)
    <3>1. CASE Proceed(r)
      BY <2>3, <3>1, ProceedOrder DEF Locked
    <3>2. CASE UNCHANGED <<startLock, inbound, log>>
      BY <2>3, <3>2, OnlyLogMoves DEF Locked
    <3>3. QED BY <2>3, <3>1, <3>2 DEF Locked
  <2>4. CASE Lookup(r) \/ Contend(r) \/ SpawnFails(r) \/ Interrupt(r) \/ InterruptFails(r)
    BY <2>4, OnlyLogMoves DEF Lookup, Contend, SpawnFails, Interrupt, InterruptFails
  <2>5. QED BY <1>1, <2>1, <2>2, <2>3, <2>4 DEF Handler
<1>2. CASE Take
  <2>1. /\ inbound \in Seq(Msg) /\ inbound # <<>> /\ inbound' = Tail(inbound)
        /\ held' = Head(inbound) /\ log' = log /\ sent' = sent
    BY <1>2 DEF Take, IInv, TypeOK
  <2>2. /\ 1 \in DOMAIN inbound /\ held' = inbound[1]
        /\ \A j \in DOMAIN inbound' :
             j \in Nat /\ j + 1 \in DOMAIN inbound /\ 1 < j + 1
               /\ inbound'[j] = inbound[j + 1]
    BY <2>1
  <2>3. \A i, j \in DOMAIN inbound' : i < j => i + 1 < j + 1
    BY <2>2
  <2>4. QED
    BY <2>1, <2>2, <2>3 DEF IInv, OrderShape
<1>3. CASE Dispatch
  <2>1. /\ sent \in Seq(Msg) /\ held \in Msg /\ sent' = Append(sent, held)
        /\ log' = log /\ inbound' = inbound /\ send = "gate" /\ send' = "query"
    BY <1>3 DEF Dispatch, IInv, TypeOK, HeldShape
  <2>2. \A i \in DOMAIN sent' :
          \/ i \in DOMAIN sent /\ sent'[i] = sent[i]
          \/ i = Len(sent) + 1 /\ sent'[i] = held
    BY <2>1
  <2>3. ASSUME NEW i \in DOMAIN sent', NEW j \in DOMAIN sent', i < j
        PROVE  i \in DOMAIN sent /\ sent'[i] = sent[i]
    BY <2>1, <2>2, <2>3
  <2>4. QED
    BY <2>1, <2>2, <2>3 DEF IInv, OrderShape
<1>4. CASE QueryAccepted \/ QueryReturns \/ QueryFails
  BY <1>4, OnlyLogMoves DEF QueryAccepted, QueryReturns, QueryFails
<1>5. CASE Result \/ RecvEnds
  BY <1>5, OnlyLogMoves DEF Result, RecvEnds
<1>6. ASSUME NEW t \in Tool, Callback(t) PROVE OrderShape'
  BY <1>6, OnlyLogMoves DEF Callback, Ask, Return, Reply
<1>7. CASE CloseCold \/ Close \/ Disconnect
  BY <1>7, OnlyLogMoves DEF CloseCold, Close, Disconnect
<1>8. CASE UNCHANGED vars
  BY <1>8, OnlyLogMoves DEF vars
<1>9. QED
  BY <1>1, <1>2, <1>3, <1>4, <1>5, <1>6, <1>7, <1>8 DEF Next, SendLoop

-----------------------------------------------------------------------------
(* The theorems. *)

\* The inductive invariant holds in every reachable state.
THEOREM SessionInvariant == Spec => []IInv
<1>1. IInv /\ [Next]_vars => IInv'
  BY TypeStep, StartStep, GateStep, RouterStep, OrderStep DEF IInv
<1>2. QED BY <1>1, InitInv, PTL DEF Spec

\* Every variable keeps its type; in particular the inbound queue never grows
\* beyond its bound.
THEOREM SessionTypeOK == Spec => []TypeOK
<1>1. IInv => TypeOK
  BY DEF IInv
<1>2. QED BY <1>1, SessionInvariant, PTL

\* The gate admits one query at a time, for any number of queued messages and
\* any timing of results, failures and interrupts.
THEOREM OneOutstandingTurn == Spec => []OneTurnAtATime
<1>1. IInv => OneTurnAtATime
  <2> SUFFICES ASSUME IInv, recv = "running"
               PROVE  Len(turns) + (IF send = "query" THEN 1 ELSE 0) <= 1
    BY DEF OneTurnAtATime
  <2>1. CASE turnDone
    BY <2>1 DEF IInv, GateShape
  <2>2. CASE ~turnDone /\ turns = <<>>
    BY <2>2
  <2>3. CASE ~turnDone /\ turns # <<>>
    <3>1. Len(turns) = 1 /\ send # "query"
      BY <2>3, Zenon DEF IInv, GateShape
    <3>2. QED BY <3>1
  <2>4. QED BY <2>1, <2>2, <2>3
<1>2. QED BY <1>1, SessionInvariant, PTL

\* The gate is never left closed with nothing under way that will open it.
THEOREM GateIsOpened == Spec => []GateHasOpener
<1>1. IInv => GateHasOpener
  BY DEF IInv, GateShape, GateHasOpener
<1>2. QED BY <1>1, SessionInvariant, PTL

\* A tool call waits exactly as long as the router can resolve it.
THEOREM RouterMatchesCalls == Spec => []WaitingMeansAnswerable
<1>1. IInv => WaitingMeansAnswerable
  BY DEF IInv, RouterShape, WaitingMeansAnswerable
<1>2. QED BY <1>1, SessionInvariant, PTL

\* The SDK is given the messages in the order of the transcript, through any
\* interleaving of requests, spawns, refusals and a query that fails.
THEOREM TranscriptOrder == Spec => []SentInLogOrder
<1>1. IInv => SentInLogOrder
  BY DEF IInv, OrderShape, Before, SentInLogOrder
<1>2. QED BY <1>1, SessionInvariant, PTL

\* However many requests contend for the start, one client is spawned.
THEOREM OneSpawn == Spec => []OneClient
<1>1. IInv => OneClient
  BY DEF IInv, StartShape, TypeOK, OneClient
<1>2. QED BY <1>1, SessionInvariant, PTL

\* The first reply decides a tool call: a decision, once taken, is not replaced.
THEOREM FirstReplyDecides == Spec => FirstReplyWins
<1> DEFINE Kept == \A t \in Tool : decision[t] # "none" => decision'[t] = decision[t]
<1>1. IInv /\ [Next]_vars => Kept \/ UNCHANGED vars
  <2> SUFFICES ASSUME IInv, Next PROVE Kept
    BY DEF vars
  <2> USE DEF reqVars, loopVars, closeVars, toolVars, sdkVars
  <2>1. ASSUME NEW r \in Req, Handler(r) PROVE Kept
    BY <2>1 DEF Handler, Lookup, Submit, Contend, SpawnDone, SpawnFails, Locked,
                Interrupt, InterruptFails
  <2>2. CASE SendLoop \/ Result \/ RecvEnds \/ CloseCold \/ Close \/ Disconnect
    BY <2>2 DEF SendLoop, Take, Dispatch, QueryAccepted, QueryReturns, QueryFails,
                Result, RecvEnds, CloseCold, Close, Disconnect
  <2>3. ASSUME NEW t \in Tool, Ask(t) \/ Return(t) PROVE Kept
    BY <2>3 DEF Ask, Return
  <2>4. ASSUME NEW t \in Tool, NEW d \in Decision, Reply(t, d) PROVE Kept
    <3>1. decision[t] = "none"
      BY <2>4 DEF Reply, Answerable, IInv, RouterShape
    <3>2. QED BY <2>4, <3>1 DEF Reply, IInv, TypeOK
  <2>5. QED BY <2>1, <2>2, <2>3, <2>4 DEF Next, Callback
<1>2. QED BY <1>1, SessionInvariant, PTL DEF Spec, FirstReplyWins

-----------------------------------------------------------------------------
(* A session implements a queue of turns.  The inductive invariant lacks   *)
(* what the phases of a session are good for: what cannot happen any more  *)
(* once close() has begun, and once it is over.                            *)

PhaseShape ==
  /\ started => recv # "none"
  /\ closed <=> closing # "no"
  /\ closed => send \in {"none", "ended"}
  /\ closing = "disconnecting" => started /\ send = "ended" /\ recv = "ended"
  /\ closing = "done" => pending = {} /\ (turns = <<>> \/ client # "up")

\* Every step keeps to the phases.
LEMMA PhaseStep ==
  ASSUME IInv, PhaseShape, [Next]_vars
  PROVE  PhaseShape'
<1> USE DEF PhaseShape, reqVars, loopVars, closeVars, toolVars, sdkVars
<1>1. ASSUME NEW r \in Req, Handler(r) PROVE PhaseShape'
  <2>1. CASE SpawnDone(r)
    <3>1. ~started /\ turns = <<>> /\ send = "none"
      BY <2>1, Zenon DEF SpawnDone, IInv, StartShape
    <3> QED
      BY <2>1, <3>1 DEF SpawnDone
  <2>2. CASE ~SpawnDone(r)
    BY <1>1, <2>2 DEF Handler, Lookup, Submit, Contend, SpawnFails, Locked,
                      Interrupt, InterruptFails
  <2> QED
    BY <2>1, <2>2
<1>2. CASE Take \/ Dispatch \/ QueryAccepted \/ QueryReturns \/ QueryFails
  BY <1>2 DEF Take, Dispatch, QueryAccepted, QueryReturns, QueryFails
<1>3. CASE Result \/ RecvEnds
  BY <1>3 DEF Result, RecvEnds
<1>4. ASSUME NEW t \in Tool, Callback(t) PROVE PhaseShape'
  BY <1>4 DEF Callback, Ask, Return, Reply, Answerable
<1>5. CASE CloseCold
  BY <1>5 DEF CloseCold, IInv, StartShape
<1>6. CASE Close
  BY <1>6 DEF Close
<1>7. CASE Disconnect
  BY <1>7 DEF Disconnect
<1>8. CASE UNCHANGED vars
  BY <1>8 DEF vars
<1> QED
  BY <1>1, <1>2, <1>3, <1>4, <1>5, <1>6, <1>7, <1>8 DEF Next, SendLoop

\* The phases of a session, in every reachable state.
LEMMA SessionPhases == Spec => [](IInv /\ PhaseShape)
<1>1. Init => PhaseShape
  BY DEF Init, PhaseShape
<1>2. IInv /\ PhaseShape /\ [Next]_vars => PhaseShape'
  BY PhaseStep
<1> QED
  BY <1>1, <1>2, SessionInvariant, PTL DEF Spec

\* An element added behind two sequences is added behind the second.
LEMMA AppendBehind ==
  ASSUME NEW S, NEW p \in Seq(S), NEW q \in Seq(S), NEW e \in S
  PROVE  p \o Append(q, e) = Append(p \o q, e)
<1>1. Append(q, e) = q \o <<e>> /\ <<e>> \in Seq(S) /\ p \o q \in Seq(S)
  BY AppendIsConcat, ConcatProperties
<1>2. Append(p \o q, e) = (p \o q) \o <<e>>
  BY <1>1, AppendIsConcat, Zenon
<1>3. (p \o q) \o <<e>> = p \o (q \o <<e>>)
  BY <1>1, ConcatAssociative
<1> QED
  BY <1>1, <1>2, <1>3

\* A sequence with an element put before it.
LEMMA Before1 ==
  ASSUME NEW S, NEW q \in Seq(S), NEW e \in S
  PROVE  /\ <<e>> \o q \in Seq(S) /\ <<e>> \o q # <<>>
         /\ Head(<<e>> \o q) = e /\ Tail(<<e>> \o q) = q
         /\ Len(<<e>> \o q) = Len(q) + 1
<1> DEFINE w == <<e>> \o q
<1>1. /\ w \in Seq(S) /\ Len(w) = Len(q) + 1
      /\ w[1] = e /\ \A i \in 1..Len(q) : w[i + 1] = q[i]
  OBVIOUS
<1> HIDE DEF w
<1>2. w # <<>> /\ Head(w) = e
  BY <1>1
<1>3. /\ Tail(w) \in Seq(S) /\ Len(Tail(w)) = Len(q)
      /\ \A i \in 1..Len(q) : Tail(w)[i] = w[i + 1]
  BY <1>1, <1>2
<1>4. Tail(w) = q
  <2>1. \A i \in 1..Len(q) : Tail(w)[i] = q[i]
    BY <1>1, <1>3, Zenon
  <2> QED
    BY <1>3, <2>1, SeqEqual, Zenon
<1> QED
  BY <1>1, <1>2, <1>4 DEF w

\* A sequence is its first element before the rest.
LEMMA FirstAndRest ==
  ASSUME NEW S, NEW q \in Seq(S), q # <<>>
  PROVE  <<Head(q)>> \o Tail(q) = q
<1>1. Head(q) \in S /\ Tail(q) \in Seq(S) /\ Len(q) = Len(Tail(q)) + 1
      /\ Head(q) = q[1] /\ \A i \in 1..Len(Tail(q)) : Tail(q)[i] = q[i + 1]
  OBVIOUS
<1> DEFINE w == <<Head(q)>> \o Tail(q)
<1>2. w \in Seq(S) /\ Len(w) = Len(q) /\ w[1] = q[1]
      /\ \A i \in 1..Len(Tail(q)) : w[i + 1] = q[i + 1]
  BY <1>1
<1>3. \A i \in 1..Len(q) : i = 1 \/ (i - 1 \in 1..Len(Tail(q)) /\ (i - 1) + 1 = i)
  BY <1>1
<1> HIDE DEF w
<1>4. \A i \in 1..Len(w) : w[i] = q[i]
  BY <1>2, <1>3
<1> QED
  BY <1>2, <1>4, SeqEqual DEF w

\* How much waits, and what a message added to the queue adds to it.
LEMMA WaitingQueue ==
  ASSUME IInv, ~closed
  PROVE  /\ Waiting \in Seq(Msg)
         /\ Len(Waiting) = Len(inbound) + (IF send = "gate" THEN 1 ELSE 0)
         /\ \A m \in Msg :
              (IF send = "gate" THEN <<held>> ELSE <<>>) \o Append(inbound, m)
                = Append(Waiting, m)
<1>1. inbound \in Seq(Msg) /\ (send = "gate" => held \in Msg)
  BY DEF IInv, TypeOK, HeldShape
<1>2. CASE send = "gate"
  <2>1. Waiting = <<held>> \o inbound /\ held \in Msg /\ <<held>> \in Seq(Msg)
    BY <1>1, <1>2 DEF Waiting
  <2>2. Waiting \in Seq(Msg) /\ Len(Waiting) = Len(inbound) + 1
    BY <1>1, <2>1, Before1
  <2>3. \A m \in Msg : <<held>> \o Append(inbound, m) = Append(Waiting, m)
    <3> TAKE m \in Msg
    <3>1. <<held>> \o Append(inbound, m) = Append(<<held>> \o inbound, m)
      BY <1>1, <2>1, AppendBehind
    <3> QED
      BY <2>1, <3>1
  <2> QED
    BY <1>2, <2>2, <2>3
<1>3. CASE send # "gate"
  <2>1. Waiting = <<>> \o inbound
    BY <1>3 DEF Waiting
  <2>2. Waiting = inbound
    BY <1>1, <2>1, ConcatEmptySeq, Zenon
  <2>3. \A m \in Msg : <<>> \o Append(inbound, m) = Append(inbound, m)
    <3> TAKE m \in Msg
    <3>1. Append(inbound, m) \in Seq(Msg)
      BY <1>1
    <3> QED
      BY <3>1, ConcatEmptySeq, Zenon
  <2>4. Len(inbound) \in Nat
    BY <1>1
  <2> QED
    BY <1>1, <1>3, <2>2, <2>3, <2>4
<1> QED
  BY <1>2, <1>3

\* What the queue of turns is seen by, but for the messages and the questions.
SameTurns == Turn' = Turn /\ Phase' = Phase /\ sent' = sent
SameQuestions == Asked' = Asked /\ pending' = pending /\ decision' = decision
Unseen == log' = log /\ Waiting' = Waiting /\ SameTurns /\ SameQuestions

\* A step of the queue, or none.
TurnStep == Turns!QueueNext \/ UNCHANGED Turns!turnQueueVars

\* What is not seen is no step of the queue.
LEMMA UnseenStutters == Unseen => TurnStep
BY DEF Unseen, SameTurns, SameQuestions, TurnStep, Turns!turnQueueVars,
       Turns!talkVars, Turns!turnVars, Turns!askVars

\* What goes on with a request says something, or nothing.
LEMMA ProceedSays ==
  ASSUME IInv, PhaseShape, NEW r \in Req, Proceed(r), SameTurns, SameQuestions,
         closed' = closed, held' = held, (send' = "gate") = (send = "gate")
  PROVE  TurnStep
<1>1. CASE r \notin Msg
  <2>1. log' = log /\ inbound' = inbound
    BY <1>1 DEF Proceed, Accepted
  <2>2. Waiting' = Waiting
    BY <2>1 DEF Waiting
  <2> QED
    BY <2>1, <2>2, UnseenStutters DEF Unseen
<1>2. CASE r \in Msg
  <2>1. log' = Append(log, r)
    BY <1>2 DEF Proceed
  <2>a. Turns!Alive <=> ~closed
    BY DEF Turns!Alive, Phase, PhaseShape
  <2>2. \/ Turns!Alive /\ Len(Waiting) <= QueueCap /\ Waiting' = Append(Waiting, r)
        \/ (Turns!Alive => Len(Waiting) >= QueueCap) /\ Waiting' = Waiting
    <3>1. CASE closed
      BY <2>a, <3>1 DEF Waiting
    <3>2. CASE ~closed /\ Accepted(r)
      <4>1. Len(inbound) < QueueCap /\ inbound' = Append(inbound, r)
        BY <3>2 DEF Accepted, Proceed
      <4>2. Waiting' = (IF send = "gate" THEN <<held>> ELSE <<>>) \o Append(inbound, r)
        BY <3>2, <4>1 DEF Waiting
      <4>3. Waiting' = Append(Waiting, r)
        BY <1>2, <3>2, <4>2, WaitingQueue
      <4>4. Len(inbound) \in Nat
        BY DEF IInv, TypeOK
      <4>5. Len(Waiting) <= QueueCap
        BY <3>2, <4>1, <4>4, WaitingQueue, QueueAssumption
      <4> QED
        BY <2>a, <3>2, <4>3, <4>5
    <3>3. CASE ~closed /\ ~Accepted(r)
      <4>1. inbound' = inbound /\ ~(Len(inbound) < QueueCap)
        BY <1>2, <3>3 DEF Accepted, Proceed
      <4>2. Waiting' = Waiting
        BY <3>3, <4>1 DEF Waiting
      <4>3. Len(inbound) \in Nat
        BY DEF IInv, TypeOK
      <4>4. Len(Waiting) >= QueueCap
        BY <3>3, <4>1, <4>3, WaitingQueue, QueueAssumption
      <4> QED
        BY <4>2, <4>4
    <3> QED
      BY <3>1, <3>2, <3>3
  <2>3. Turns!Say(r)
    BY <2>1, <2>2 DEF Turns!Say, SameTurns, SameQuestions, Turns!turnVars, Turns!askVars
  <2> QED
    BY <1>2, <2>3 DEF TurnStep, Turns!QueueNext
<1> QED
  BY <1>1, <1>2

\* A request's handler says its message, or is not seen.
LEMMA HandlerTurns ==
  ASSUME IInv, PhaseShape, NEW r \in Req, Handler(r)
  PROVE  TurnStep
<1> USE DEF reqVars, loopVars, closeVars, toolVars, sdkVars
<1>1. CASE Submit(r)
  <2>1. /\ Proceed(r)
        /\ UNCHANGED <<closed, held, send, turns, closing, recv, sent, tool, pending, decision>>
    BY <1>1 DEF Submit
  <2>2. SameTurns /\ SameQuestions
    BY <2>1 DEF SameTurns, SameQuestions, Turn, Phase, Asked
  <2> QED
    BY <2>1, <2>2, ProceedSays
<1>2. CASE SpawnDone(r)
  <2>1. /\ Proceed(r) /\ recv' = "running" /\ send' = IF closed THEN "ended" ELSE "get"
        /\ UNCHANGED <<closed, held, turns, closing, sent, tool, pending, decision>>
    BY <1>2 DEF SpawnDone
  <2>2. turns = <<>> /\ send = "none" /\ recv = "none" /\ (closed => closing = "done")
    BY <1>2 DEF SpawnDone, IInv, TypeOK, StartShape, PhaseShape
  <2>3. SameTurns /\ SameQuestions
    BY <2>1, <2>2 DEF SameTurns, SameQuestions, Turn, Phase, Asked
  <2> QED
    BY <2>1, <2>2, <2>3, ProceedSays
<1>3. CASE Locked(r) /\ Proceed(r)
  <2>1. UNCHANGED <<closed, held, send, turns, closing, recv, sent, tool, pending, decision>>
    BY <1>3 DEF Locked
  <2>2. SameTurns /\ SameQuestions
    BY <2>1 DEF SameTurns, SameQuestions, Turn, Phase, Asked
  <2> QED
    BY <1>3, <2>1, <2>2, ProceedSays
<1>4. CASE \/ Lookup(r) \/ Contend(r) \/ SpawnFails(r) \/ Interrupt(r)
           \/ InterruptFails(r) \/ (Locked(r) /\ UNCHANGED <<startLock, inbound, log>>)
  <2>1. UNCHANGED <<closed, held, send, turns, closing, recv, sent, tool, pending,
                    decision, log, inbound>>
    BY <1>4 DEF Lookup, Contend, SpawnFails, Interrupt, InterruptFails, Locked
  <2>2. Unseen
    BY <2>1 DEF Unseen, SameTurns, SameQuestions, Turn, Phase, Asked, Waiting
  <2> QED
    BY <2>2, UnseenStutters
<1>5. Locked(r) => Proceed(r) \/ UNCHANGED <<startLock, inbound, log>>
  BY DEF Locked
<1> QED
  BY <1>1, <1>2, <1>3, <1>4, <1>5 DEF Handler

\* While a query is written, no turn runs that anyone reads about.
LEMMA QueryAlone ==
  ASSUME IInv, PhaseShape, send \in {"gate", "query"}
  PROVE  /\ recv \in {"running", "ended"}
         /\ send = "query" /\ recv # "ended" => turns = <<>>
<1>1. started
  BY DEF IInv, StartShape
<1>2. recv \in {"running", "ended"}
  BY <1>1 DEF IInv, TypeOK, PhaseShape
<1>3. ASSUME send = "query", recv = "running"
      PROVE  turns = <<>>
  <2>1. CASE turnDone
    BY <1>3, <2>1, Zenon DEF IInv, GateShape
  <2>2. CASE ~turnDone
    BY <1>3, <2>2, Zenon DEF IInv, GateShape
  <2> QED
    BY <2>1, <2>2
<1> QED
  BY <1>2, <1>3

\* The gate opens for the oldest message that waits, and only then.
LEMMA DispatchBegins ==
  ASSUME IInv, PhaseShape, Dispatch
  PROVE  Turns!Begin
<1> USE DEF reqVars, loopVars, closeVars, toolVars, sdkVars
<1>1. /\ send = "gate" /\ turnDone /\ send' = "query" /\ sent' = Append(sent, held)
      /\ UNCHANGED <<inbound, held, recv, closed, closing, tool, pending, decision,
                     log, turns>>
  BY DEF Dispatch
<1>2. held \in Msg /\ inbound \in Seq(Msg) /\ ~closed /\ closing = "no"
  BY <1>1 DEF IInv, TypeOK, HeldShape, PhaseShape
<1>3. Waiting = <<held>> \o inbound /\ Waiting' = <<>> \o inbound
  BY <1>1, <1>2 DEF Waiting
<1>4. Waiting # <<>> /\ Head(Waiting) = held /\ Tail(Waiting) = inbound
  BY <1>2, <1>3, Before1
<1>5. Waiting' = Tail(Waiting)
  <2>1. <<>> \o inbound = inbound
    BY <1>2, ConcatEmptySeq, Zenon
  <2> QED
    BY <1>3, <1>4, <2>1, Zenon
<1>6. recv \in {"running", "ended"}
  BY <1>1, QueryAlone
<1>7. recv = "running" => turns = <<>>
  BY <1>1 DEF IInv, GateShape
<1>8. /\ Phase \in {"open", "deaf"} /\ Phase' = Phase /\ Turn = NoMsg
      /\ Turn' = IF Phase = "open" THEN held ELSE NoMsg
  BY <1>1, <1>2, <1>6, <1>7 DEF Phase, Turn
<1>9. Asked' = Asked
  BY <1>1 DEF Asked
<1> QED
  BY <1>1, <1>4, <1>5, <1>8, <1>9 DEF Turns!Begin, Turns!Alive, Turns!askVars

\* The send loop begins turns, gives up those it cannot hand over, and is not
\* seen in anything else it does.
LEMMA SendTurns ==
  ASSUME IInv, PhaseShape, SendLoop
  PROVE  TurnStep
<1> USE DEF reqVars, loopVars, closeVars, toolVars, sdkVars
<1>1. CASE Take
  <2>1. /\ send = "get" /\ send' = "gate" /\ held' = Head(inbound)
        /\ inbound' = Tail(inbound) /\ inbound # <<>>
        /\ UNCHANGED <<closed, turns, closing, recv, sent, tool, pending, decision, log>>
    BY <1>1 DEF Take
  <2>2. inbound \in Seq(Msg) /\ ~closed
    BY <2>1 DEF IInv, TypeOK, PhaseShape
  <2>3. Waiting = <<>> \o inbound /\ Waiting' = <<Head(inbound)>> \o Tail(inbound)
    BY <2>1, <2>2 DEF Waiting
  <2>4. Waiting' = Waiting
    <3>1. <<>> \o inbound = inbound
      BY <2>2, ConcatEmptySeq, Zenon
    <3>2. <<Head(inbound)>> \o Tail(inbound) = inbound
      BY <2>1, <2>2, FirstAndRest
    <3> QED
      BY <2>3, <3>1, <3>2, Zenon
  <2>5. SameTurns /\ SameQuestions
    BY <2>1 DEF SameTurns, SameQuestions, Turn, Phase, Asked
  <2> QED
    BY <2>1, <2>4, <2>5, UnseenStutters DEF Unseen
<1>2. CASE Dispatch
  BY <1>2, DispatchBegins DEF TurnStep, Turns!QueueNext
<1>3. CASE QueryAccepted
  <2>1. /\ send = "query" /\ send' = "sent" /\ turns' = Append(turns, held)
        /\ UNCHANGED <<closed, held, inbound, closing, recv, sent, tool, pending,
                       decision, log>>
    BY <1>3 DEF QueryAccepted
  <2>2. ~closed /\ held \in Msg /\ turns \in Seq(Msg)
    BY <2>1 DEF IInv, TypeOK, HeldShape, PhaseShape
  <2>3. recv # "ended" => turns = <<>>
    BY <2>1, QueryAlone
  <2>4. turns = <<>> => turns' # <<>> /\ Head(turns') = held
    BY <2>1, <2>2, SeqType
  <2>5. Turn' = Turn
    BY <2>1, <2>2, <2>3, <2>4 DEF Turn
  <2>6. Unseen
    BY <2>1, <2>5 DEF Unseen, SameTurns, SameQuestions, Phase, Asked, Waiting
  <2> QED
    BY <2>6, UnseenStutters
<1>4. CASE QueryReturns
  <2>1. /\ send = "sent" /\ send' = "get"
        /\ UNCHANGED <<closed, turns, inbound, closing, recv, sent, tool, pending,
                       decision, log>>
    BY <1>4 DEF QueryReturns
  <2>2. Unseen
    BY <2>1 DEF Unseen, SameTurns, SameQuestions, Turn, Phase, Asked, Waiting
  <2> QED
    BY <2>2, UnseenStutters
<1>5. CASE QueryFails
  <2>1. /\ send = "query" /\ send' = "get"
        /\ UNCHANGED <<closed, turns, inbound, closing, recv, sent, tool, pending,
                       decision, log>>
    BY <1>5 DEF QueryFails
  <2>2. ~closed /\ held \in Msg
    BY <2>1 DEF IInv, TypeOK, HeldShape, PhaseShape
  <2>3. recv # "ended" => turns = <<>>
    BY <2>1, QueryAlone
  <2>4. /\ Phase' = Phase /\ Asked' = Asked /\ Waiting' = Waiting
    BY <2>1 DEF Phase, Asked, Waiting
  <2>5. Turn' = NoMsg /\ (recv = "ended" => Turn = NoMsg) /\ (recv # "ended" => Turn = held)
    BY <2>1, <2>2, <2>3 DEF Turn
  <2>6. CASE recv = "ended"
    BY <2>1, <2>4, <2>5, <2>6, UnseenStutters DEF Unseen, SameTurns, SameQuestions
  <2>7. CASE recv # "ended"
    <3>1. Turn # NoMsg
      BY <2>2, <2>5, <2>7, MsgAssumption
    <3>2. Turns!Finish
      BY <2>1, <2>4, <2>5, <3>1 DEF Turns!Finish, Turns!talkVars, Turns!askVars
    <3> QED
      BY <3>2 DEF TurnStep, Turns!QueueNext
  <2> QED
    BY <2>6, <2>7
<1> QED
  BY <1>1, <1>2, <1>3, <1>4, <1>5 DEF SendLoop

\* A result ends the turn; the end of the receive loop makes the session deaf.
LEMMA ReceiveTurns ==
  ASSUME IInv, PhaseShape, Result \/ RecvEnds
  PROVE  TurnStep
<1> USE DEF reqVars, loopVars, closeVars, toolVars, sdkVars
<1>1. CASE Result
  <2>1. /\ recv = "running" /\ client = "up" /\ turns # <<>> /\ turns' = Tail(turns)
        /\ UNCHANGED <<closed, send, held, inbound, closing, recv, sent, tool, pending,
                       decision, log>>
    BY <1>1 DEF Result
  <2>2. ~closed /\ turns \in Seq(Msg)
    BY <2>1 DEF IInv, TypeOK, PhaseShape
  <2>3. send # "query" /\ Len(turns) = 1
    BY <2>1 DEF IInv, GateShape
  <2>4. Head(turns) \in Msg /\ turns' = <<>>
    <3>1. Head(turns) \in Msg /\ turns' \in Seq(Msg) /\ Len(turns') = 0
      BY <2>1, <2>2, <2>3, SeqType
    <3> QED
      BY <3>1
  <2>5. Turn = Head(turns) /\ Turn' = NoMsg
    BY <2>1, <2>2, <2>3, <2>4 DEF Turn
  <2>6. Turn # NoMsg
    BY <2>4, <2>5, MsgAssumption
  <2>7. Phase' = Phase /\ Asked' = Asked /\ Waiting' = Waiting
    BY <2>1 DEF Phase, Asked, Waiting
  <2>8. Turns!Finish
    BY <2>1, <2>5, <2>6, <2>7 DEF Turns!Finish, Turns!talkVars, Turns!askVars
  <2> QED
    BY <2>8 DEF TurnStep, Turns!QueueNext
<1>2. CASE RecvEnds
  <2>1. /\ recv = "running" /\ recv' = "ended"
        /\ UNCHANGED <<closed, send, held, turns, inbound, closing, sent, tool, pending,
                       decision, log>>
    BY <1>2 DEF RecvEnds
  <2>2. Asked' = Asked /\ Waiting' = Waiting
    BY <2>1 DEF Asked, Waiting
  <2>3. CASE closed
    <3>1. Phase' = Phase /\ Turn' = Turn
      BY <2>1, <2>3 DEF Phase, Turn
    <3> QED
      BY <2>1, <2>2, <3>1, UnseenStutters DEF Unseen, SameTurns, SameQuestions
  <2>4. CASE ~closed
    <3>1. Phase = "open" /\ Phase' = "deaf" /\ Turn' = NoMsg
      BY <2>1, <2>4 DEF Phase, Turn, PhaseShape
    <3>2. Turns!GoDeaf
      BY <2>1, <2>2, <3>1 DEF Turns!GoDeaf, Turns!talkVars, Turns!askVars
    <3> QED
      BY <3>2 DEF TurnStep, Turns!QueueNext
  <2> QED
    BY <2>3, <2>4
<1> QED
  BY <1>1, <1>2

\* A question is asked in a turn and answered by the first reply.
LEMMA CallbackTurns ==
  ASSUME IInv, PhaseShape, NEW t \in Tool, Callback(t)
  PROVE  TurnStep
<1> USE DEF reqVars, loopVars, closeVars, toolVars, sdkVars
<1>1. tool \in [Tool -> {"idle", "asked", "answered", "returned", "cancelled"}]
      /\ RouterShape
  BY DEF IInv, TypeOK
<1>2. SUFFICES ASSUME UNCHANGED <<closed, send, held, turns, inbound, closing, recv,
                                  sent, log>>
               PROVE  TurnStep
  BY DEF Callback, Ask, Return, Reply
<1>3. Waiting' = Waiting /\ Turn' = Turn /\ Phase' = Phase
  BY <1>2 DEF Waiting, Turn, Phase
<1>4. CASE Ask(t)
  <2>1. /\ client = "up" /\ turns # <<>> /\ tool[t] = "idle"
        /\ tool' = [tool EXCEPT ![t] = "asked"] /\ pending' = pending \cup {t}
        /\ decision' = decision
    BY <1>4 DEF Ask
  <2>2. t \notin Asked /\ Asked' = Asked \cup {t}
    BY <1>1, <2>1 DEF Asked
  <2>3. Phase # "over"
    BY <2>1 DEF Phase, PhaseShape
  <2>4. Phase = "open" => Turn # NoMsg
    <3>1. CASE send = "query"
      <4>1. held \in Msg
        BY <3>1 DEF IInv, HeldShape
      <4> QED
        BY <3>1, <4>1, MsgAssumption DEF Phase, Turn, PhaseShape
    <3>2. CASE send # "query"
      <4>1. Head(turns) \in Msg
        <5>1. turns \in Seq(Msg)
          BY DEF IInv, TypeOK
        <5> QED
          BY <2>1, <5>1, SeqType
      <4> QED
        BY <2>1, <3>2, <4>1, MsgAssumption DEF Phase, Turn, PhaseShape
    <3> QED
      BY <3>1, <3>2
  <2>5. Turns!Inquire(t)
    BY <1>2, <1>3, <2>1, <2>2, <2>3, <2>4
       DEF Turns!Inquire, Turns!talkVars, Turns!turnVars
  <2> QED
    BY <2>5 DEF TurnStep, Turns!QueueNext
<1>5. CASE Return(t)
  <2>1. /\ tool[t] = "answered" /\ tool' = [tool EXCEPT ![t] = "returned"]
        /\ pending' = pending /\ decision' = decision
    BY <1>5 DEF Return
  <2>2. Asked' = Asked
    BY <1>1, <2>1 DEF Asked
  <2> QED
    BY <1>2, <1>3, <2>1, <2>2, UnseenStutters DEF Unseen, SameTurns, SameQuestions
<1>6. ASSUME NEW d \in Decision, Reply(t, d) PROVE TurnStep
  <2>1. /\ t \in pending /\ tool' = [tool EXCEPT ![t] = "answered"]
        /\ pending' = pending \ {t} /\ decision' = [decision EXCEPT ![t] = d]
    BY <1>6 DEF Reply, Answerable
  <2>2. tool[t] = "asked"
    BY <1>1, <2>1 DEF RouterShape
  <2>3. Asked' = Asked
    BY <1>1, <2>1, <2>2 DEF Asked
  <2>4. Turns!Answer(t)
    BY <1>2, <1>3, <2>1, <2>3 DEF Turns!Answer, Turns!talkVars, Turns!turnVars
  <2> QED
    BY <2>4 DEF TurnStep, Turns!QueueNext
<1> QED
  BY <1>4, <1>5, <1>6 DEF Callback

\* close() drops what waits and ends the transcript.
LEMMA CloseTurns ==
  ASSUME IInv, PhaseShape, CloseCold \/ Close \/ Disconnect
  PROVE  TurnStep
<1> USE DEF reqVars, loopVars, closeVars, toolVars, sdkVars
<1>1. Asked' = Asked
  <2>1. tool' = Cancelled
    BY DEF CloseCold, Close, Disconnect
  <2>2. tool \in [Tool -> {"idle", "asked", "answered", "returned", "cancelled"}]
    BY DEF IInv, TypeOK
  <2> QED
    BY <2>1, <2>2 DEF Asked, Cancelled
<1>2. sent' = sent /\ decision' = decision /\ pending' = {} /\ closed'
  BY DEF CloseCold, Close, Disconnect, PhaseShape
<1>3. Turns!Dropped
  BY <1>2 DEF Turns!Dropped, Waiting, Turn
<1>4. CASE CloseCold \/ Disconnect
  <2>1. closing # "done" /\ closing' = "done" /\ log' = Append(log, "done")
    BY <1>4 DEF CloseCold, Disconnect, PhaseShape
  <2>2. Phase # "over" /\ Phase' = "over"
    BY <2>1 DEF Phase
  <2>3. Turns!EndClose
    BY <1>1, <1>2, <1>3, <2>1, <2>2 DEF Turns!EndClose
  <2> QED
    BY <2>3 DEF TurnStep, Turns!QueueNext
<1>5. CASE Close
  <2>1. ~closed /\ closing' = "disconnecting" /\ log' = log
    BY <1>5 DEF Close
  <2>2. Phase \in {"open", "deaf"} /\ Phase' = "closing"
    BY <1>2, <2>1 DEF Phase, PhaseShape
  <2>3. Turns!BeginClose
    BY <1>1, <1>2, <1>3, <2>1, <2>2 DEF Turns!BeginClose, Turns!Alive
  <2> QED
    BY <2>3 DEF TurnStep, Turns!QueueNext
<1> QED
  BY <1>4, <1>5

\* A session is a queue of turns: whatever handlers, loops, callbacks and close()
\* do to one another, what the users see are the steps of TurnQueue.
THEOREM SessionImplementsTurns == Spec => ImplementsTurns
<1>1. Init => Turns!QueueInit
  <2> SUFFICES ASSUME Init PROVE Turns!QueueInit
    OBVIOUS
  <2> USE DEF Init
  <2>1. Waiting = <<>>
    BY DEF Waiting
  <2>2. Turn = NoMsg /\ Phase = "open" /\ Asked = {}
    BY DEF Turn, Phase, Asked
  <2> QED
    BY <2>1, <2>2 DEF Turns!QueueInit
<1>2. (IInv /\ PhaseShape) /\ [Next]_vars => [Turns!QueueNext]_(Turns!turnQueueVars)
  <2> SUFFICES ASSUME IInv, PhaseShape, [Next]_vars PROVE TurnStep
    BY DEF TurnStep
  <2>1. CASE UNCHANGED vars
    <3>1. Unseen
      BY <2>1 DEF vars, reqVars, loopVars, closeVars, toolVars, sdkVars, Unseen,
                  SameTurns, SameQuestions, Turn, Phase, Asked, Waiting
    <3> QED
      BY <3>1, UnseenStutters
  <2> QED
    BY <2>1, HandlerTurns, SendTurns, ReceiveTurns, CallbackTurns, CloseTurns DEF Next
<1> QED
  BY <1>1, <1>2, SessionPhases, PTL DEF Spec, ImplementsTurns, Turns!QueueSpec
=============================================================================
