-------------------------------- MODULE Session --------------------------------
(***************************************************************************)
(* One agent session of the server (session.py) with its permission router *)
(* and tool-approval callback (sdk_bridge.py): the lazily spawned SDK      *)
(* client, the send and receive loops, the gate between turns, the bounded *)
(* inbound queue, and close().                                             *)
(*                                                                         *)
(* Everything runs on one asyncio loop: a step is what a coroutine does    *)
(* between two awaits.  The SDK client and its subprocess are outside the  *)
(* repository; they are modelled from the calls made of them: they accept  *)
(* queries, answer each with one result, may ask for approval of a tool    *)
(* call during a turn, and may stop at any time.                           *)
(***************************************************************************)
EXTENDS Integers, Sequences, FiniteSets

CONSTANTS Msg,        \* POST /input requests that carry a user_message
          Ctl,        \* POST /input requests that interrupt
          Tool,       \* tool calls, by tool_use_id (the correlation_id)
          Decision,   \* what a user may answer
          NoMsg,      \* no message
          QueueCap    \* maxsize of _inbound (128 in the code)

ASSUME MsgAssumption == NoMsg \notin Msg /\ Msg \cap Ctl = {} /\ "done" \notin Msg
ASSUME DecisionAssumption == "none" \notin Decision
ASSUME QueueAssumption == QueueCap \in Nat \ {0}

Req == Msg \cup Ctl

VARIABLES
  call,        \* where each request's handler is
  startLock,   \* _start_lock: its holder and its waiters, in order
  started,     \* _started and _tasks
  spawned,     \* history: clients spawned for this session
  inbound,     \* _inbound
  held,        \* the message the send loop has taken
  send,        \* the send loop: idle in get(), at the gate, in query()
  recv,        \* the receive loop
  turnDone,    \* _turn_done
  closed,      \* _closed
  closing,     \* how far close() is
  pending,     \* router._pending: calls whose future is not done
  tool,        \* where each can_use_tool() call is
  asker,       \* the turn a call was made in
  decision,    \* the value its future was given
  log,         \* events of the session: user messages and "done"
  sent,        \* history: messages handed to client.query()
  client,      \* external: the SDK client
  turns,       \* external: accepted queries without a result yet
  interrupted  \* external: the current turn was interrupted

reqVars == <<call, startLock, started, spawned>>
loopVars == <<held, send, recv, turnDone>>
closeVars == <<closed, closing>>
toolVars == <<pending, tool, asker, decision>>
sdkVars == <<client, turns, interrupted>>
vars == <<reqVars, inbound, loopVars, closeVars, toolVars, log, sent, sdkVars>>

\* Types of a session; its queue keeps its bound (inbound_queue_max).
TypeOK ==
  /\ call \in [Req -> {"new", "body", "lock", "spawn", "control",
                       "done", "refused", "failed"}]
  /\ startLock \in Seq(Req)
  /\ started \in BOOLEAN
  /\ spawned \in Nat
  /\ inbound \in Seq(Msg) /\ Len(inbound) <= QueueCap
  /\ held \in Msg \cup {NoMsg}
  /\ send \in {"none", "get", "gate", "query", "sent", "ended"}
  /\ recv \in {"none", "running", "ended"}
  /\ turnDone \in BOOLEAN
  /\ closed \in BOOLEAN
  /\ closing \in {"no", "disconnecting", "done"}
  /\ pending \subseteq Tool
  /\ tool \in [Tool -> {"idle", "asked", "answered", "returned", "cancelled"}]
  /\ asker \in [Tool -> Msg \cup {NoMsg}]
  /\ decision \in [Tool -> Decision \cup {"none"}]
  /\ log \in Seq(Msg \cup {"done"})
  /\ sent \in Seq(Msg)
  /\ client \in {"none", "up", "down", "gone"}
  /\ turns \in Seq(Msg)
  /\ interrupted \in BOOLEAN

Init ==
  /\ call = [r \in Req |-> "new"]
  /\ startLock = <<>>
  /\ started = FALSE
  /\ spawned = 0
  /\ inbound = <<>>
  /\ held = NoMsg
  /\ send = "none"
  /\ recv = "none"
  /\ turnDone = TRUE
  /\ closed = FALSE
  /\ closing = "no"
  /\ pending = {}
  /\ tool = [t \in Tool |-> "idle"]
  /\ asker = [t \in Tool |-> NoMsg]
  /\ decision = [t \in Tool |-> "none"]
  /\ log = <<>>
  /\ sent = <<>>
  /\ client = "none"
  /\ turns = <<>>
  /\ interrupted = FALSE

-----------------------------------------------------------------------------
(* Requests.  The handler of POST /input looks the session up, awaits the  *)
(* body, and calls the session it found, whatever became of it meanwhile.  *)

\* A session is in the registry until remove() takes it out and, in the same
\* step, begins to close it.
Lookup(r) ==
  /\ call[r] = "new"
  /\ ~closed
  /\ call' = [call EXCEPT ![r] = "body"]
  /\ UNCHANGED <<startLock, started, spawned, inbound, loopVars, closeVars,
                 toolVars, log, sent, sdkVars>>

\* Mutant of Accepted: a full queue blocks out nothing.
AcceptedAlways(r) == r \in Msg

Accepted(r) == r \in Msg /\ Len(inbound) < QueueCap

\* What follows ensure_started(): a message is logged, then queued or refused
\* with BackpressureError; an interrupt awaits the client.
Proceed(r) ==
  /\ log' = IF r \in Msg THEN Append(log, r) ELSE log
  /\ inbound' = IF Accepted(r) THEN Append(inbound, r) ELSE inbound
  /\ call' = [call EXCEPT ![r] = IF r \in Ctl THEN "control"
                                 ELSE IF Accepted(r) THEN "done" ELSE "refused"]

\* ensure_started() finds the session started.
Submit(r) ==
  /\ call[r] = "body"
  /\ started
  /\ Proceed(r)
  /\ UNCHANGED <<startLock, started, spawned, loopVars, closeVars, toolVars,
                 sent, sdkVars>>

\* It does not: take the lock and spawn, or queue for it.
Contend(r) ==
  /\ call[r] = "body"
  /\ ~started
  /\ startLock' = Append(startLock, r)
  /\ call' = [call EXCEPT ![r] = IF startLock = <<>> THEN "spawn" ELSE "lock"]
  /\ UNCHANGED <<started, spawned, inbound, loopVars, closeVars, toolVars, log,
                 sent, sdkVars>>

\* The client is there: both loops are created, the lock is released, and the
\* request that spawned goes on.  The send loop of a closed session ends at once.
SpawnDone(r) ==
  /\ call[r] = "spawn"
  /\ client' = "up"
  /\ spawned' = spawned + 1
  /\ started' = TRUE
  /\ recv' = "running"
  /\ send' = IF closed THEN "ended" ELSE "get"
  /\ startLock' = Tail(startLock)
  /\ Proceed(r)
  /\ UNCHANGED <<held, turnDone, closeVars, toolVars, sent, turns, interrupted>>

\* Mutant of SpawnFails: the exception leaves the lock taken.
SpawnFailsLocked(r) ==
  /\ call[r] = "spawn"
  /\ call' = [call EXCEPT ![r] = "failed"]
  /\ UNCHANGED <<startLock, started, spawned, inbound, loopVars, closeVars,
                 toolVars, log, sent, sdkVars>>

\* The factory raises: the request fails, the lock is released.
SpawnFails(r) ==
  /\ call[r] = "spawn"
  /\ startLock' = Tail(startLock)
  /\ call' = [call EXCEPT ![r] = "failed"]
  /\ UNCHANGED <<started, spawned, inbound, loopVars, closeVars, toolVars, log,
                 sent, sdkVars>>

\* A waiter gets the lock and looks again: another request has started the
\* session, or has failed to.
Locked(r) ==
  /\ call[r] = "lock"
  /\ startLock # <<>> /\ Head(startLock) = r
  /\ \/ /\ started
        /\ startLock' = Tail(startLock)
        /\ Proceed(r)
     \/ /\ ~started
        /\ call' = [call EXCEPT ![r] = "spawn"]
        /\ UNCHANGED <<startLock, inbound, log>>
  /\ UNCHANGED <<started, spawned, loopVars, closeVars, toolVars, sent, sdkVars>>

\* client.interrupt() returns.  It does not touch the gate.
Interrupt(r) ==
  /\ call[r] = "control"
  /\ client = "up"
  /\ interrupted' = (turns # <<>>)
  /\ call' = [call EXCEPT ![r] = "done"]
  /\ UNCHANGED <<startLock, started, spawned, inbound, loopVars, closeVars,
                 toolVars, log, sent, client, turns>>

InterruptFails(r) ==
  /\ call[r] = "control"
  /\ client # "up"
  /\ call' = [call EXCEPT ![r] = "failed"]
  /\ UNCHANGED <<startLock, started, spawned, inbound, loopVars, closeVars,
                 toolVars, log, sent, sdkVars>>

-----------------------------------------------------------------------------
(* The send loop, _run_send_loop(). *)

\* Mutant of Take: the queue is a stack.
TakeNewest ==
  /\ send = "get"
  /\ inbound # <<>>
  /\ held' = inbound[Len(inbound)]
  /\ inbound' = SubSeq(inbound, 1, Len(inbound) - 1)
  /\ send' = "gate"
  /\ UNCHANGED <<reqVars, recv, turnDone, closeVars, toolVars, log, sent, sdkVars>>

Take ==
  /\ send = "get"
  /\ inbound # <<>>
  /\ held' = Head(inbound)
  /\ inbound' = Tail(inbound)
  /\ send' = "gate"
  /\ UNCHANGED <<reqVars, recv, turnDone, closeVars, toolVars, log, sent, sdkVars>>

\* Mutant of Dispatch: the gate is not awaited.
DispatchUngated ==
  /\ send = "gate"
  /\ turnDone' = FALSE
  /\ send' = "query"
  /\ sent' = Append(sent, held)
  /\ UNCHANGED <<reqVars, inbound, held, recv, closeVars, toolVars, log, sdkVars>>

\* The gate opens: it is closed again and query() is called.
Dispatch ==
  /\ send = "gate"
  /\ turnDone
  /\ turnDone' = FALSE
  /\ send' = "query"
  /\ sent' = Append(sent, held)
  /\ UNCHANGED <<reqVars, inbound, held, recv, closeVars, toolVars, log, sdkVars>>

\* external: the query reaches the SDK.
QueryAccepted ==
  /\ send = "query"
  /\ client = "up"
  /\ send' = "sent"
  /\ turns' = Append(turns, held)
  /\ UNCHANGED <<reqVars, inbound, held, recv, turnDone, closeVars, toolVars,
                 log, sent, client, interrupted>>

\* query() returns; by then the turn may even be over.
QueryReturns ==
  /\ send = "sent"
  /\ send' = "get"
  /\ held' = NoMsg
  /\ UNCHANGED <<reqVars, inbound, recv, turnDone, closeVars, toolVars, log,
                 sent, sdkVars>>

\* query() raises: the gate is opened again and the message is given up.
QueryFails ==
  /\ send = "query"
  /\ send' = "get"
  /\ held' = NoMsg
  /\ turnDone' = TRUE
  /\ UNCHANGED <<reqVars, inbound, recv, closeVars, toolVars, log, sent, sdkVars>>

-----------------------------------------------------------------------------
(* The receive loop, and the SDK on its other side. *)

Asking(m) == {t \in Tool : tool[t] = "asked" /\ asker[t] = m}

\* Mutant of Result: the gate is not opened.
ResultShut ==
  /\ recv = "running"
  /\ client = "up"
  /\ turns # <<>>
  /\ Asking(Head(turns)) = {} \/ interrupted
  /\ turns' = Tail(turns)
  /\ interrupted' = FALSE
  /\ UNCHANGED <<reqVars, inbound, loopVars, closeVars, toolVars, log, sent, client>>

\* A turn ends, when no approval is outstanding in it or it was interrupted;
\* the receive loop sees its result and opens the gate.
Result ==
  /\ recv = "running"
  /\ client = "up"
  /\ turns # <<>>
  /\ Asking(Head(turns)) = {} \/ interrupted
  /\ turns' = Tail(turns)
  /\ interrupted' = FALSE
  /\ turnDone' = TRUE
  /\ UNCHANGED <<reqVars, inbound, held, send, recv, closeVars, toolVars, log,
                 sent, client>>

\* The message iterator ends or raises, because the subprocess is gone or, the
\* subprocess running on, because a message could not be parsed.
RecvEnds ==
  /\ recv = "running"
  /\ recv' = "ended"
  /\ turnDone' = TRUE
  /\ client' \in {client, "down"}
  /\ UNCHANGED <<reqVars, inbound, held, send, closeVars, toolVars, log, sent,
                 turns, interrupted>>

-----------------------------------------------------------------------------
(* Tool approval: can_use_tool() and the router. *)

\* The SDK asks within a turn: a future is registered and permission_request
\* or ask_user_question is emitted.
Ask(t) ==
  /\ client = "up"
  /\ turns # <<>>
  /\ tool[t] = "idle"
  /\ tool' = [tool EXCEPT ![t] = "asked"]
  /\ asker' = [asker EXCEPT ![t] = Head(turns)]
  /\ pending' = pending \cup {t}
  /\ UNCHANGED <<reqVars, inbound, loopVars, closeVars, decision, log, sent, sdkVars>>

\* Mutant of Answerable: a reply is accepted until the call has returned.
AnswerableLate(t) == tool[t] \in {"asked", "answered"}

\* has_pending(): the future exists and is not done.
Answerable(t) == t \in pending

\* permission_response or question_response of any tab: the first one resolves
\* the future, any other is a 409.
Reply(t, d) ==
  /\ Answerable(t)
  /\ tool' = [tool EXCEPT ![t] = "answered"]
  /\ decision' = [decision EXCEPT ![t] = d]
  /\ pending' = pending \ {t}
  /\ UNCHANGED <<reqVars, inbound, loopVars, closeVars, asker, log, sent, sdkVars>>

\* The callback resumes and hands the decision to the SDK.
Return(t) ==
  /\ tool[t] = "answered"
  /\ tool' = [tool EXCEPT ![t] = "returned"]
  /\ UNCHANGED <<reqVars, inbound, loopVars, closeVars, pending, asker, decision,
                 log, sent, sdkVars>>

-----------------------------------------------------------------------------
(* close(), called by remove() for DELETE, by the reaper and at shutdown. *)

Cancelled == [t \in Tool |-> IF tool[t] = "asked" THEN "cancelled" ELSE tool[t]]

\* Before the session has started there is nothing to await.
CloseCold ==
  /\ ~closed
  /\ ~started
  /\ closed' = TRUE
  /\ closing' = "done"
  /\ pending' = {}
  /\ tool' = Cancelled
  /\ log' = Append(log, "done")
  /\ UNCHANGED <<reqVars, inbound, loopVars, asker, decision, sent, sdkVars>>

\* Mutant of Close: cancel_all() forgets the futures without cancelling them.
CloseForgetting ==
  /\ ~closed
  /\ started
  /\ closed' = TRUE
  /\ closing' = "disconnecting"
  /\ pending' = {}
  /\ send' = "ended"
  /\ recv' = "ended"
  /\ turnDone' = TRUE
  /\ held' = NoMsg
  /\ UNCHANGED <<reqVars, inbound, tool, asker, decision, log, sent, sdkVars>>

\* Every future is cancelled and so are both loops, which take no further step
\* (the receive loop's finally opens the gate).
Close ==
  /\ ~closed
  /\ started
  /\ closed' = TRUE
  /\ closing' = "disconnecting"
  /\ pending' = {}
  /\ tool' = Cancelled
  /\ send' = "ended"
  /\ recv' = "ended"
  /\ turnDone' = TRUE
  /\ held' = NoMsg
  /\ UNCHANGED <<reqVars, inbound, asker, decision, log, sent, sdkVars>>

\* client.disconnect() returns, which cancels what the SDK still awaits, or
\* raises; either way close() ends with "done".
Disconnect ==
  /\ closing = "disconnecting"
  /\ closing' = "done"
  /\ client' = "gone"
  /\ pending' = {}
  /\ tool' = Cancelled
  /\ log' = Append(log, "done")
  /\ UNCHANGED <<reqVars, inbound, loopVars, closed, asker, decision, sent,
                 turns, interrupted>>

-----------------------------------------------------------------------------
Handler(r) ==
  \/ Lookup(r) \/ Submit(r) \/ Contend(r) \/ SpawnDone(r) \/ SpawnFails(r)
  \/ Locked(r) \/ Interrupt(r) \/ InterruptFails(r)

SendLoop == Take \/ Dispatch \/ QueryAccepted \/ QueryReturns \/ QueryFails

Callback(t) == Ask(t) \/ Return(t) \/ \E d \in Decision : Reply(t, d)

Next ==
  \/ \E r \in Req : Handler(r)
  \/ SendLoop \/ Result \/ RecvEnds
  \/ \E t \in Tool : Callback(t)
  \/ CloseCold \/ Close \/ Disconnect

Spec == Init /\ [][Next]_vars

\* The event loop runs every ready task, a spawn and a query() come to an end,
\* and the SDK ends a turn it is not kept from ending.  No user is obliged to
\* send, answer, interrupt or close anything, and nothing has to break.
FairSpec ==
  /\ Spec
  /\ \A r \in Req :
       WF_vars(Submit(r) \/ Contend(r) \/ SpawnDone(r) \/ SpawnFails(r)
               \/ Locked(r) \/ Interrupt(r) \/ InterruptFails(r))
  /\ WF_vars(SendLoop)
  /\ WF_vars(Result)
  /\ \A t \in Tool : WF_vars(Return(t))
  /\ WF_vars(Disconnect)

-----------------------------------------------------------------------------
(* Properties. *)

\* The SDK never holds two queries, counting the one being written: the gate
\* keeps the next query() from racing the messages of the turn before.  (Once
\* the receive loop is gone nobody sees the results any more.)
OneTurnAtATime ==
  recv = "running" =>
    Len(turns) + (IF send = "query" THEN 1 ELSE 0) <= 1

\* The gate is never left closed: when it is, a query is being written or a
\* turn runs, so that a result or a failure will open it again.
GateHasOpener ==
  recv = "running" /\ ~turnDone => send = "query" \/ turns # <<>>

\* Whatever happens to a tool call, it waits exactly as long as the router can
\* resolve it: no call waits for a future nobody can reach, and no reply is
\* taken for a call that is not waiting.
WaitingMeansAnswerable ==
  \A t \in Tool : tool[t] = "asked" <=> t \in pending

\* First reply wins: the decision the SDK is given is the one that was taken
\* first, and it does not change between the reply and the callback's return.
FirstReplyWins ==
  [][\A t \in Tool : decision[t] # "none" => decision'[t] = decision[t]]_vars

\* The session as the user sees it: the message the send loop holds at the gate
\* still waits, the turn is the query being written or the one the SDK runs, and
\* of a closed session, or one whose messages nobody reads, neither is visible.
Waiting ==
  IF closed THEN <<>> ELSE (IF send = "gate" THEN <<held>> ELSE <<>>) \o inbound

Turn ==
  IF closed \/ recv = "ended" THEN NoMsg
  ELSE IF send = "query" THEN held
  ELSE IF turns = <<>> THEN NoMsg ELSE Head(turns)

Phase ==
  IF closing = "done" THEN "over"
  ELSE IF closed THEN "closing"
  ELSE IF recv = "ended" THEN "deaf" ELSE "open"

Asked == {t \in Tool : tool[t] # "idle"}

\* Through all interleavings of handlers, loops, replies and close(), a session
\* is a queue of turns: each message waits, is given to the agent alone and in
\* order, or is dropped by close(); each question is answered at most once; and
\* "done" is written once, when nothing waits any more.
Turns == INSTANCE TurnQueue WITH
  transcript <- log, waiting <- Waiting, given <- sent, turn <- Turn,
  phase <- Phase, asked <- Asked, open <- pending,
  answer <- decision, Room <- QueueCap
ImplementsTurns == Turns!QueueSpec

\* The SDK is given the user's messages in the order the transcript shows
\* them, and none of them twice.
SentInLogOrder ==
  \A i, j \in DOMAIN sent : i < j =>
    \E k, l \in DOMAIN log : k < l /\ log[k] = sent[i] /\ log[l] = sent[j]

\* However many requests find the session cold, one client is spawned.
OneClient == spawned <= 1

\* A request that waits for the start lock gets it, also when spawns fail.
LockIsPassedOn ==
  \A r \in Req : call[r] = "lock" ~> call[r] # "lock"

\* A queued message is handed to the SDK, unless the session is closed, its
\* receive loop ends, or a turn is held up by an approval nobody gives.
QueuedIsSent ==
  \A m \in Msg :
    (\E i \in DOMAIN inbound : inbound[i] = m)
      ~> (\/ \E i \in DOMAIN sent : sent[i] = m
          \/ closed
          \/ recv = "ended"
          \/ \E t \in Tool : tool[t] = "asked")
=============================================================================
