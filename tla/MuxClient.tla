------------------------------- MODULE MuxClient -------------------------------
(***************************************************************************)
(* One browser tab: the reducer that folds the multiplexed stream into one *)
(* slot per session, the hook that posts to the server and dispatches what *)
(* comes of it, and the cards and the composer that decide what the user   *)
(* may post.  Four things race: the stream, which delivers the log in      *)
(* order; the answers to POSTs, which overtake it and each other; the one  *)
(* history fetch of a session; and another tab answering the same cards.   *)
(* The server is reduced to what a tab can tell apart; Session has it.     *)
(***************************************************************************)
EXTENDS Integers, Sequences, FiniteSets

CONSTANTS
  Sid,        \* sessions
  Text,       \* contents of user messages; equal ones cannot be told apart
  Call,       \* correlation ids of permission requests
  Question,   \* correlation ids of AskUserQuestion requests
  None,       \* an empty slot
  MaxTurn,    \* bound: messages a session is sent
  MaxAsk,     \* bound: requests one session puts to the user
  MaxPost,    \* bound: requests of this tab in flight
  MaxLoss     \* bound: requests or answers the network loses

ASSUME MuxBoundsAssumption ==
  MaxTurn \in Nat \ {0} /\ MaxAsk \in Nat /\ MaxPost \in Nat /\ MaxLoss \in Nat

VARIABLES
  srv,      \* the server's side of each session
  log,      \* the events it has put on the stream
  cursor,   \* how many of them this tab has reduced
  tab,      \* MuxState.sessions: a slot or None
  posts,    \* requests of this tab that have not come back
  asked,    \* historyLoaded: the sessions whose history was fetched
  losses    \* requests the network has lost

vars == <<srv, log, cursor, tab, posts, asked, losses>>

Ask == Call \cup Question

(* ------------------------- the server, from outside ------------------------- *)

Event(e, s, x) == [ev |-> e, s |-> s, x |-> x]

\* filter(): the elements of s that are in K, in their order.
Kept(s, K) ==
  LET f[n \in 0..Len(s)] ==
        IF n = 0 THEN <<>>
        ELSE IF s[n] \in K THEN Append(f[n - 1], s[n]) ELSE f[n - 1]
  IN f[Len(s)]

Elements(s) == {s[k] : k \in DOMAIN s}

Server == [turn : 0..MaxTurn, queued : 0..MaxTurn,
           pc : {"idle", "reply", "tools"}, asked : SUBSET Ask, open : SUBSET Ask]

EventName == {"user_message", "message_delta", "message_complete", "tool_result",
              "permission_request", "ask_user_question", "result", "error", "done"}

ServerEvent == {Event(e, s, x) : e \in EventName, s \in Sid,
                                 x \in Text \cup Ask \cup (0..MaxTurn)}

Emit(e, s, x) == log' = Append(log, Event(e, s, x))

\* A turn that went by before the tab was opened and is still in the ring.
PastTurn(s, t) == << Event("user_message", s, t), Event("message_complete", s, 1),
                     Event("result", s, 1) >>

ServerTurn(s) ==
  /\ \/ /\ srv[s].pc = "idle" /\ srv[s].queued > 0
        /\ srv' = [srv EXCEPT ![s].pc = "reply", ![s].turn = @ + 1, ![s].queued = @ - 1]
        /\ \/ Emit("message_delta", s, srv'[s].turn)
           \/ UNCHANGED log
     \/ /\ srv[s].pc = "reply"
        /\ Emit("message_complete", s, srv[s].turn)
        /\ srv' = [srv EXCEPT ![s].pc = "tools"]
     \/ \E c \in Ask \ srv[s].asked :
        /\ srv[s].pc = "tools" /\ Cardinality(srv[s].asked) < MaxAsk
        /\ Emit(IF c \in Call THEN "permission_request" ELSE "ask_user_question", s, c)
        /\ srv' = [srv EXCEPT ![s].asked = @ \cup {c}, ![s].open = @ \cup {c}]
     \/ /\ srv[s].pc = "tools" /\ srv[s].open = {}
        /\ \/ Emit("result", s, srv[s].turn)
           \/ Emit("error", s, srv[s].turn)
        /\ srv' = [srv EXCEPT ![s].pc = "idle"]
  /\ UNCHANGED <<cursor, tab, posts, asked, losses>>

\* First reply wins, whichever tab it comes from; the tool then runs.
Settle(s, c) ==
  /\ srv' = [srv EXCEPT ![s].open = @ \ {c}]
  /\ Emit("tool_result", s, c)

OtherTabReplies(s, c) ==
  /\ c \in srv[s].open
  /\ Settle(s, c)
  /\ UNCHANGED <<cursor, tab, posts, asked, losses>>

(* ------------------------------- the reducer ------------------------------- *)

Status == {"idle", "streaming", "awaiting_permission", "awaiting_question", "error"}
Piece == {"delta", "final"}   \* the text of one delta, the whole of a message
Message == [kind : {"user"}, id : Text]
             \cup [kind : {"assistant"}, id : 1..MaxTurn, content : Seq(Piece),
                   streaming : BOOLEAN]
             \cup [kind : {"tool_result"}, id : Ask]
SessionState == [messages : Seq(Message), status : Status, perm : Call \cup {None},
                 ques : Question \cup {None}, lastError : BOOLEAN, notice : BOOLEAN]

ASSUME NoneAssumption == None \notin SessionState /\ None \notin Ask

initialSessionState == [messages |-> <<>>, status |-> "idle", perm |-> None,
                        ques |-> None, lastError |-> FALSE, notice |-> FALSE]

UserMsg(t) == [kind |-> "user", id |-> t]
Assistant(i, c, st) == [kind |-> "assistant", id |-> i, content |-> c, streaming |-> st]

AddMessage(s, m) == [s EXCEPT !.messages = Append(@, m)]

\* The place of assistant message i, 0 if there is none.
IndexOf(s, i) ==
  LET at == {k \in DOMAIN s.messages : /\ s.messages[k].kind = "assistant"
                                       /\ s.messages[k].id = i}
  IN IF at = {} THEN 0 ELSE CHOOSE k \in at : \A l \in at : k <= l

ReduceUserMessage(s, t) ==
  IF s.messages # <<>> /\ s.messages[Len(s.messages)] = UserMsg(t)
    THEN s ELSE AddMessage(s, UserMsg(t))

appendDelta(content) == Append(content, "delta")

ReduceDelta(s, i) ==
  LET k == IndexOf(s, i)
      old == IF k = 0 THEN <<>> ELSE s.messages[k].content
      m == Assistant(i, appendDelta(old), TRUE)
  IN IF k = 0 THEN [AddMessage(s, m) EXCEPT !.status = "streaming"]
              ELSE [s EXCEPT !.messages[k] = m, !.status = "streaming"]

\* Mutant of ReduceComplete: a message that is already there is left as it is.
ReduceCompleteOnce(s, i) ==
  IF IndexOf(s, i) = 0 THEN AddMessage(s, Assistant(i, <<"final">>, FALSE)) ELSE s

ReduceComplete(s, i) ==
  LET k == IndexOf(s, i)
      m == Assistant(i, <<"final">>, FALSE)
  IN IF k = 0 THEN AddMessage(s, m) ELSE [s EXCEPT !.messages[k] = m]

ReducePermission(s, c) == [s EXCEPT !.perm = c, !.status = "awaiting_permission"]
\* Mutant of ReduceQuestion: one slot for both kinds of request.
ReduceQuestionShared(s, c) == [s EXCEPT !.perm = c, !.status = "awaiting_question"]
ReduceQuestion(s, c) == [s EXCEPT !.ques = c, !.status = "awaiting_question"]

reduceSession(s, e) ==
  CASE e.ev = "user_message" -> ReduceUserMessage(s, e.x)
    [] e.ev = "message_delta" -> ReduceDelta(s, e.x)
    [] e.ev = "message_complete" -> ReduceComplete(s, e.x)
    [] e.ev = "tool_result" -> AddMessage(s, [kind |-> "tool_result", id |-> e.x])
    [] e.ev = "permission_request" -> ReducePermission(s, e.x)
    [] e.ev = "ask_user_question" -> ReduceQuestion(s, e.x)
    [] e.ev \in {"result", "done"} -> [s EXCEPT !.status = "idle"]
    [] e.ev = "error" -> [s EXCEPT !.status = "error", !.lastError = TRUE]

getOrInit(s) == IF tab[s] = None THEN initialSessionState ELSE tab[s]
Set(s, slot) == tab' = [tab EXCEPT ![s] = slot]

Replay(events) ==
  LET h[n \in 0..Len(events)] ==
        IF n = 0 THEN initialSessionState ELSE reduceSession(h[n - 1], events[n])
  IN h[Len(events)]

\* What of the live messages history does not cover, by id or by content.
liveExtras(live, past) ==
  LET key(m) == <<m.kind, m.id>>
      covered == {key(m) : m \in Elements(past)}
  IN Kept(live, {m \in Elements(live) : key(m) \notin covered})

\* Mutant of HistoryLoaded: the messages are those of the history alone.
HistoryReplaces(prev, events) ==
  [prev EXCEPT !.messages = Replay(events).messages,
               !.status = IF @ = "streaming" THEN @ ELSE "idle"]
\* Mutant of HistoryLoaded: the slot starts afresh from the history.
HistoryResets(prev, events) ==
  LET h == Replay(events)
  IN [h EXCEPT !.messages = @ \o liveExtras(prev.messages, h.messages)]

HistoryLoaded(prev, events) ==
  LET h == Replay(events)
  IN [prev EXCEPT !.messages = h.messages \o liveExtras(prev.messages, h.messages),
                  !.status = IF @ = "streaming" THEN @ ELSE "idle"]

\* Mutant of permissionResolved: any answer clears the card.
permissionResolvedBlindly(slot, c) == [slot EXCEPT !.perm = None, !.status = "streaming"]
permissionResolved(slot, c) ==
  IF slot.perm # c THEN slot ELSE [slot EXCEPT !.perm = None, !.status = "streaming"]
questionResolved(slot, c) ==
  IF slot.ques # c THEN slot ELSE [slot EXCEPT !.ques = None, !.status = "streaming"]

setNotice(slot) == [slot EXCEPT !.notice = TRUE]

(* ------------------------ the hook and the cards on it ------------------------ *)

\* past is what a history request is answered.
Post(k, s, x) == [kind |-> k, s |-> s, x |-> x, st |-> "sent", past |-> <<>>]
Issue(p) == Cardinality(posts) < MaxPost /\ posts' = posts \cup {p}
Back(p, st) == posts' = (posts \ {p}) \cup {[p EXCEPT !.st = st]}

\* for await (const ev of client.events()): dispatch server_event.
Deliver ==
  /\ cursor < Len(log)
  /\ cursor' = cursor + 1
  /\ LET e == log[cursor + 1] IN Set(e.s, reduceSession(getOrInit(e.s), e))
  /\ UNCHANGED <<srv, log, posts, asked, losses>>

canSend(slot) == slot.status \in {"idle", "error"} /\ ~slot.lastError

\* onSend: the message is shown before it is posted.
Send(s, t) ==
  LET slot == getOrInit(s) IN
  /\ canSend(slot)
  /\ srv[s].turn + srv[s].queued < MaxTurn
  /\ \A p \in posts : p.kind # "send"
  /\ Set(s, [AddMessage(slot, UserMsg(t)) EXCEPT !.status = "streaming"])
  /\ Issue(Post("send", s, t))
  /\ UNCHANGED <<srv, log, cursor, asked, losses>>

\* approve, deny and answer: nothing keeps the card from a second click.
Click(s, c) ==
  /\ tab[s] # None /\ ~tab[s].lastError /\ c \in {tab[s].perm, tab[s].ques} \ {None}
  /\ \E n \in 1..MaxPost :
       /\ \A q \in posts : q.kind = "reply" => q.x[2] < n
       /\ Issue(Post("reply", s, <<c, n>>))
  /\ UNCHANGED <<srv, log, cursor, tab, asked, losses>>

\* The effect that fetches a session's history once.
loadHistory(s) ==
  /\ s \notin asked
  /\ asked' = asked \cup {s}
  /\ Issue(Post("history", s, None))
  /\ UNCHANGED <<srv, log, cursor, tab, losses>>

\* The transcript: the durable events of the session, those of a turn that has
\* not ended perhaps not all.
Transcripts(s) ==
  LET ended(k) == \A i \in (k + 1)..Len(log) : log[i].s # s \/ log[i].ev # "result"
      durable == {e \in Elements(log) :
                    e.s = s /\ e.ev \in {"user_message", "message_complete", "tool_result"}}
  IN {Kept(SubSeq(log, 1, k), durable) : k \in {l \in 0..Len(log) : ended(l)}}

\* The server's answer to a request of this tab.
Serve(p) ==
  /\ p.st = "sent"
  /\ CASE p.kind = "send" ->
            /\ srv' = [srv EXCEPT ![p.s].queued = @ + 1]
            /\ Emit("user_message", p.s, p.x)
            /\ Back(p, "ok")
       [] p.kind = "reply" ->
            IF p.x[1] \in srv[p.s].open
              THEN Settle(p.s, p.x[1]) /\ Back(p, "ok")
              ELSE UNCHANGED <<srv, log>> /\ Back(p, "conflict")
       [] p.kind = "history" ->
            /\ UNCHANGED <<srv, log>>
            /\ \E h \in Transcripts(p.s) :
                 posts' = (posts \ {p}) \cup {[p EXCEPT !.st = "ok", !.past = h]}
  /\ UNCHANGED <<cursor, tab, asked, losses>>

\* The network loses the request or its answer: the promise rejects, and none of
\* the callers does anything about it.
Lose(p) ==
  /\ p.st \in {"sent", "ok"}
  /\ losses < MaxLoss /\ losses' = losses + 1
  /\ posts' = posts \ {p}
  /\ UNCHANGED <<srv, log, cursor, tab, asked>>

\* The continuation of a request after its await.
Return(p) ==
  /\ p.st # "sent"
  /\ posts' = posts \ {p}
  /\ CASE p.kind = "history" ->
            Set(p.s, HistoryLoaded(getOrInit(p.s), p.past))
       [] p.kind = "reply" ->
            LET c == p.x[1]
                slot == IF p.st = "conflict" THEN setNotice(tab[p.s]) ELSE tab[p.s]
            IN Set(p.s, IF c \in Call THEN permissionResolved(slot, c)
                                      ELSE questionResolved(slot, c))
       [] OTHER -> UNCHANGED tab
  /\ UNCHANGED <<srv, log, cursor, asked, losses>>

clearNotice(s) ==
  /\ tab[s] # None /\ tab[s].notice
  /\ Set(s, [tab[s] EXCEPT !.notice = FALSE])
  /\ UNCHANGED <<srv, log, cursor, posts, asked, losses>>

\* A tab that has fetched the list and is about to be sent the ring.
Init ==
  \E s0 \in Sid, t \in Text :
    /\ log = PastTurn(s0, t)
    /\ srv = [s \in Sid |-> [queued |-> 0, pc |-> "idle",
                            turn |-> IF s = s0 THEN 1 ELSE 0,
                            asked |-> {}, open |-> {}]]
    /\ cursor = 0
    /\ tab = [s \in Sid |-> None]
    /\ posts = {}
    /\ asked = {}
    /\ losses = 0

ServerSide == \E s \in Sid : ServerTurn(s) \/ \E c \in Ask : OtherTabReplies(s, c)
User == \E s \in Sid :
  \/ \E t \in Text : Send(s, t)
  \/ \E c \in Ask : Click(s, c)
  \/ loadHistory(s) \/ clearNotice(s)
Network == \E p \in posts : Serve(p) \/ Lose(p) \/ Return(p)

Next == ServerSide \/ User \/ Network \/ Deliver

Spec == Init /\ [][Next]_vars

(* -------------------------------- properties -------------------------------- *)

PostShape(p) ==
  /\ p.kind \in {"send", "reply", "history"}
  /\ p.st \in {"sent", "ok", "conflict"}
  /\ p.s \in Sid \cup {None}

\* Types: the values the variables of the tab and of the server range over.
MuxTypeOK ==
  /\ srv \in [Sid -> Server]
  /\ log \in Seq(ServerEvent)
  /\ cursor \in 0..Len(log)
  /\ \A s \in Sid : tab[s] # None => tab[s] \in SessionState
  /\ \A p \in posts : PostShape(p)
  /\ asked \subseteq Sid
  /\ losses \in 0..MaxLoss

Slots == {s \in Sid : tab[s] # None}
CaughtUp == cursor = Len(log)

\* However the fetched history and the replayed stream interleave, once the tab
\* has reduced the whole log every message the log completed is there, once,
\* with its final text and not streaming: deltas that were folded into an
\* already complete message are repaired by its message_complete.
CaughtUpIsFinal ==
  CaughtUp =>
    \A s \in Slots, i \in 1..MaxTurn :
      Event("message_complete", s, i) \in {log[k] : k \in 1..cursor} =>
        LET ms == tab[s].messages
            at == {k \in DOMAIN ms : ms[k].kind = "assistant" /\ ms[k].id = i}
        IN \E k \in at : at = {k} /\ ms[k] = Assistant(i, <<"final">>, FALSE)

Shown(slot) == {<<m.kind, m.id>> : m \in Elements(slot.messages)}

\* What the user has been shown of a session is never taken back: not by a
\* late history, not by the echo of a message, only by deleting the session.
NothingDisappears ==
  [][\A s \in Sid : tab[s] # None /\ tab'[s] # None => Shown(tab[s]) \subseteq Shown(tab'[s])]_vars

\* A card goes away only when the server has an answer to that very request: the
\* late answer to an earlier one does not clear the card of a later one.
OnlyAnsweredCardsClear ==
  [][\A s \in Sid : tab[s] # None /\ tab'[s] # None =>
       /\ tab[s].perm # None /\ tab'[s].perm = None => tab[s].perm \notin srv[s].open
       /\ tab[s].ques # None /\ tab'[s].ques = None => tab[s].ques \notin srv[s].open]_vars

\* The turn can always be got going again: of the requests the server still waits
\* on, the newest of each kind has its card, whatever history, other answers
\* and other tabs did to the slot meanwhile.
NewestRequestIsShown ==
  CaughtUp =>
    \A s \in Slots, k \in 1..Len(log) :
      /\ log[k].s = s
      /\ log[k].ev \in {"permission_request", "ask_user_question"}
      /\ \A l \in (k + 1)..Len(log) : log[l].s = s => log[l].ev # log[k].ev
      /\ log[k].x \in srv[s].open
      => log[k].x \in {tab[s].perm, tab[s].ques}

\* What the docs promise of two tabs: when one has answered, the card of the other
\* goes away once the stream has shown the outcome.
AnsweredElsewhereClears ==
  CaughtUp /\ posts = {} =>
    \A s \in Slots : tab[s].perm # None => tab[s].perm \in srv[s].open
=============================================================================
