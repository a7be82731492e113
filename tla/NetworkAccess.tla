----------------------------- MODULE NetworkAccess -----------------------------
(***************************************************************************)
(* LAN access and the public tunnel, from the settings page to the ngrok   *)
(* SDK.  Requests of several browsers run concurrently on the server: a    *)
(* handler is one step between two awaits, and the awaits are inside the   *)
(* lock of the tunnel.  The page has a copy of the server's state, which   *)
(* the answer to its own request or a GET after an app event replaces.     *)
(***************************************************************************)
EXTENDS Integers, Sequences, FiniteSets, SequencesExt

CONSTANTS
  MaxOp,       \* bound: requests, of this page and of others
  MaxRemote,   \* bound: of these, those of other browsers
  MaxUpset,    \* bound: failures of the SDK and of the network, and times the
               \* settings are closed and opened again
  Coded        \* bound: the cards whose QR code is followed

ASSUME NetworkBoundsAssumption ==
  MaxOp \in Nat /\ MaxRemote \in Nat /\ MaxUpset \in Nat /\ Coded \subseteq {"lan", "tunnel"}

VARIABLES
  token,       \* LanAccessStore: the current token, 0 when disabled
  auth,        \* NgrokAuthStore: whether there is an authtoken
  state, url,  \* NgrokTunnel._state, url 0: None
  line,        \* NgrokTunnel._lock: who has it, then who waits for it, in order
  listeners,   \* URLs the SDK forwards
  issued,      \* tokens and URLs given so far
  ops,         \* the requests so far
  meta,        \* useLanAccess: the page's copy
  busy,        \* the request each card waits for, 0: none
  qr, drawing, \* useQrDataUrl of each card: what is shown is the code of, what is drawn
  events,      \* refreshes to come, one per app event on its way here
  upsets

tunnel == <<state, url, line, listeners>>
page == <<meta, busy, qr, drawing>>
vars == <<token, auth, tunnel, issued, ops, page, events, upsets>>

Lan == {"enable", "disable"}
Kind == Lan \cup {"start", "stop", "save", "forget"}
Card == {"lan", "tunnel"}
CardOf(kind) == IF kind \in Lan THEN "lan" ELSE "tunnel"

\* What every endpoint answers.
LanAccess(t, a, s, u) == [token |-> t, configured |-> a, state |-> s, url |-> u]
Default == LanAccess(0, FALSE, "off", 0)
Now == LanAccess(token, auth, state, url)

Fresh == issued + 1

(* ------------------------- the page ------------------------- *)

\* What a card shows as a QR code: the URL with the token in it, <<>>: null.
Value(card, m) ==
  IF m.token = 0 THEN <<>>
  ELSE IF card = "lan" THEN <<m.token>>
  ELSE IF m.state = "on" THEN <<m.url, m.token>> ELSE <<>>

\* A drawing that was begun for another value shows nothing when it is ready.
\* Mutant of Cancelled: it is shown whenever it is ready.
LetFinish(values) == values

Cancelled(values) == {}

Show(m) ==
  /\ meta' = m
  /\ qr' = [c \in Coded |-> IF Value(c, m) = <<>> THEN <<>> ELSE qr[c]]
  /\ drawing' = [c \in Coded |->
       IF Value(c, m) = Value(c, meta) THEN drawing[c]
       ELSE Cancelled(drawing[c]) \cup ({Value(c, m)} \ {<<>>})]

Drawn(c, v, shown) ==
  /\ drawing' = [drawing EXCEPT ![c] = @ \ {v}]
  /\ qr' = [qr EXCEPT ![c] = shown]
  /\ UNCHANGED <<token, auth, tunnel, issued, ops, meta, busy, events>>

Draw(c) == \E v \in drawing[c] : Drawn(c, v, v) /\ UNCHANGED upsets

DrawFails(c) ==
  \E v \in drawing[c] : upsets < MaxUpset /\ upsets' = upsets + 1 /\ Drawn(c, v, <<>>)

\* The buttons that are there and enabled, by the page's copy.
Offered(kind) ==
  /\ busy[CardOf(kind)] = 0
  /\ CASE kind = "enable" -> meta.token = 0
       [] kind = "disable" -> meta.token # 0
       [] kind = "start" -> meta.configured /\ meta.state # "on"
       [] kind = "stop" -> meta.configured /\ meta.state = "on"
       [] kind = "save" -> ~meta.configured
       [] kind = "forget" -> meta.configured

Op(kind, mine) == [kind |-> kind, mine |-> mine, at |-> "sent", answer |-> Default]

Click(kind) ==
  /\ Len(ops) < MaxOp
  /\ Offered(kind)
  /\ ops' = Append(ops, Op(kind, TRUE))
  /\ busy' = [busy EXCEPT ![CardOf(kind)] = Len(ops')]
  /\ UNCHANGED <<token, auth, tunnel, issued, meta, qr, drawing, events, upsets>>

\* Another browser, whose copy may be as old as any.
ClickElsewhere(kind) ==
  /\ Len(ops) < MaxOp
  /\ Cardinality({i \in DOMAIN ops : ~ops[i].mine}) < MaxRemote
  /\ ops' = Append(ops, Op(kind, FALSE))
  /\ UNCHANGED <<token, auth, tunnel, issued, page, events, upsets>>

\* The cards go with the dialog, and those that come know of no request.
Reopen ==
  /\ upsets < MaxUpset
  /\ upsets' = upsets + 1
  /\ busy' = [c \in Card |-> 0]
  /\ qr' = [c \in Coded |-> <<>>]
  /\ drawing' = [c \in Coded |-> {Value(c, meta)} \ {<<>>}]
  /\ UNCHANGED <<token, auth, tunnel, issued, ops, meta, events>>

(* ------------------------- the handlers ------------------------- *)

At(i, at) == [ops EXCEPT ![i].at = at]
\* Nothing is remembered of a request that is over.
Over(i) == [ops EXCEPT ![i] = [Op("done", @.mine) EXCEPT !.at = "over"]]

\* The answer, and the app event that all but the authtoken's endpoints emit.
Reply(i, answer) ==
  /\ ops' = IF ops[i].mine THEN [ops EXCEPT ![i].at = "answered", ![i].answer = answer]
            ELSE Over(i)
  /\ events' = IF ops[i].kind \in {"save", "forget"} THEN events ELSE events + 1

Refuse(i, ways) ==
  /\ ops' = IF ops[i].mine THEN At(i, "failed") ELSE Over(i)
  /\ UNCHANGED <<ways, events>>

\* The rest of a handler after it left the tunnel's lock to rest.
Leave(i, t, s, u, rest) ==
  /\ token' = IF ops[i].kind = "disable" THEN 0 ELSE t
  /\ auth' = (auth /\ ops[i].kind # "forget")
  /\ state' = s /\ url' = u /\ line' = rest
  /\ Reply(i, LanAccess(token', auth', s, u))

\* start() and stop(), once they have the lock.
\* Mutant of Idle: start() does not look whether the tunnel is up.
IdleOff(kind) == kind # "start" /\ state = "off"

Idle(kind) == IF kind = "start" THEN state = "on" ELSE state = "off"

Enter(i, t, rest) ==
  LET kind == ops[i].kind IN
  /\ IF Idle(kind) THEN Leave(i, t, state, url, rest)
     ELSE /\ line' = <<i>> \o rest
          /\ ops' = At(i, IF kind = "start" THEN "forward" ELSE "disconnect")
          /\ token' = t
          /\ state' = IF kind = "start" THEN "starting" ELSE state
          /\ url' = IF kind = "start" THEN 0 ELSE url
          /\ UNCHANGED <<auth, events>>
  /\ UNCHANGED listeners

\* A lock nobody has is taken without a pause; else the request waits in line.
Lock(i, t) ==
  IF line = <<>> THEN Enter(i, t, <<>>)
  ELSE /\ line' = Append(line, i)
       /\ ops' = At(i, "waiting")
       /\ token' = t
       /\ UNCHANGED <<auth, state, url, listeners, events>>

Handle(i) ==
  LET kind == ops[i].kind IN
  /\ ops[i].at = "sent"
  /\ \/ /\ kind = "enable"
        /\ token' = Fresh /\ issued' = Fresh
        /\ Reply(i, LanAccess(Fresh, auth, state, url))
        /\ UNCHANGED <<auth, tunnel>>
     \/ /\ kind = "save"
        /\ auth' = TRUE
        /\ Reply(i, LanAccess(token, TRUE, state, url))
        /\ UNCHANGED <<token, issued, tunnel>>
     \/ /\ kind = "start" /\ ~auth
        /\ Refuse(i, <<token, auth, issued, tunnel>>)
     \/ /\ kind = "start" /\ auth
        /\ issued' = Fresh
        /\ Lock(i, Fresh)
     \/ /\ kind \in {"stop", "disable", "forget"}
        /\ Lock(i, token)
        /\ UNCHANGED issued
  /\ UNCHANGED <<page, upsets>>

TakeLock(i) ==
  /\ ops[i].at = "waiting" /\ Head(line) = i
  /\ Enter(i, token, Tail(line))
  /\ UNCHANGED <<issued, page, upsets>>

Forward(i) ==
  /\ ops[i].at = "forward"
  /\ issued' = Fresh
  /\ listeners' = listeners \cup {Fresh}
  /\ Leave(i, token, "on", Fresh, Tail(line))
  /\ UNCHANGED <<page, upsets>>

\* The SDK may have registered a listener before it raised.
ForwardFails(i) ==
  /\ ops[i].at = "forward" /\ upsets < MaxUpset
  /\ upsets' = upsets + 1
  /\ \/ UNCHANGED <<listeners, issued>>
     \/ listeners' = listeners \cup {Fresh} /\ issued' = Fresh
  /\ state' = "error"
  /\ ops' = At(i, "kill")
  /\ UNCHANGED <<token, auth, url, line, page, events>>

\* What start() cleans up before it raises.
Killed(i) ==
  /\ ops[i].at = "kill"
  /\ listeners' = {}
  /\ line' = Tail(line)
  /\ Refuse(i, <<token, auth, state, url, issued, page, upsets>>)

\* Whether disconnect() raises or not, kill() follows.
Disconnected(i) ==
  /\ ops[i].at = "disconnect"
  /\ listeners' = {}
  /\ Leave(i, token, "off", 0, Tail(line))
  /\ UNCHANGED <<issued, page, upsets>>

(* ------------------------- what the page hears ------------------------- *)

\* finally { setBusy(false) }, of the card that made the request.
\* Mutant of Freed: only after a request that succeeded.
FreedIfAnswered(i) == [c \in Card |-> IF busy[c] = i /\ ops[i].at = "answered" THEN 0 ELSE busy[c]]

Freed(i) == [c \in Card |-> IF busy[c] = i THEN 0 ELSE busy[c]]

Answered(i) ==
  /\ ops[i].at \in {"answered", "failed"}
  /\ IF ops[i].at = "answered" THEN Show(ops[i].answer) ELSE UNCHANGED <<meta, qr, drawing>>
  /\ busy' = Freed(i)
  /\ ops' = Over(i)
  /\ UNCHANGED <<token, auth, tunnel, issued, events, upsets>>

\* The request or its answer is lost.
Lost(i) ==
  /\ ops[i].mine /\ ops[i].at \in {"sent", "answered"} /\ upsets < MaxUpset
  /\ upsets' = upsets + 1
  /\ ops' = [ops EXCEPT ![i].at = "failed", ![i].answer = Default]
  /\ UNCHANGED <<token, auth, tunnel, issued, page, events>>

\* A GET, served and answered at once: the page's copy is as old as its app events.
Refresh ==
  /\ events > 0
  /\ events' = events - 1
  /\ Show(Now)
  /\ UNCHANGED <<token, auth, tunnel, issued, ops, busy, upsets>>

RefreshFails ==
  /\ events > 0 /\ upsets < MaxUpset
  /\ events' = events - 1
  /\ upsets' = upsets + 1
  /\ UNCHANGED <<token, auth, tunnel, issued, ops, page>>

(* ------------------------- the whole ------------------------- *)

\* The server has just started, and the settings are open.
NetInit ==
  /\ token \in {0, 1} /\ auth \in BOOLEAN
  /\ state = "off" /\ url = 0 /\ line = <<>> /\ listeners = {}
  /\ issued = 1
  /\ ops = <<>>
  /\ meta = Now
  /\ busy = [c \in Card |-> 0]
  /\ qr = [c \in Coded |-> Value(c, meta)] /\ drawing = [c \in Coded |-> {}]
  /\ events = 0
  /\ upsets = 0

\* What goes on without anybody's click and without a failure.
Running ==
  \/ \E i \in DOMAIN ops :
       Handle(i) \/ TakeLock(i) \/ Forward(i) \/ Killed(i) \/ Disconnected(i) \/ Answered(i)
  \/ \E c \in Coded : Draw(c)
  \/ Refresh

NetNext ==
  \/ Running
  \/ \E kind \in Kind : Click(kind) \/ ClickElsewhere(kind)
  \/ \E i \in DOMAIN ops : ForwardFails(i) \/ Lost(i)
  \/ \E c \in Coded : DrawFails(c)
  \/ RefreshFails
  \/ Reopen

NetSpec == NetInit /\ [][NetNext]_vars /\ WF_vars(Running)

(* ------------------------- properties ------------------------- *)

Phase == {"sent", "waiting", "forward", "kill", "disconnect", "answered", "failed", "over"}
Copy == [token : 0..issued, configured : BOOLEAN, state : {"off", "starting", "on", "error"}, url : 0..issued]

\* Once nothing is being drawn, the QR code on screen is that of the URL beside
\* it, or there is none (useQrDataUrl: however drawings overtake one another).
QrIsCurrent ==
  \A c \in Coded : drawing[c] = {} => qr[c] \in {<<>>, Value(c, meta)}

\* Types; the tunnel's lock is held by one request, and the rest of its line waits;
\* the page shows what it has.
NetTypeOK ==
  /\ QrIsCurrent
  /\ Now \in Copy /\ meta \in Copy
  /\ listeners \subseteq 1..issued
  /\ ops \in Seq([kind : Kind \cup {"done"}, mine : BOOLEAN, at : Phase, answer : Copy])
  /\ busy \in [Card -> 0..Len(ops)]
  /\ DOMAIN qr = Coded /\ DOMAIN drawing = Coded
  /\ \A i \in DOMAIN ops :
       /\ ops[i].at \in {"forward", "kill", "disconnect"} => line # <<>> /\ Head(line) = i
       /\ ops[i].at = "waiting" => i \in ToSet(line)
  /\ IsInjective(line)
  /\ events \in Nat /\ upsets \in 0..MaxUpset

LockFree == line = <<>> \/ ops[Head(line)].at = "waiting"

\* There is never more than one listener, and while nobody has the lock there is
\* one, with the URL that is shown, exactly when the tunnel is said to be on
\* (class NgrokTunnel: at most one listener, whoever starts and stops it).
TunnelIsTruthful ==
  /\ Cardinality(listeners) <= 1
  /\ LockFree => listeners = IF state = "on" THEN {url} ELSE {}

\* A card's buttons come back, whatever becomes of the request and of those
\* before it in the line of the lock.
ButtonsComeBack == \A c \in Card : busy[c] # 0 ~> busy[c] = 0
===============================================================================
