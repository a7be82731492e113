----------------------------- MODULE ClientStream -----------------------------
(***************************************************************************)
(* The way of an event from the socket to a hook: the SSE parser, fed with *)
(* chunks that end anywhere; Transport.streamEvents(), which reconnects    *)
(* with the last id; client.events(), which remembers it for the next      *)
(* loop; and the subscriber that keeps one loop per client for however     *)
(* many listeners come and go, with a grace period after the last has      *)
(* left.  The server writes what it logs at once: EventStream has a slow   *)
(* one, and its restarts.                                                  *)
(***************************************************************************)
EXTENDS Integers, Sequences

CONSTANTS
  Listener,   \* hook instances
  None,       \* no subscriber, no id
  MaxSeq,     \* bound: events the server logs
  Cap,        \* its ring
  MaxLoop,    \* bound: client.events() loops that are started
  MaxBreak,   \* bound: connections that are refused or lost
  MaxJoin     \* bound: subscriptions

ASSUME ClientBoundsAssumption ==
  /\ MaxSeq \in Nat /\ Cap \in Nat \ {0} /\ MaxLoop \in Nat \ {0}
  /\ MaxBreak \in Nat /\ MaxJoin \in Nat

ASSUME NoneAssumption ==
  None \notin Nat /\ None \notin [listeners : SUBSET Listener, loop : Nat, timer : BOOLEAN]

VARIABLES
  seq,          \* the server: its newest event
  loop,         \* every loop that was started
  sub,          \* subscribers.get(client)
  lastEventId,  \* of the client
  got,          \* what each listener was called with since it subscribed
  since,        \* lastEventId when it subscribed
  told,         \* the listeners that were told of a fatal error
  breaks, joins

cvars == <<seq, loop, sub, lastEventId, got, since, told, breaks, joins>>

(* ------------------------------- the parser -------------------------------- *)

Id == 1..MaxSeq
Line == [f : {"id", "data", "end", "comment"}, n : Id]

\* An event on the wire: id, data (the event name goes with it), a blank line.
Frames(from, to) ==
  [i \in 1..(3 * (to - from + 1)) |->
     [f |-> <<"id", "data", "end">>[((i - 1) % 3) + 1], n |-> from + ((i - 1) \div 3)]]

newSSEParserState == [id |-> None, data |-> <<>>, out |-> <<>>]

\* Mutant of FeedLine: every blank line ends an event, that of a keepalive too.
FeedBlankLine(st, line) ==
  CASE line.f = "id" -> [st EXCEPT !.id = line.n]
    [] line.f = "data" -> [st EXCEPT !.data = Append(@, line.n)]
    [] line.f = "end" ->
         [newSSEParserState EXCEPT !.out = Append(st.out, [id |-> st.id, data |-> st.data])]
    [] line.f = "comment" -> st

FeedLine(st, line) ==
  CASE line.f = "id" -> [st EXCEPT !.id = line.n]
    [] line.f = "data" -> [st EXCEPT !.data = Append(@, line.n)]
    [] line.f = "end" ->
         IF st.id = None /\ st.data = <<>> THEN st
         ELSE [newSSEParserState EXCEPT !.out = Append(st.out, [id |-> st.id, data |-> st.data])]
    [] line.f = "comment" -> st

\* feedSSE: the events that end in the chunk are in out, the rest is kept.
feedSSE(st, chunk) ==
  LET f[n \in 0..Len(chunk)] ==
        IF n = 0 THEN [st EXCEPT !.out = <<>>] ELSE FeedLine(f[n - 1], chunk[n])
  IN f[Len(chunk)]

\* events(): the envelope is good only if the data are those of one event.
Delivered(ev) == [id |-> ev.id, ok |-> ev.data = <<ev.id>>]

(* ------------------------------- the transport ------------------------------- *)

Loop == [at : {"fetch", "read", "sleep", "ended", "failed"}, aborted : BOOLEAN,
         lastId : Id \cup {None}, wire : Seq(Line),
         st : [id : Id \cup {None}, data : Seq(Id), out : Seq([id : Id, data : Seq(Id)])]]

Loops == DOMAIN loop
Oldest == IF seq > Cap THEN seq - Cap + 1 ELSE 1
Listeners == IF sub = None THEN {} ELSE sub.listeners
\* The listeners of a loop are those of the subscriber it was started for.
Served(k) == IF sub # None /\ sub.loop = k THEN sub.listeners ELSE {}

Go(k, at) == loop' = [loop EXCEPT ![k].at = at]

\* The server logs an event and writes it to every open connection.
Log ==
  /\ seq < MaxSeq
  /\ seq' = seq + 1
  /\ loop' = [k \in Loops |-> IF loop[k].at = "read"
                              THEN [loop[k] EXCEPT !.wire = @ \o Frames(seq + 1, seq + 1)] ELSE loop[k]]
  /\ UNCHANGED <<sub, lastEventId, got, since, told, breaks, joins>>

\* A keepalive on a connection that is quiet.
Ping(k) ==
  /\ loop[k].at = "read" /\ loop[k].wire = <<>> /\ seq > 0
  /\ loop' = [loop EXCEPT ![k].wire = << [f |-> "comment", n |-> 1], [f |-> "end", n |-> 1] >>]
  /\ UNCHANGED <<seq, sub, lastEventId, got, since, told, breaks, joins>>

\* Mutant of Fetch: the parser is not a new one for each connection.
FetchKeepsParser(k) ==
  LET id == loop[k].lastId
      from == IF id = None THEN Oldest ELSE id + 1
  IN /\ loop[k].at = "fetch" /\ ~loop[k].aborted
     /\ from >= Oldest
     /\ loop' = [loop EXCEPT ![k].at = "read", ![k].wire = Frames(from, seq)]
     /\ UNCHANGED <<seq, sub, lastEventId, got, since, told, breaks, joins>>

Fetch(k) ==
  LET id == loop[k].lastId
      from == IF id = None THEN Oldest ELSE id + 1
  IN /\ loop[k].at = "fetch" /\ ~loop[k].aborted
     /\ from >= Oldest
     /\ loop' = [loop EXCEPT ![k].at = "read", ![k].st = newSSEParserState,
                             ![k].wire = Frames(from, seq)]
     /\ UNCHANGED <<seq, sub, lastEventId, got, since, told, breaks, joins>>

\* 412, or another 4xx: streamEvents() throws and the subscriber tells.
Refused(k) ==
  /\ loop[k].at = "fetch" /\ ~loop[k].aborted
  /\ \/ loop[k].lastId # None /\ loop[k].lastId + 1 < Oldest /\ UNCHANGED breaks
     \/ breaks < MaxBreak /\ breaks' = breaks + 1
  /\ Go(k, "failed")
  /\ told' = told \cup Served(k)
  /\ UNCHANGED <<seq, sub, lastEventId, got, since, joins>>

\* Mutant of Lost: a stream that ends is not opened again.
LostForGood(k) ==
  /\ loop[k].at \in {"fetch", "read"} /\ ~loop[k].aborted
  /\ breaks < MaxBreak /\ breaks' = breaks + 1
  /\ loop' = [loop EXCEPT ![k].at = "ended", ![k].wire = <<>>]
  /\ UNCHANGED <<seq, sub, lastEventId, got, since, told, joins>>

\* No answer or a 5xx, or an open connection that ends: try again later.
Lost(k) ==
  /\ loop[k].at \in {"fetch", "read"} /\ ~loop[k].aborted
  /\ breaks < MaxBreak /\ breaks' = breaks + 1
  /\ loop' = [loop EXCEPT ![k].at = "sleep", ![k].wire = <<>>]
  /\ UNCHANGED <<seq, sub, lastEventId, got, since, told, joins>>

\* A chunk: all events that end in it are handed on before anything else runs.
Read(k, n) ==
  LET st == feedSSE(loop[k].st, SubSeq(loop[k].wire, 1, n))
      evs == [i \in DOMAIN st.out |-> Delivered(st.out[i])]
      last(old) == IF evs = <<>> THEN old ELSE evs[Len(evs)].id
  IN /\ loop[k].at = "read" /\ ~loop[k].aborted
     /\ loop' = [loop EXCEPT ![k].st = [st EXCEPT !.out = <<>>], ![k].lastId = last(@),
                             ![k].wire = SubSeq(@, n + 1, Len(@))]
     /\ lastEventId' = last(lastEventId)
     /\ got' = [l \in Listener |-> IF l \in Served(k) THEN got[l] \o evs ELSE got[l]]
     /\ UNCHANGED <<seq, sub, since, told, breaks, joins>>

Awake(k) ==
  /\ loop[k].at = "sleep"
  /\ Go(k, IF loop[k].aborted THEN "ended" ELSE "fetch")
  /\ UNCHANGED <<seq, sub, lastEventId, got, since, told, breaks, joins>>

\* The pending fetch or read of an aborted loop rejects.
Rejects(k) ==
  /\ loop[k].at \in {"fetch", "read"} /\ loop[k].aborted
  /\ loop' = [loop EXCEPT ![k].at = "ended", ![k].wire = <<>>]
  /\ UNCHANGED <<seq, sub, lastEventId, got, since, told, breaks, joins>>

(* ------------------------------ the subscriber ------------------------------- *)

start(l) ==
  /\ loop' = Append(loop, [at |-> "fetch", aborted |-> FALSE, lastId |-> lastEventId,
                           wire |-> <<>>, st |-> newSSEParserState])
  /\ sub' = [listeners |-> {l}, loop |-> Len(loop) + 1, timer |-> FALSE]

subscribeToStream(l) ==
  /\ l \notin Listeners
  /\ joins < MaxJoin /\ joins' = joins + 1
  /\ IF sub = None
       THEN Len(loop) < MaxLoop /\ start(l)
       ELSE /\ sub' = [sub EXCEPT !.listeners = @ \cup {l}, !.timer = FALSE]
            /\ UNCHANGED loop
  /\ got' = [got EXCEPT ![l] = <<>>]
  /\ since' = [since EXCEPT ![l] = lastEventId]
  /\ told' = told \ {l}
  /\ UNCHANGED <<seq, lastEventId, breaks>>

\* Mutant of unsubscribe: the size is looked at before the listener is removed.
unsubscribeEarly(l) ==
  /\ l \in Listeners
  /\ sub' = [sub EXCEPT !.listeners = @ \ {l}, !.timer = @ \/ sub.listeners = {}]
  /\ UNCHANGED <<seq, loop, lastEventId, got, since, told, breaks, joins>>

unsubscribe(l) ==
  /\ l \in Listeners
  /\ sub' = [sub EXCEPT !.listeners = @ \ {l},
                        !.timer = @ \/ sub.listeners = {l}]
  /\ UNCHANGED <<seq, loop, lastEventId, got, since, told, breaks, joins>>

\* The grace period is over.
Teardown ==
  /\ sub # None /\ sub.timer
  /\ IF sub.listeners = {}
       THEN /\ loop' = [loop EXCEPT ![sub.loop].aborted = TRUE]
            /\ sub' = None
       ELSE UNCHANGED <<loop, sub>>
  /\ UNCHANGED <<seq, lastEventId, got, since, told, breaks, joins>>

ClientInit ==
  /\ seq = 0 /\ loop = <<>> /\ sub = None /\ lastEventId = None
  /\ got = [l \in Listener |-> <<>>] /\ since = [l \in Listener |-> None]
  /\ told = {} /\ breaks = 0 /\ joins = 0

\* What a loop does by itself; a connection may be lost at any time besides.
Proceed(k) ==
  \/ Fetch(k) \/ Refused(k) \/ Awake(k) \/ Rejects(k)
  \/ \E n \in 1..Len(loop[k].wire) : Read(k, n)

ClientNext ==
  \/ Log \/ Teardown
  \/ \E k \in Loops : Proceed(k) \/ Lost(k) \/ Ping(k)
  \/ \E l \in Listener : subscribeToStream(l) \/ unsubscribe(l)

ClientSpec == ClientInit /\ [][ClientNext]_cvars

\* Timers fire, an abort is noticed, the server answers a request in the end and
\* what it has written arrives.
FairClientSpec ==
  /\ ClientSpec
  /\ WF_cvars(Teardown)
  /\ \A k \in 1..MaxLoop : WF_cvars(k \in Loops /\ Proceed(k))

(* -------------------------------- properties -------------------------------- *)

\* There is never a second connection beside that of the subscriber: a loop that
\* is open is the subscriber's or is being aborted.
OneConnection ==
  \A k \in Loops : loop[k].at \in {"fetch", "read", "sleep"} /\ ~loop[k].aborted
                     => sub # None /\ sub.loop = k

\* Types of the transport, the client and the subscriber, which has the only
\* connection.
ClientTypeOK ==
  /\ OneConnection
  /\ seq \in 0..MaxSeq /\ loop \in Seq(Loop) /\ lastEventId \in Id \cup {None}
  /\ sub # None => sub \in [listeners : SUBSET Listener, loop : Loops, timer : BOOLEAN]
  /\ \A l \in Listener : got[l] \in Seq([id : Id, ok : BOOLEAN])
  /\ since \in [Listener -> Id \cup {None}] /\ told \subseteq Listener

\* While it is subscribed a listener is called with every event from where the
\* client was when it subscribed, in order, once and whole, however the stream was
\* cut into chunks, lost and resumed, and whichever loop it came from.
ListenersMissNothing ==
  \A l \in Listeners :
    LET first == IF since[l] # None \/ got[l] = <<>> THEN since[l] ELSE got[l][1].id - 1
    IN IF first = None THEN lastEventId = None
       ELSE got[l] = [i \in 1..(lastEventId - first) |-> [id |-> first + i, ok |-> TRUE]]

\* When the last hook has gone for good, the connection is closed.
UnwatchedIsClosed ==
  <>[](Listeners = {}) => <>[](\A k \in Loops : loop[k].at \in {"ended", "failed"})

\* What the server has logged reaches a listener that stays, over refused and lost
\* connections, unless it is told that the stream has failed, or joined too late
\* to be told.
LoggedIsHeard ==
  \A l \in Listener :
    (l \in Listeners /\ seq > 0) ~>
      (l \notin Listeners \/ lastEventId = seq \/ loop[sub.loop].at = "failed")
=============================================================================
