------------------------------ MODULE EventStream ------------------------------
(***************************************************************************)
(* One GET /stream per client: the subscribe() generator of the log, the   *)
(* response generator that frames its events (adapters/fastapi.py) and the *)
(* reconnecting reader of the browser (core/src/transport.ts).             *)
(*                                                                         *)
(* A generator runs without interruption from one suspension to the next,  *)
(* so a step of the model is what it does between two of them: it resumes, *)
(* walks the list it copied from the ring, and either hands out one event, *)
(* returns, or registers a waiter and blocks.  Pulling an event out of the *)
(* generator and writing its frame are one step: a connection that breaks  *)
(* between the two loses the frame just as one that breaks after them.     *)
(***************************************************************************)
EXTENDS EventLog, FiniteSets

CONSTANTS MaxDrops,     \* bound of the model: broken connections
          MaxRestarts   \* bound of the model: restarts of the server process

ASSUME DropsAssumption == MaxDrops \in Nat /\ MaxRestarts \in Nat

VARIABLES
  gen,      \* state of the response's generator
  snap,     \* list(self._buf), the copy the generator walks
  cursor,   \* cursor of the generator, after_seq until it starts
  wire,     \* frames written and not read yet
  phase,    \* where streamEvents() is in its loop
  lastId,   \* lastId of streamEvents(), 0 for none
  got,      \* history: events of the present process the client has yielded
  floor,    \* history: events up to it were never asked of this process, as
            \* the Last-Event-ID sent for them came from an earlier process
  drops, restarts

clientVars == <<phase, lastId, got, floor>>
streamVars == <<gen, snap, cursor, wire>>
vars == <<logVars, streamVars, clientVars, drops, restarts>>

ErrorFrame == 0   \* the "error" frame, which carries no id

\* Types of the log, of the generators and of the readers.
TypeOK ==
  /\ LogTypeOK
  /\ gen \in [Client -> {"none", "open", "yielded", "waiting", "ended"}]
  /\ snap \in [Client -> Seq(1..MaxSeq)]
  /\ cursor \in [Client -> 0..MaxSeq]
  /\ wire \in [Client -> Seq(0..MaxSeq)]
  /\ phase \in [Client -> {"connecting", "streaming", "failed"}]
  /\ lastId \in [Client -> 0..MaxSeq]
  /\ got \in [Client -> SUBSET (1..MaxSeq)]
  /\ floor \in [Client -> 0..MaxSeq]
  /\ drops \in 0..MaxDrops
  /\ restarts \in 0..MaxRestarts

Init ==
  /\ LogInit
  /\ gen = [c \in Client |-> "none"]
  /\ snap = [c \in Client |-> <<>>]
  /\ cursor = [c \in Client |-> 0]
  /\ wire = [c \in Client |-> <<>>]
  /\ phase = [c \in Client |-> "connecting"]
  /\ lastId = [c \in Client |-> 0]
  /\ got = [c \in Client |-> {}]
  /\ floor = [c \in Client |-> 0]
  /\ drops = 0
  /\ restarts = 0

-----------------------------------------------------------------------------
(* The log. *)

Append1 == LogAppend /\ UNCHANGED <<streamVars, clientVars, drops, restarts>>

CloseLog == LogClose /\ UNCHANGED <<streamVars, clientVars, drops, restarts>>

-----------------------------------------------------------------------------
(* The handler of GET /stream. *)

\* Mutants of AfterSeq: replay from the id itself; tail without replay.
AfterSeqInclusive(c) == lastId[c] - 1
AfterSeqTail(c) == LastSeq

\* An id beyond the newest event is taken as "no id": the client is given the
\* whole ring.
AfterSeq(c) == IF lastId[c] > LastSeq THEN 0 ELSE lastId[c]

\* The pre-flight subscription finds the id evicted: 412, and streamEvents()
\* throws instead of retrying.
Reject(c) ==
  /\ phase[c] = "connecting"
  /\ Evicted(AfterSeq(c))
  /\ phase' = [phase EXCEPT ![c] = "failed"]
  /\ UNCHANGED <<logVars, streamVars, lastId, got, floor, drops, restarts>>

\* The response is created; its generator has not run.  The pre-flight
\* subscription of a client that is caught up leaves its waiter in the log.
Accept(c) ==
  /\ phase[c] = "connecting"
  /\ ~Evicted(AfterSeq(c))
  /\ phase' = [phase EXCEPT ![c] = "streaming"]
  /\ gen' = [gen EXCEPT ![c] = "open"]
  /\ cursor' = [cursor EXCEPT ![c] = AfterSeq(c)]
  /\ floor' = [floor EXCEPT ![c] =
                 IF AfterSeq(c) = 0 THEN 0
                 ELSE IF lastId[c] \in got[c] THEN @ ELSE AfterSeq(c)]
  /\ waiters' = IF AfterSeq(c) > 0 /\ AfterSeq(c) = LastSeq /\ ~closed
                THEN waiters \cup {c} ELSE waiters
  /\ UNCHANGED <<nextSeq, buf, closed, snap, wire, lastId, got, drops, restarts>>

-----------------------------------------------------------------------------
(* The generator.  Walk(c, list) is its body from a resumption on, with    *)
(* the entries of list beyond the cursor still to be visited.              *)

Pending(c, list) == {i \in DOMAIN list : list[i] > cursor[c]}

\* Mutant of Emit: the newest pending event goes first.
EmitNewest(c, list) ==
  \E i \in Pending(c, list) :
    /\ \A j \in Pending(c, list) : j <= i
    /\ cursor' = [cursor EXCEPT ![c] = list[i]]
    /\ wire' = [wire EXCEPT ![c] = Append(@, list[i])]
    /\ snap' = [snap EXCEPT ![c] = list]
    /\ gen' = [gen EXCEPT ![c] = "yielded"]
    /\ UNCHANGED waiters

Emit(c, list) ==
  \E i \in Pending(c, list) :
    /\ \A j \in Pending(c, list) : i <= j
    /\ cursor' = [cursor EXCEPT ![c] = list[i]]
    /\ wire' = [wire EXCEPT ![c] = Append(@, list[i])]
    /\ snap' = [snap EXCEPT ![c] = list]
    /\ gen' = [gen EXCEPT ![c] = "yielded"]
    /\ UNCHANGED waiters

Finish(c, list) ==
  /\ Pending(c, list) = {}
  /\ closed
  /\ gen' = [gen EXCEPT ![c] = "ended"]
  /\ snap' = [snap EXCEPT ![c] = <<>>]
  /\ UNCHANGED <<waiters, cursor, wire>>

Block(c, list) ==
  /\ Pending(c, list) = {}
  /\ ~closed
  /\ gen' = [gen EXCEPT ![c] = "waiting"]
  /\ snap' = [snap EXCEPT ![c] = <<>>]
  /\ waiters' = waiters \cup {c}
  /\ UNCHANGED <<cursor, wire>>

\* Mutant of Walk: the cursor jumps to the newest event once the copy is done.
WalkJump(c, list) ==
  \/ Emit(c, list)
  \/ Finish(c, list)
  \/ /\ Pending(c, list) = {}
     /\ ~closed
     /\ gen' = [gen EXCEPT ![c] = "waiting"]
     /\ snap' = [snap EXCEPT ![c] = <<>>]
     /\ waiters' = waiters \cup {c}
     /\ cursor' = [cursor EXCEPT ![c] = LastSeq]
     /\ UNCHANGED wire

Walk(c, list) == Emit(c, list) \/ Finish(c, list) \/ Block(c, list)

\* First resumption: the id may have been evicted since the pre-flight.
StartEvicted(c) ==
  /\ gen[c] = "open"
  /\ Evicted(cursor[c])
  /\ wire' = [wire EXCEPT ![c] = Append(@, ErrorFrame)]
  /\ gen' = [gen EXCEPT ![c] = "ended"]
  /\ UNCHANGED <<logVars, snap, cursor, clientVars, drops, restarts>>

Start(c) ==
  /\ gen[c] = "open"
  /\ ~Evicted(cursor[c])
  /\ Walk(c, buf)
  /\ UNCHANGED <<nextSeq, buf, closed, clientVars, drops, restarts>>

\* Mutant of Resume: the rest of the copy is forgotten at a yield.
ResumeStalled(c) ==
  /\ gen[c] = "yielded"
  /\ gen' = [gen EXCEPT ![c] = "waiting"]
  /\ snap' = [snap EXCEPT ![c] = <<>>]
  /\ waiters' = waiters \cup {c}
  /\ UNCHANGED <<nextSeq, buf, closed, cursor, wire, clientVars, drops, restarts>>

\* Resumed after a yield: the walk goes on in the copy taken before it.
Resume(c) ==
  /\ gen[c] = "yielded"
  /\ Walk(c, snap[c])
  /\ UNCHANGED <<nextSeq, buf, closed, clientVars, drops, restarts>>

\* The waiter was set: back to the top of the loop, with a new copy.
Wake(c) ==
  /\ gen[c] = "waiting"
  /\ c \notin waiters
  /\ Walk(c, buf)
  /\ UNCHANGED <<nextSeq, buf, closed, clientVars, drops, restarts>>

-----------------------------------------------------------------------------
(* The client, streamEvents(). *)

\* An error frame has no id: it is surfaced and changes nothing.
DeliverError(c) ==
  /\ phase[c] = "streaming"
  /\ wire[c] # <<>>
  /\ Head(wire[c]) = ErrorFrame
  /\ wire' = [wire EXCEPT ![c] = Tail(@)]
  /\ UNCHANGED <<logVars, gen, snap, cursor, clientVars, drops, restarts>>

\* Mutant of Deliver: the id is not remembered.
DeliverForget(c) ==
  /\ phase[c] = "streaming"
  /\ wire[c] # <<>>
  /\ Head(wire[c]) # ErrorFrame
  /\ wire' = [wire EXCEPT ![c] = Tail(@)]
  /\ got' = [got EXCEPT ![c] = @ \cup {Head(wire[c])}]
  /\ UNCHANGED <<logVars, gen, snap, cursor, phase, lastId, floor, drops, restarts>>

Deliver(c) ==
  /\ phase[c] = "streaming"
  /\ wire[c] # <<>>
  /\ Head(wire[c]) # ErrorFrame
  /\ wire' = [wire EXCEPT ![c] = Tail(@)]
  /\ lastId' = [lastId EXCEPT ![c] = Head(wire[c])]
  /\ got' = [got EXCEPT ![c] = @ \cup {Head(wire[c])}]
  /\ UNCHANGED <<logVars, gen, snap, cursor, phase, floor, drops, restarts>>

\* reader.read() reports the end of the body: back to the top of the loop.
EndOfStream(c) ==
  /\ phase[c] = "streaming"
  /\ gen[c] = "ended"
  /\ wire[c] = <<>>
  /\ phase' = [phase EXCEPT ![c] = "connecting"]
  /\ gen' = [gen EXCEPT ![c] = "none"]
  /\ UNCHANGED <<logVars, snap, cursor, wire, lastId, got, floor, drops, restarts>>

\* The connection breaks.  The server cancels the pending step, which leaves
\* the waiter of a blocked generator in the log; unread frames are lost.
Drop(c) ==
  /\ phase[c] = "streaming"
  /\ drops < MaxDrops
  /\ drops' = drops + 1
  /\ phase' = [phase EXCEPT ![c] = "connecting"]
  /\ gen' = [gen EXCEPT ![c] = "none"]
  /\ snap' = [snap EXCEPT ![c] = <<>>]
  /\ wire' = [wire EXCEPT ![c] = <<>>]
  /\ UNCHANGED <<logVars, cursor, lastId, got, floor, restarts>>

\* After the fatal 412 the user reloads the page: a new client without an id.
Reload(c) ==
  /\ phase[c] = "failed"
  /\ phase' = [phase EXCEPT ![c] = "connecting"]
  /\ lastId' = [lastId EXCEPT ![c] = 0]
  /\ got' = [got EXCEPT ![c] = {}]
  /\ floor' = [floor EXCEPT ![c] = 0]
  /\ UNCHANGED <<logVars, streamVars, drops, restarts>>

\* The server process is replaced: a new log, every connection broken.  Ids
\* kept by the clients are now those of an earlier process.  (A frame of the
\* old process that is read after the restart could as well be read before.)
Restart ==
  /\ restarts < MaxRestarts
  /\ restarts' = restarts + 1
  /\ nextSeq' = 1
  /\ buf' = <<>>
  /\ waiters' = {}
  /\ closed' = FALSE
  /\ gen' = [c \in Client |-> "none"]
  /\ snap' = [c \in Client |-> <<>>]
  /\ wire' = [c \in Client |-> <<>>]
  /\ phase' = [c \in Client |->
                 IF phase[c] = "streaming" THEN "connecting" ELSE phase[c]]
  /\ got' = [c \in Client |-> {}]
  /\ floor' = lastId
  /\ UNCHANGED <<cursor, lastId, drops>>

-----------------------------------------------------------------------------
ClientStep(c) ==
  \/ Reject(c) \/ Accept(c)
  \/ StartEvicted(c) \/ Start(c) \/ Resume(c) \/ Wake(c)
  \/ DeliverError(c) \/ Deliver(c) \/ EndOfStream(c)

Next ==
  \/ Append1
  \/ CloseLog
  \/ Restart
  \/ \E c \in Client : ClientStep(c) \/ Drop(c) \/ Reload(c)

Spec == Init /\ [][Next]_vars

\* The event loop runs every ready task, streamEvents() retries for ever with
\* a bounded pause, and TCP delivers what was written on a connection that
\* holds.  Nothing obliges anyone to append, close, drop, restart or reload.
FairSpec == Spec /\ \A c \in Client : WF_vars(ClientStep(c))

-----------------------------------------------------------------------------
(* Properties. *)

\* The ring holds the newest events, all of them up to its capacity: nothing
\* but the oldest is ever evicted (append() and the deque's maxlen).
RingIsNewestSuffix ==
  InRing = {s \in 1..LastSeq : s > LastSeq - Cap}

\* Through yields, broken connections, 412s and a stale id, an event that is
\* still in the ring is never passed over: below an id that a client has from
\* this process it has every event, but those the ring no longer holds.
NothingInRingSkipped ==
  \A c \in Client : \A s \in InRing :
    lastId[c] \in got[c] /\ floor[c] < s /\ s <= lastId[c] => s \in got[c]

\* Nor is it passed over on its way: what the generator has moved past is
\* either with the client or among the frames written and not yet read.
NothingLostInFlight ==
  \A c \in Client : \A s \in InRing :
    (phase[c] = "streaming" /\ floor[c] < s /\ s <= cursor[c])
      => s \in got[c] \/ \E i \in DOMAIN wire[c] : wire[c][i] = s

\* A client is told 412 only when an event it never got is really gone: the
\* boundary of the eviction test (oldest - 1) is neither early nor late.
RejectedOnlyWhenLost ==
  [][\A c \in Client : phase[c] # "failed" /\ phase'[c] = "failed"
       => \E s \in 1..LastSeq : s > lastId[c] /\ s \notin InRing /\ s \notin got[c]]_vars

\* Every frame on its way to a client is newer than the frames before it and
\* than all the client has yielded of this process, over broken connections
\* too: the client sees no event twice and none out of order.
EveryFrameIsNew ==
  \A c \in Client : \A i \in DOMAIN wire[c] :
    wire[c][i] # ErrorFrame =>
      /\ \A t \in got[c] : t < wire[c][i]
      /\ \A j \in 1..(i - 1) : wire[c][j] < wire[c][i]

\* A generator blocked on its waiter has given out all that was in the ring,
\* "blocking when caught up" as the docstring of subscribe() has it.
BlockedMeansCaughtUp ==
  \A c \in Client : gen[c] = "waiting" /\ c \in waiters => cursor[c] = LastSeq

\* An event in the ring when a client reconnects with an older id reaches that
\* client: replay does not depend on anything being appended afterwards.  Unless
\* it is evicted first, or the client is told that its id was.
ResumeReplays ==
  \A c \in Client : \A s \in 1..MaxSeq :
    (phase[c] = "connecting" /\ s \in InRing /\ lastId[c] < s /\ floor[c] = 0)
      ~> (s \in got[c] \/ s \notin InRing \/ phase[c] = "failed")

\* The stream is an implementation of the feed, over restarts of the server.
Feed == INSTANCE EventFeed WITH published <- LastSeq, received <- got, base <- floor
ImplementsFeed == Feed!FeedSpec
=============================================================================
