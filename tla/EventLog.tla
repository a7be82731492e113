------------------------------- MODULE EventLog -------------------------------
(***************************************************************************)
(* GlobalEventLog (event_log.py): the one ring buffer of a server process. *)
(* An event is abstracted to its sequence number: nothing below depends on *)
(* its session, name or payload.  The buffer is the deque of the code, a   *)
(* sequence whose head is the oldest event still held.                     *)
(***************************************************************************)
EXTENDS Integers, Sequences

CONSTANTS Client,    \* the subscribers, one per client connection
          Cap,       \* max_size of the ring (10 000 in the code)
          MaxSeq     \* bound of the model: events appended by one process

ASSUME CapAssumption == Cap \in Nat \ {0}
ASSUME MaxSeqAssumption == MaxSeq \in Nat

VARIABLES nextSeq,   \* _next_seq
          buf,       \* _buf, oldest first
          waiters,   \* clients with an unset asyncio.Event in _waiters
          closed     \* _closed

logVars == <<nextSeq, buf, waiters, closed>>

LastSeq == nextSeq - 1
OldestSeq == IF buf = <<>> THEN nextSeq ELSE buf[1]
InRing == {buf[i] : i \in DOMAIN buf}

\* subscribe(after_seq) raises EvictedError.
\* ("Mutant" definitions of this project are deliberately broken variants: a
\* property is trusted only if a broken variant makes TLC refute it.)
\* Mutant of Evicted: the boundary is off by one.
EvictedEarly(after) == after > 0 /\ buf # <<>> /\ after < OldestSeq
Evicted(after) == after > 0 /\ buf # <<>> /\ after < OldestSeq - 1

LogTypeOK ==
  /\ nextSeq \in 1..(MaxSeq + 1)
  /\ buf \in Seq(1..MaxSeq)
  /\ waiters \subseteq Client
  /\ closed \in BOOLEAN

LogInit ==
  /\ nextSeq = 1
  /\ buf = <<>>
  /\ waiters = {}
  /\ closed = FALSE

\* Mutant of Pushed: a full buffer refuses the new event.
PushedBlocking(q, s) == IF Len(q) < Cap THEN Append(q, s) ELSE q

\* deque(maxlen=Cap): a full deque drops its head when an item is appended.
Pushed(q, s) == IF Len(q) < Cap THEN Append(q, s) ELSE Append(Tail(q), s)

\* append(): every waiter is set and forgotten.
LogAppend ==
  /\ ~closed
  /\ nextSeq <= MaxSeq
  /\ nextSeq' = nextSeq + 1
  /\ buf' = Pushed(buf, nextSeq)
  /\ waiters' = {}
  /\ UNCHANGED closed

\* close(): further appends raise; every waiter is woken to find the log closed.
LogClose ==
  /\ ~closed
  /\ closed' = TRUE
  /\ waiters' = {}
  /\ UNCHANGED <<nextSeq, buf>>
=============================================================================
