------------------------------- MODULE EventFeed -------------------------------
(***************************************************************************)
(* What GET /stream promises, without generators, copies or connections:   *)
(* events are published in order, a client receives them in order, each at *)
(* most once, and it may miss only events that at least Cap newer ones     *)
(* have pushed out of the ring, or that are not above the id it brought    *)
(* along from an earlier process.  EventStream implements this.            *)
(***************************************************************************)
EXTENDS Integers

CONSTANTS Client, Cap, MaxSeq

VARIABLES published,   \* the newest event of this process
          received,    \* the events of this process each client has yielded
          base         \* the id each client brought from an earlier process

feedVars == <<published, received, base>>

FeedInit ==
  /\ published = 0
  /\ received = [c \in Client |-> {}]
  /\ base = [c \in Client |-> 0]

Publish ==
  /\ published < MaxSeq
  /\ published' = published + 1
  /\ UNCHANGED <<received, base>>

\* The next event for c: newer than all it has, and with nothing missing in
\* between but what the ring has lost and what its id claims it had.
Receive(c) ==
  \E s \in 1..published :
    /\ \A t \in received[c] : t < s
    /\ \A t \in (base[c] + 1)..(s - 1) :
         (t \notin received[c] /\ \A u \in received[c] : u < t)
           => t <= published - Cap
    /\ received' = [received EXCEPT ![c] = @ \cup {s}]
    /\ UNCHANGED <<published, base>>

\* A reloaded client starts over.
Refresh(c) ==
  /\ received' = [received EXCEPT ![c] = {}]
  /\ base' = [base EXCEPT ![c] = 0]
  /\ UNCHANGED published

\* A client that has nothing of this process comes with an id of an earlier
\* one, or with an id that is taken as none.
Present(c) ==
  /\ received[c] = {}
  /\ \E id \in 0..MaxSeq : base' = [base EXCEPT ![c] = id]
  /\ UNCHANGED <<published, received>>

\* A new process numbers its events from 1, whatever ids the clients hold.
NewProcess ==
  /\ published' = 0
  /\ received' = [c \in Client |-> {}]
  /\ base' \in [Client -> 0..MaxSeq]

FeedNext ==
  \/ Publish
  \/ NewProcess
  \/ \E c \in Client : Receive(c) \/ Refresh(c) \/ Present(c)

FeedSpec == FeedInit /\ [][FeedNext]_feedVars
=============================================================================
