------------------------------- MODULE TurnQueue -------------------------------
(***************************************************************************)
(* What an agent session promises its users, without loops, locks, gates   *)
(* or futures: what they say is written down; it waits its turn, unless    *)
(* there is no room; the agent is given one message at a time, the oldest  *)
(* first; a question the agent asks is answered once, by whoever is first, *)
(* or dropped; and when the session is closed, what waits is dropped with  *)
(* it, and "done" is written down once.  Session implements this.          *)
(***************************************************************************)
EXTENDS Integers, Sequences

CONSTANTS Msg, NoMsg, Tool, Decision, Room

VARIABLES
  transcript,  \* what was said, in order, and "done"
  waiting,     \* messages the agent has not been given
  given,       \* messages the agent was given, in order
  turn,        \* the message the agent works on
  phase,       \* open; deaf: the agent's messages are not read any more;
               \* closing: the agent is being disconnected; over
  asked,       \* questions the agent has ever asked
  open,        \* those that wait for an answer
  answer       \* what was answered

talkVars == <<transcript, waiting>>
turnVars == <<given, turn>>
askVars == <<asked, open, answer>>
turnQueueVars == <<talkVars, turnVars, phase, askVars>>

QueueInit ==
  /\ transcript = <<>> /\ waiting = <<>>
  /\ given = <<>> /\ turn = NoMsg
  /\ phase = "open"
  /\ asked = {} /\ open = {} /\ answer = [t \in Tool |-> "none"]

Alive == phase \in {"open", "deaf"}

\* A message is written down in any case.  It waits if there is room for it,
\* where one message may be out of the queue and not given yet; it is refused
\* only when there is none, or nobody to wait for.
Say(m) ==
  /\ transcript' = Append(transcript, m)
  /\ \/ /\ Alive /\ Len(waiting) <= Room
        /\ waiting' = Append(waiting, m)
     \/ /\ Alive => Len(waiting) >= Room
        /\ UNCHANGED waiting
  /\ UNCHANGED <<turnVars, phase, askVars>>

\* The oldest message is given to the agent, which has none, as far as anyone
\* who reads what it says can tell.
Begin ==
  /\ Alive /\ waiting # <<>> /\ turn = NoMsg
  /\ waiting' = Tail(waiting)
  /\ given' = Append(given, Head(waiting))
  /\ turn' = IF phase = "open" THEN Head(waiting) ELSE NoMsg
  /\ UNCHANGED <<transcript, phase, askVars>>

\* The agent is done with its message, or never got it.
Finish ==
  /\ turn # NoMsg
  /\ turn' = NoMsg
  /\ UNCHANGED <<talkVars, given, phase, askVars>>

GoDeaf ==
  /\ phase = "open"
  /\ phase' = "deaf"
  /\ turn' = NoMsg
  /\ UNCHANGED <<talkVars, given, askVars>>

\* A question is asked in a turn, as long as there is an agent to ask it.
Inquire(t) ==
  /\ phase # "over" /\ (phase = "open" => turn # NoMsg)
  /\ t \notin asked
  /\ asked' = asked \cup {t}
  /\ open' = open \cup {t}
  /\ UNCHANGED <<talkVars, turnVars, phase, answer>>

Answer(t) ==
  /\ t \in open
  /\ open' = open \ {t}
  /\ \E d \in Decision : answer' = [answer EXCEPT ![t] = d]
  /\ UNCHANGED <<talkVars, turnVars, phase, asked>>

\* Whatever waits is dropped: messages, and questions.
Dropped == waiting' = <<>> /\ turn' = NoMsg /\ open' = {}

BeginClose ==
  /\ Alive
  /\ phase' = "closing"
  /\ Dropped
  /\ UNCHANGED <<transcript, given, asked, answer>>

EndClose ==
  /\ phase # "over"
  /\ phase' = "over"
  /\ Dropped
  /\ transcript' = Append(transcript, "done")
  /\ UNCHANGED <<given, asked, answer>>

QueueNext ==
  \/ \E m \in Msg : Say(m)
  \/ Begin \/ Finish \/ GoDeaf
  \/ \E t \in Tool : Inquire(t) \/ Answer(t)
  \/ BeginClose \/ EndClose

QueueSpec == QueueInit /\ [][QueueNext]_turnQueueVars
=============================================================================
