--------------------------------- MODULE GenUI ---------------------------------
(***************************************************************************)
(* Generative UI in one hook: the server streams the input of each render  *)
(* tool as JSON, in fragments that end anywhere, and sends it whole at the *)
(* end; GenUIStream.feed() turns every event into an update; the hook      *)
(* keeps the newest update of each tool in a list.  React runs the state   *)
(* updaters the hook queues when it next renders, and often the first of   *)
(* them at once.                                                           *)
(***************************************************************************)
EXTENDS PartialJson, FiniteSets

CONSTANTS
  Tool,       \* tool_use ids of render tools
  None,       \* no pending buffer, no update
  MaxChunk,   \* bound: fragments of inputs that are sent
  MaxReset    \* bound: resets

ASSUME GenBoundsAssumption == MaxChunk \in Nat \ {0} /\ MaxReset \in Nat

VARIABLES
  doc,        \* the input the model writes for each tool
  sent,       \* how much of it the hook was fed; past the end: the tool_use
  chunks,     \* how many fragments were sent
  schema,     \* the schema has been loaded
  fallback,   \* the tools have the default server name and prefix
  pending,    \* pendingDeltas: from where to where a buffer holds the input
  settled,    \* the tools whose input is complete
  queue,      \* updaters that have not run
  index,      \* indexRef
  updates,    \* the state of the hook
  resets,
  torn        \* a reset found updaters in the queue

gvars == <<doc, sent, chunks, schema, fallback, pending, settled, queue, index, updates,
           resets, torn>>

\* Inputs with what is hard to cut: a number, an escaped quote, nesting.
Docs == {
  <<"{", "q", "x", "q", ":", "1", "2", ",", "q", "1", "q", ":", "[", "1", "]", "}">>,
  <<"{", "q", "x", "q", ":", "q", "b", "q", "q", ",", "_", "q", "1", "q", ":", "2", "1", "}">>,
  <<"{", "q", "x", "q", ":", "[", "{", "q", "1", "q", ":", "1", "2", "}", ",", "2", "]", "}">> }

\* parsePartialJSON of every part of every input.
Parsed == [d \in Docs |-> [from \in 1..Len(d) |-> [to \in 1..Len(d) |->
             parsePartialJSON(SubSeq(d, from, to))]]]
Final == [d \in Docs |-> JSONparse(d)]

(* --------------------------------- the stream --------------------------------- *)

Update(t, value, complete) == [tool |-> t, props |-> value, complete |-> complete]

matchToolName(named) == named /\ (schema \/ fallback)

\* A message_delta of tool t, which holds its input up to n.
FeedDelta(t, n, named) ==
  LET p == IF pending[t] # None THEN [pending[t] EXCEPT !.to = n]
           ELSE [from |-> sent[t] + 1, to |-> n, matched |-> matchToolName(named)]
      r == Parsed[doc[t]][p.from][p.to]
      seen == p.matched /\ r # Nothing
  IN IF t \in settled THEN [pending |-> pending, settled |-> settled, update |-> None]
     ELSE [pending |-> [pending EXCEPT ![t] = p], settled |-> settled,
           update |-> IF seen THEN Update(t, r.value, FALSE) ELSE None]

\* Mutant of FeedFinal: the input is looked for in the wrong place.
FeedFinalEmpty(t) ==
  IF ~matchToolName(TRUE) THEN [pending |-> pending, settled |-> settled, update |-> None]
  ELSE [pending |-> [pending EXCEPT ![t] = None], settled |-> settled \cup {t},
        update |-> Update(t, Empty("{"), TRUE)]
\* Mutant of FeedFinal: the name of the tool is settled and not its id.
FeedFinalByName(t) ==
  IF ~matchToolName(TRUE) THEN [pending |-> pending, settled |-> settled, update |-> None]
  ELSE [pending |-> [pending EXCEPT ![t] = None], settled |-> settled \cup {"render_card"},
        update |-> Update(t, Final[doc[t]], TRUE)]

\* The tool_use of tool t.
FeedFinal(t) ==
  IF ~matchToolName(TRUE) THEN [pending |-> pending, settled |-> settled, update |-> None]
  ELSE [pending |-> [pending EXCEPT ![t] = None], settled |-> settled \cup {t},
        update |-> Update(t, Final[doc[t]], TRUE)]

(* ---------------------------------- the hook ----------------------------------- *)

\* The updater of onEvent: it also writes the index.
Updater(st, u) ==
  IF st.index[u.tool] = None
    THEN [index |-> [st.index EXCEPT ![u.tool] = Len(st.updates) + 1],
          updates |-> Append(st.updates, u)]
    ELSE [st EXCEPT !.updates = [i \in 1..(IF Len(@) < st.index[u.tool] THEN st.index[u.tool]
                                                                       ELSE Len(@)) |->
                                   IF i = st.index[u.tool] THEN u
                                   ELSE IF i \in DOMAIN st.updates THEN st.updates[i] ELSE None]]
State == [index |-> index, updates |-> updates]
\* What is queued: an update, or the list that an updater run at once or a reset left.
Updating(u) == [update |-> u, list |-> <<>>]
Setting(list) == [update |-> None, list |-> list]
Apply(st, q) == IF q.update = None THEN [st EXCEPT !.updates = q.list] ELSE Updater(st, q.update)

onEvent(fed) ==
  /\ pending' = fed.pending /\ settled' = fed.settled
  /\ IF fed.update = None THEN UNCHANGED <<queue, index>>
     ELSE \/ /\ queue' = Append(queue, Updating(fed.update)) /\ UNCHANGED index
          \/ /\ queue = <<>>
             /\ LET st == Updater(State, fed.update)
                IN index' = st.index /\ queue' = <<Setting(st.updates)>>
  /\ UNCHANGED <<doc, schema, fallback, updates, resets, torn>>

Render ==
  /\ queue # <<>>
  /\ LET st == FoldLeft(Apply, State, queue)
     IN index' = st.index /\ updates' = st.updates
  /\ queue' = <<>>
  /\ UNCHANGED <<doc, sent, chunks, schema, fallback, pending, settled, resets, torn>>

reset ==
  /\ resets < MaxReset /\ resets' = resets + 1
  /\ pending' = [t \in Tool |-> None] /\ settled' = {}
  /\ index' = [t \in Tool |-> None]
  /\ queue' = Append(queue, Setting(<<>>))
  /\ torn' = (torn \/ queue # <<>>)
  /\ UNCHANGED <<doc, sent, chunks, schema, fallback, updates>>

loadSchema ==
  /\ ~schema /\ schema' = TRUE
  /\ UNCHANGED <<doc, sent, chunks, fallback, pending, settled, queue, index, updates, resets,
                 torn>>

(* --------------------------------- the events ---------------------------------- *)

Done(t) == sent[t] > Len(doc[t])

Delta(t, n) ==
  /\ n \in (sent[t] + 1)..Len(doc[t]) /\ chunks < MaxChunk
  /\ sent' = [sent EXCEPT ![t] = n] /\ chunks' = chunks + 1
  /\ onEvent(FeedDelta(t, n, TRUE))

ToolUse(t) ==
  /\ ~Done(t)
  /\ sent' = [sent EXCEPT ![t] = Len(doc[t]) + 1] /\ UNCHANGED chunks
  /\ onEvent(FeedFinal(t))

GenInit ==
  /\ doc \in [Tool -> Docs] /\ fallback \in BOOLEAN /\ schema \in BOOLEAN
  /\ sent = [t \in Tool |-> 0] /\ chunks = 0
  /\ pending = [t \in Tool |-> None] /\ settled = {}
  /\ queue = <<>> /\ index = [t \in Tool |-> None] /\ updates = <<>>
  /\ resets = 0 /\ torn = FALSE

GenNext ==
  \/ Render \/ reset \/ loadSchema
  \/ \E t \in Tool : ToolUse(t) \/ \E n \in 1..Len(doc[t]) : Delta(t, n)

GenSpec == GenInit /\ [][GenNext]_gvars

(* -------------------------------- properties -------------------------------- *)

Listed == {updates[i] : i \in DOMAIN updates} \ {None}

\* However the updaters were batched, after a render each tool has one card, and a
\* tool whose input is complete shows all of it; a reset leaves nothing behind.
OneCardPerTool ==
  queue = <<>> /\ ~torn =>
    /\ \A i, j \in DOMAIN updates : updates[i].tool = updates[j].tool => i = j
    /\ \A t \in settled : \E u \in Listed : u = Update(t, Final[doc[t]], TRUE)

\* Types of the stream and of the hook; a list entry is an update, and the list
\* agrees with what the stream has settled.
GenTypeOK ==
  /\ OneCardPerTool
  /\ \A t \in Tool : pending[t] # None => pending[t].from <= pending[t].to
  /\ settled \subseteq Tool /\ schema \in BOOLEAN /\ torn \in BOOLEAN
  /\ \A u \in Listed : u.tool \in Tool /\ u.complete \in BOOLEAN
  /\ \A t \in Tool : index[t] # None => index[t] \in Nat

\* What a renderer is given while the model is still writing is part of what it
\* will be given in the end: no half number, no half string, nothing in the
\* wrong place, wherever the fragments are cut.
PartialIsPartOfFinal ==
  \A u \in Listed : resets = 0 => Within(u.props, Final[doc[u.tool]])

\* A card only ever fills up: nothing it has been given is taken back or changed,
\* also when the schema arrives in the middle.
PropsOnlyGrow ==
  [][resets = 0 => \A u \in Listed : \E v \in Listed' :
       v.tool = u.tool /\ Within(u.props, v.props) /\ (u.complete => v = u)]_gvars
=============================================================================
