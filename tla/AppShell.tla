-------------------------------- MODULE AppShell --------------------------------
(***************************************************************************)
(* The shell of the web application: its copy of the workspace list, the   *)
(* workspace and session on screen, and the operations on them.  The list  *)
(* is never changed in place: whatever changes it, here or in another      *)
(* browser, is followed by GETs of the whole, which may overtake one       *)
(* another and may fail.  The server changes the store in steps and then   *)
(* broadcasts an app event over the stream, which reaches this tab as      *)
(* EventStream and ClientStream say: late, but in order and once.          *)
(***************************************************************************)
EXTENDS Integers, Sequences, FiniteSets, SequencesExt, FiniteSetsExt

CONSTANTS
  MaxOp,       \* bound: operations, of this tab and of others
  MaxRemote,   \* bound: of these, those of other browsers
  Elsewhere,   \* bound: the kinds of operations of other browsers
  MaxPick,     \* bound: clicks that only change what is on screen
  MaxFail,     \* bound: requests that fail on the way or on the server
  PastSess,    \* the sessions there are at the start
  Past         \* the workspaces there are at the start: the sessions of each

ASSUME ShellBoundsAssumption ==
  /\ MaxOp \in Nat /\ MaxRemote \in Nat /\ MaxPick \in Nat /\ MaxFail \in Nat
  /\ PastSess \in Nat /\ Past \in Seq(Seq(1..PastSess))

VARIABLES
  store,      \* the workspace store, after each of its changes
  nextWs, nextSess, \* ids to give
  ops,        \* the operations so far
  pending,    \* refreshes to come: the first, and one per app event on its way here
  refreshes,  \* answers to refreshes that are on their way, by the version they bring
  fails, picks,
  shown,      \* workspaces.list: the version of the store it came with, 0: none yet
  hydrated,   \* workspaces.hydrated
  activeWs,   \* activeWorkspaceId, 0: null
  activeBy,   \* activeSessionByWs, 0: no entry
  creating,   \* creatingWorkspace and creatingChat
  newest,     \* newest version the list ever had
  missed      \* GETs of the list that failed

server == <<store, nextWs, nextSess>>
screen == <<shown, hydrated, activeWs, activeBy>>
vars == <<server, ops, pending, refreshes, fails, picks, screen, creating, newest, missed>>

MaxWs == Len(Past) + MaxOp
MaxSess == PastSess + MaxOp
MaxVersion == 1 + 2 * MaxOp
WsIds == 1..MaxWs

(* ------------------------- the store and the list ------------------------- *)

\* remove(), and filter(): the sessions but one, in their order.
Others(sessions, s) ==
  LET f[n \in 0..Len(sessions)] ==
        IF n = 0 THEN <<>>
        ELSE IF sessions[n] # s THEN Append(f[n - 1], sessions[n]) ELSE f[n - 1]
  IN f[Len(sessions)]

Workspace(archived, sessions) == [archived |-> archived, session_ids |-> sessions]
Now == Last(store)
list == IF shown = 0 THEN <<>> ELSE store[shown]

\* Newest first.
First(l) == Max(DOMAIN l)

Put(l, w, ws) == [x \in DOMAIN l \cup {w} |-> IF x = w THEN ws ELSE l[x]]
Without(l, w) == [x \in DOMAIN l \ {w} |-> l[x]]
Store(l) == store' = Append(store, l)

(* ------------------------- what is on screen ------------------------- *)

activeSession(l, w, by) ==
  IF w \notin DOMAIN l THEN 0
  ELSE IF by[w] # 0 THEN by[w]
  ELSE IF l[w].session_ids = <<>> THEN 0 ELSE Head(l[w].session_ids)

ChatViewShown ==
  hydrated /\ activeSession(list, activeWs, activeBy) # 0

\* A render with the list of version v, and the two effects that pick defaults.
Show(v, ready, w, by) ==
  LET l == IF v = 0 THEN <<>> ELSE store'[v]
      picked == IF ready /\ w = 0 /\ DOMAIN l # {} THEN First(l) ELSE w
  IN /\ shown' = v
     /\ hydrated' = ready
     /\ activeWs' = picked
     /\ activeBy' = IF picked = 0 THEN by ELSE [by EXCEPT ![picked] = activeSession(l, picked, by)]

(* ------------------------- operations ------------------------- *)

\* The closure of an operation has the list of the render it was started from.
Op(kind, w, s, mine) ==
  [kind |-> kind, ws |-> w, sess |-> s, mine |-> mine, at |-> "sent", ver |-> 0,
   had |-> IF mine /\ kind = "deleteSession" THEN shown ELSE 0]

Spawns(o) == o.kind \in {"create", "chat", "spawn"}
OfSession(kind) == kind \in {"rename", "deleteSession"}

Creates == {"create", "chat"}
\* These do not look at the status of the answer.
Unchecked == {"remove", "archive", "restore"}

Over(o) == o.at = "over"
At(i, at) == [ops EXCEPT ![i].at = at]
End(i) == [ops EXCEPT ![i].at = "over", ![i].ver = 0, ![i].had = 0]

\* The buttons are disabled while a creation is under way, until its promise
\* settles, one way or the other.
\* Mutant of Settled: only a creation that succeeds enables the button again.
SettledIfGood(o, ok) == IF ok THEN creating \ {o.kind} ELSE creating

Settled(o, ok) == creating \ {o.kind}

Start(kind, w, s) ==
  /\ Len(ops) < MaxOp
  /\ ops' = Append(ops, Op(kind, w, s, TRUE))
  /\ creating' = creating \cup ({kind} \cap Creates)
  /\ UNCHANGED <<server, pending, refreshes, fails, picks, screen, newest, missed>>

\* The sidebar is there from the start, its buttons too.
CreateTicket == "create" \notin creating /\ Start("create", 0, 0)
NewChat == "chat" \notin creating /\ Start("chat", 0, 0)

\* The row of a live workspace has a menu; the others are in the archive, whose
\* buttons can be had back by opening it again.
RowMenu(w, kind) ==
  /\ w \in DOMAIN list /\ ~list[w].archived
  /\ kind \in {"archive", "remove"}
  /\ Start(kind, w, 0)

Archive(w, kind) ==
  /\ w \in DOMAIN list /\ list[w].archived
  /\ kind \in {"restore", "remove"}
  /\ Start(kind, w, 0)

\* The tabs of the workspace on screen.
SpawnSession == ChatViewShown /\ Start("spawn", activeWs, 0)

RenameSession(s) ==
  ChatViewShown /\ s \in ToSet(list[activeWs].session_ids) /\ Start("rename", activeWs, s)

DeleteSession(s) ==
  ChatViewShown /\ s \in ToSet(list[activeWs].session_ids) /\ Start("deleteSession", activeWs, s)

\* What another browser asks for is on the list it has.
StartElsewhere(kind, w, s) ==
  /\ Len(ops) < MaxOp
  /\ Cardinality({i \in DOMAIN ops : ~ops[i].mine}) < MaxRemote
  /\ kind \in Elsewhere
  /\ kind \notin Creates => w \in DOMAIN Now
  /\ OfSession(kind) => s \in ToSet(Now[w].session_ids)
  /\ ops' = Append(ops, Op(kind, w, s, FALSE))
  /\ UNCHANGED <<server, pending, refreshes, fails, picks, screen, creating, newest, missed>>

(* ------------------------- the server ------------------------- *)

\* What a handler checks when it begins.
Refused(o) ==
  /\ o.kind \notin Creates
  /\ ~(o.ws \in DOMAIN Now /\ (OfSession(o.kind) => o.sess \in ToSet(Now[o.ws].session_ids)))

\* The workspace was removed since: nothing is left to change.
Gone(o) == ~Spawns(o) /\ o.ws \notin DOMAIN Now

\* An operation of this tab whose answer is not ok throws: it is over.
Answer(o, ok) ==
  IF o.mine /\ (ok \/ o.kind \in Unchecked) THEN "answered" ELSE "over"

\* Handlers with nothing to wait for but the store.
AtOnce == {"rename", "archive", "restore"}

\* The others check, and then wait: for git, for a session to close.  A creation
\* stores the workspace before it spawns the first session.
Begin(i) ==
  LET o == ops[i]
  IN /\ o.at = "sent" /\ o.kind \notin AtOnce /\ ~Refused(o)
     /\ IF o.kind \in Creates
        THEN /\ Store(Put(Now, nextWs, Workspace(FALSE, <<>>)))
             /\ nextWs' = nextWs + 1
             /\ ops' = [ops EXCEPT ![i].at = "begun", ![i].ws = nextWs]
        ELSE UNCHANGED <<store, nextWs>> /\ ops' = At(i, "begun")
     /\ UNCHANGED <<nextSess, pending, refreshes, fails, picks, screen, creating, newest, missed>>

Changed(o) ==
  CASE Spawns(o) ->
         IF o.ws \in DOMAIN Now THEN [Now EXCEPT ![o.ws].session_ids = Append(@, nextSess)] ELSE Now
    [] o.kind = "deleteSession" ->
         [Now EXCEPT ![o.ws].session_ids = Others(@, o.sess)]
    [] o.kind = "remove" -> Without(Now, o.ws)
    [] o.kind = "archive" -> [Now EXCEPT ![o.ws].archived = TRUE]
    [] o.kind = "restore" -> [Now EXCEPT ![o.ws].archived = FALSE]
    [] o.kind = "rename" -> Now

\* Mutant of Handle: the event goes out first, the store changes after it.
HandleBroadcastFirst(i) ==
  LET o == ops[i]
  IN /\ ~Gone(o)
     /\ \/ /\ o.at = "begun"
           /\ pending' = pending + 1
           /\ ops' = At(i, "told")
           /\ UNCHANGED <<store, nextSess>>
        \/ /\ o.at = "told"
           /\ Store(Changed(o))
           /\ nextSess' = IF Spawns(o) THEN nextSess + 1 ELSE nextSess
           /\ ops' = [ops EXCEPT ![i].at = Answer(o, TRUE), ![i].sess = IF Spawns(o) THEN nextSess ELSE @]
           /\ UNCHANGED pending
     /\ UNCHANGED <<nextWs, refreshes, fails, picks, screen, creating, newest, missed>>

\* The last change of an operation, its broadcast and its answer.
Handle(i) ==
  LET o == ops[i]
  IN /\ IF o.kind \in AtOnce THEN o.at = "sent" /\ ~Refused(o) ELSE o.at = "begun" /\ ~Gone(o)
     /\ Store(Changed(o))
     /\ nextSess' = IF Spawns(o) THEN nextSess + 1 ELSE nextSess
     /\ ops' = [ops EXCEPT ![i].at = Answer(o, TRUE), ![i].sess = IF Spawns(o) THEN nextSess ELSE @]
     /\ pending' = pending + 1
     /\ UNCHANGED <<nextWs, refreshes, fails, picks, screen, creating, newest, missed>>

Refuse(i) ==
  LET o == ops[i]
  IN /\ (o.at = "sent" /\ Refused(o)) \/ (o.at = "begun" /\ Gone(o))
     /\ ops' = At(i, Answer(o, FALSE))
     /\ UNCHANGED <<server, pending, refreshes, fails, picks, screen, creating, newest, missed>>

\* The request or its answer is lost: fetch() rejects.
Lost(i) ==
  LET o == ops[i]
  IN /\ o.mine /\ fails < MaxFail
     /\ o.at \in {"sent", "answered"}
     /\ fails' = fails + 1
     /\ ops' = End(i)
     /\ creating' = Settled(o, FALSE)
     /\ UNCHANGED <<server, pending, refreshes, picks, screen, newest, missed>>

(* ------------------------- the rest of an operation ------------------------- *)

\* Mutant of AwaitRefresh: a cached answer will do.
AwaitCached(i) ==
  /\ ops[i].at = "answered"
  /\ ops' = [ops EXCEPT ![i].at = "refreshed", ![i].ver = IF shown = 0 THEN Len(store) ELSE shown]
  /\ UNCHANGED <<server, pending, refreshes, fails, picks, screen, creating, newest, missed>>

\* The answer is there, and the GET of await refresh() is served.
AwaitRefresh(i) ==
  /\ ops[i].at = "answered"
  /\ ops' = [ops EXCEPT ![i].at = "refreshed", ![i].ver = Len(store)]
  /\ UNCHANGED <<server, pending, refreshes, fails, picks, screen, creating, newest, missed>>

\* What is on screen after an operation: what was created, or spawned.
Opens(o, v) ==
  CASE o.kind \in Creates -> Show(v, TRUE, o.ws, [activeBy EXCEPT ![o.ws] = o.sess])
    [] o.kind = "spawn" -> Show(v, TRUE, activeWs, [activeBy EXCEPT ![o.ws] = o.sess])
    [] OTHER -> Show(v, TRUE, activeWs, activeBy)

\* Its answer is there; without .ok it counts for nothing.  A deletion goes on
\* to the list of sessions before it looks at what is on screen.
Refreshed(i, ok) ==
  LET o == ops[i]
      v == IF ok THEN o.ver ELSE shown
  IN /\ o.at = "refreshed"
     /\ ~ok => fails < MaxFail
     /\ fails' = IF ok THEN fails ELSE fails + 1
     /\ missed' = IF ok THEN missed ELSE missed + 1
     /\ newest' = IF ok THEN Max({newest, o.ver}) ELSE newest
     /\ ops' = IF o.kind = "deleteSession" THEN At(i, "repointing") ELSE End(i)
     /\ creating' = Settled(o, TRUE)
     /\ UNCHANGED <<server, pending, refreshes, picks>>
     /\ Opens(o, v)

\* refresh() rejects, and with it the operation.
RefreshRejects(i) ==
  LET o == ops[i]
  IN /\ o.at = "refreshed"
     /\ fails < MaxFail /\ fails' = fails + 1
     /\ missed' = missed + 1
     /\ ops' = End(i)
     /\ creating' = Settled(o, FALSE)
     /\ UNCHANGED <<server, pending, refreshes, picks, newest>>
     /\ Show(shown, TRUE, activeWs, activeBy)

\* A sibling is taken from the list the operation was started with.
Repoint(i) ==
  LET o == ops[i]
      l == store[o.had]
      siblings == Others(l[o.ws].session_ids, o.sess)
      next == IF siblings = <<>> THEN 0 ELSE Head(siblings)
  IN /\ o.at = "repointing"
     /\ ops' = End(i)
     /\ UNCHANGED <<server, pending, refreshes, fails, picks, creating, newest, missed>>
     /\ Show(shown, hydrated, activeWs,
             IF activeBy[o.ws] = o.sess THEN [activeBy EXCEPT ![o.ws] = next] ELSE activeBy)

(* ------------------------- app events ------------------------- *)

\* The event is there, and the GET of refresh() is served.
Refresh ==
  /\ pending > 0
  /\ pending' = pending - 1
  /\ refreshes' = [refreshes EXCEPT ![Len(store)] = @ + 1]
  /\ UNCHANGED <<server, ops, fails, picks, screen, creating, newest, missed>>

\* hydrated is set however the request ends.
Hydrated(ok) == TRUE

Land(v, ok) ==
  /\ refreshes[v] > 0
  /\ ~ok => fails < MaxFail
  /\ refreshes' = [refreshes EXCEPT ![v] = @ - 1]
  /\ fails' = IF ok THEN fails ELSE fails + 1
  /\ missed' = IF ok THEN missed ELSE missed + 1
  /\ newest' = IF ok THEN Max({newest, v}) ELSE newest
  /\ UNCHANGED <<server, ops, pending, picks, creating>>
  /\ Show(IF ok THEN v ELSE shown, Hydrated(ok), activeWs, activeBy)

(* ------------------------- clicks ------------------------- *)

Pick(w, s) ==
  /\ picks < MaxPick /\ picks' = picks + 1
  /\ w \in DOMAIN list
  /\ s # 0 => ChatViewShown /\ w = activeWs /\ s \in ToSet(list[w].session_ids)
  /\ UNCHANGED <<server, ops, pending, refreshes, fails, creating, newest, missed>>
  /\ Show(shown, hydrated, w, IF s = 0 THEN activeBy ELSE [activeBy EXCEPT ![w] = s])

-----------------------------------------------------------------------------
ShellInit ==
  /\ store = <<[i \in DOMAIN Past |-> Workspace(FALSE, Past[i])]>>
  /\ nextWs = Len(Past) + 1
  /\ nextSess = PastSess + 1
  /\ ops = <<>> /\ pending = 1 /\ fails = 0 /\ picks = 0
  /\ refreshes = [v \in 1..MaxVersion |-> 0]
  /\ shown = 0 /\ hydrated = FALSE
  /\ activeWs = 0 /\ activeBy = [w \in WsIds |-> 0]
  /\ creating = {} /\ newest = 0 /\ missed = 0

Running(i) ==
  \/ Begin(i) \/ Handle(i) \/ Refuse(i) \/ AwaitRefresh(i)
  \/ (\E ok \in BOOLEAN : Refreshed(i, ok)) \/ Repoint(i)

Stream ==
  Refresh \/ \E v \in 1..MaxVersion, ok \in BOOLEAN : Land(v, ok)

ShellNext ==
  \/ CreateTicket \/ NewChat \/ SpawnSession
  \/ \E s \in 1..MaxSess : RenameSession(s) \/ DeleteSession(s)
  \/ \E w \in WsIds : \/ \E kind \in {"archive", "remove"} : RowMenu(w, kind)
                     \/ \E kind \in {"restore", "remove"} : Archive(w, kind)
  \/ \E kind \in Creates : StartElsewhere(kind, 0, 0)
  \/ \E w \in WsIds, kind \in {"spawn", "remove", "archive", "restore"} : StartElsewhere(kind, w, 0)
  \/ \E w \in WsIds, s \in 1..MaxSess, kind \in {"rename", "deleteSession"} : StartElsewhere(kind, w, s)
  \/ \E i \in DOMAIN ops : Running(i) \/ Lost(i) \/ RefreshRejects(i)
  \/ Stream
  \/ \E w \in WsIds, s \in 0..MaxSess : Pick(w, s)

ShellSpec == ShellInit /\ [][ShellNext]_vars

-----------------------------------------------------------------------------
(* Properties. *)

\* Types of the store, the list and the screen; a button is disabled exactly while
\* the creation it started is under way, whatever becomes of it.
ShellTypeOK ==
  /\ store # <<>> /\ shown \in 0..Len(store) /\ newest \in 0..Len(store)
  /\ \A v \in DOMAIN store : DOMAIN store[v] \subseteq 1..(nextWs - 1)
  /\ activeWs \in 0..(nextWs - 1)
  /\ \A w \in WsIds : activeBy[w] \in 0..(nextSess - 1)
  /\ \A i \in DOMAIN ops : ops[i].ws \in 0..(nextWs - 1) /\ ops[i].sess \in 0..(nextSess - 1)
  /\ creating = {ops[i].kind : i \in {j \in DOMAIN ops :
                   ops[j].mine /\ ops[j].kind \in Creates /\ ~Over(ops[j])}}

Quiet ==
  /\ pending = 0
  /\ \A v \in 1..MaxVersion : refreshes[v] = 0
  /\ \A i \in DOMAIN ops : Over(ops[i])

\* When nothing is under way any more and no GET has failed, the list has been
\* fetched since the last change of the store, whoever made it, and whichever
\* steps the change was made in.
EveryChangeIsFetched == Quiet /\ missed = 0 => newest = Len(store)

\* A creation that succeeds ends with its workspace and first session on screen,
\* although nothing but a GET puts it on the list; unless one was removed
\* meanwhile, or that GET failed.
CreatedWorkspaceOpens ==
  [][\A i \in DOMAIN ops :
       LET o == ops[i]
       IN /\ o.mine /\ o.kind \in Creates
          /\ o.at = "refreshed" /\ Over(ops'[i]) /\ missed' = missed
          /\ o.ws \in DOMAIN Now /\ o.sess \in ToSet(Now[o.ws].session_ids)
          => /\ activeWs' = o.ws /\ o.ws \in DOMAIN list'
             /\ activeSession(list', activeWs', activeBy') = o.sess
             /\ o.sess \in ToSet(list'[o.ws].session_ids)]_vars
=============================================================================
