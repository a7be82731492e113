-------------------------------- MODULE ChatView --------------------------------
(***************************************************************************)
(* The view of one session and the panel beside it.  One component shows   *)
(* whichever session is picked, so its state outlives a switch of session  *)
(* and of workspace; its effects run after each render, in the order of    *)
(* the source, for what has changed.  The panel (docSlot) is driven by     *)
(* four parties: the plan mode, the agent's writes to documents, the user, *)
(* and the history of a session, which arrives after the session is shown. *)
(* A document in the panel is fetched again whenever the count of finished *)
(* writes moves; a fetch that has been superseded may still be under way.  *)
(***************************************************************************)
EXTENDS Integers, Sequences, FiniteSets, SequencesExt

CONSTANTS
  Workspace,   \* workspaces of kind "ticket", each with a ticket of its own
  Session,     \* their sessions
  Doc,         \* the documents there are, of "ticket", "rfc" and "debrief"
  None,        \* no workspace
  MaxCall,     \* bound: tool calls while the page is open
  MaxMode,     \* bound: changes of permission mode
  MaxPick      \* bound: clicks of the user

ASSUME ChatBoundsAssumption ==
  /\ Doc \subseteq {"ticket", "rfc", "debrief"}
  /\ MaxCall \in Nat /\ MaxMode \in Nat /\ MaxPick \in Nat

VARIABLES
  home,       \* the workspace of each session
  log,        \* transcript of each session: tool calls and their results
  born,       \* how much of it there was when the page was loaded
  running,    \* what became of the tool call a transcript ends with
  remote,     \* version of each document in JIRA and Confluence
  mode,       \* the sessions in plan mode
  ask,        \* the sessions that wait for ExitPlanMode to be approved
  calls, modes, \* tool calls and changes of mode so far
  msgs,       \* messages of each session in this browser
  asked,      \* sessions whose history is under way or has arrived
  view,       \* sessionId
  slot,       \* docSlot
  baseline,   \* baselineRef
  known,      \* the pages the workspace list has an id for
  refetch,    \* the workspace list is being fetched
  body,       \* what the document viewer shows
  fetches,    \* its fetches
  picks,      \* clicks so far
  seen        \* newest version the shown session is known to have written

remoteVars == <<home, log, born, running, remote, mode, ask, calls, modes>>
vars == <<remoteVars, msgs, asked, view, slot, baseline, known, refetch, body, fetches, picks, seen>>

Page == Doc \ {"ticket"}

\* filter(): the elements of s that are in K, in their order.
Kept(s, K) ==
  LET f[n \in 0..Len(s)] ==
        IF n = 0 THEN <<>>
        ELSE IF s[n] \in K THEN Append(f[n - 1], s[n]) ELSE f[n - 1]
  IN f[Len(s)]

(* ------------------------- what is read off the messages ------------------------- *)

\* Workflow tools come with the prefix of their server, ExitPlanMode without.
ToolName(n) == [server |-> IF n = "ExitPlanMode" THEN None ELSE "workflow", short |-> n]
Use(n, id) == [type |-> "tool_use", name |-> ToolName(n), id |-> id]
Result(id) == [type |-> "tool_result", name |-> ToolName("any"), id |-> id]
MaxBlock == 2 * MaxCall + 2
Blocks == [type : {"tool_use", "tool_result"}, id : 1..MaxBlock,
           name : {ToolName(n) : n \in Doc \cup {"ExitPlanMode", "any"}}]

shortToolName(name) == name.short

\* Mutant of countToolUses: the calls are counted, before the tools have run.
countCalls(messages, names) ==
  Cardinality({i \in DOMAIN messages :
    messages[i].type = "tool_use" /\ shortToolName(messages[i].name) \in names})

countToolUses(messages, names) ==
  Cardinality({i \in DOMAIN messages :
    /\ messages[i].type = "tool_result"
    /\ \E j \in DOMAIN messages :
         /\ messages[j].type = "tool_use" /\ messages[j].id = messages[i].id
         /\ shortToolName(messages[j].name) \in names})

\* There is a plan once ExitPlanMode was called.
derivePlan(messages) ==
  \E i \in DOMAIN messages :
    messages[i].type = "tool_use" /\ messages[i].name = ToolName("ExitPlanMode")

\* ticketRefreshKey, rfcRefreshKey and debriefRefreshKey.
Keys == [d \in Doc |-> countToolUses(msgs[view], {d})]

planActive == (view \in mode \/ view \in ask) /\ derivePlan(msgs[view])

(* ------------------------- the reducer of the panel ------------------------- *)

Slot(kind, reason, of) == [kind |-> kind, reason |-> reason, of |-> of]
Hidden == Slot("hidden", "", None)
PlanSlot(reason) == Slot("plan", reason, None)
DocSlot(d, w) == Slot(d, "", w)
Slots == {Hidden, PlanSlot("plan_mode"), PlanSlot("manual")}
           \cup {DocSlot(d, w) : d \in Doc, w \in Workspace}

Act(type, of) == [type |-> type, of |-> of]

isSameSlot(state, target) == state.kind = target.kind /\ state.of = target.of

Forced(state) == state = PlanSlot("plan_mode")

\* Mutant of WorkspaceChanged: the panel is kept across workspaces.
WorkspaceKept(state) == state

WorkspaceChanged(state) == Hidden

PlanModeExited(state) == IF Forced(state) THEN Hidden ELSE state
DocWrite(state, doc) == IF Forced(state) THEN state ELSE doc
UserToggle(state, target) ==
  IF Forced(state) /\ target.kind # "plan" THEN state
  ELSE IF isSameSlot(state, target) THEN Hidden ELSE target
HideUnlessForced(state) == IF Forced(state) THEN state ELSE Hidden

reduceDocSlot(state, action) ==
  CASE action.type = "workspace_changed" -> WorkspaceChanged(state)
    [] action.type = "plan_mode_entered" -> PlanSlot("plan_mode")
    [] action.type = "plan_mode_exited" -> PlanModeExited(state)
    [] action.type = "tool_use_doc_write" -> DocWrite(state, action.of)
    [] action.type = "user_toggle" -> UserToggle(state, action.of)
    [] action.type = "hide" -> HideUnlessForced(state)

(* ------------------------- the viewer of a document ------------------------- *)

Body(kind, ver) == [kind |-> kind, ver |-> ver]
Fetch(d, w) == [doc |-> d, of |-> w, at |-> "sent", ver |-> 0]

\* The cleanup of the effect aborts the fetch of the body.  The fetch of a
\* ticket's meta data has no signal: what awaits it goes on.
Aborted == {f \in fetches : f.at = "meta"}

\* The panel is keyed by its kind: a viewer of another kind is a new one, and
\* what the old one still gets is lost.
Viewer(again) ==
  LET d == slot'.kind
      w == home[view']
      kept == slot.kind = d
      wanted == d = "ticket" \/ <<d, w>> \in known'
      change == \/ ~kept \/ again
                \/ Keys'[d] # Keys[d]
                \/ slot'.of # slot.of
                \/ ((<<d, w>> \in known') # (<<d, home[view]>> \in known))
                \/ d # "ticket" /\ w # home[view]
  IN IF d \notin Doc THEN body' = Body("idle", 0) /\ fetches' = {}
     ELSE IF ~change THEN UNCHANGED <<body, fetches>>
     ELSE /\ body' = Body(IF wanted THEN "loading" ELSE "idle", 0)
          /\ fetches' = (IF kept THEN Aborted ELSE {})
                          \cup (IF wanted THEN {Fetch(d, w)} ELSE {})

(* ------------------------- rendering and its effects ------------------------- *)

\* Mutant of Baseline: counts of another session are kept in a workspace.
BaselinePerWorkspace ==
  IF home[view'] # home[view] THEN Keys' ELSE baseline

\* The counts a write has to exceed are taken when a session is entered.
Baseline ==
  IF view' # view \/ home[view'] # home[view] THEN Keys' ELSE baseline

\* The effects of one render that starts from the panel `from': the workspace,
\* the plan mode, the baseline, the writes; then those of the panel itself.
Effects(from, again) ==
  LET w == home[view']
      moved == w # home[view]
      afterMove == IF moved THEN reduceDocSlot(from, Act("workspace_changed", Hidden)) ELSE from
      afterPlan == IF planActive' = planActive THEN afterMove
                   ELSE reduceDocSlot(afterMove,
                          Act(IF planActive' THEN "plan_mode_entered" ELSE "plan_mode_exited", Hidden))
      bumped == IF moved \/ Keys' # Keys THEN {d \in Doc : Keys'[d] > Baseline[d]} ELSE {}
      Write(s, d) == IF d \in bumped
                     THEN reduceDocSlot(s, Act("tool_use_doc_write", DocSlot(d, w))) ELSE s
  IN /\ slot' = Write(Write(Write(afterPlan, "ticket"), "rfc"), "debrief")
     /\ baseline' = [d \in Doc |-> IF d \in bumped THEN Keys'[d] ELSE Baseline[d]]
     /\ refetch' = (refetch \/ bumped \cap Page # {})
     /\ Viewer(again)

Render(from) == Effects(from, FALSE)

(* ------------------------- the agent, and what the stream brings ------------------------- *)

\* A block goes to the transcript and, over the multiplexed stream, to the
\* messages of this browser, whichever session is shown.
Block(s, b) ==
  /\ log' = [log EXCEPT ![s] = Append(@, b)]
  /\ msgs' = [msgs EXCEPT ![s] = Append(@, b)]

unmoved == <<home, born, calls, modes, asked, view, known, picks>>

Call(s, n) ==
  /\ running[s] = "none"
  /\ n = "ExitPlanMode" => s \in mode
  /\ calls < MaxCall
  /\ calls' = calls + 1
  /\ Block(s, Use(n, Len(log[s]) + 1))
  /\ running' = [running EXCEPT ![s] = "called"]
  /\ ask' = IF n = "ExitPlanMode" THEN ask \cup {s} ELSE ask
  /\ UNCHANGED <<home, born, modes, asked, view, known, picks, remote, mode, seen>>
  /\ Render(slot)

CallOf(s) == Last(log[s])

\* The tool writes the document.
Commit(s) ==
  /\ running[s] = "called"
  /\ CallOf(s).name.short \in Doc
  /\ running' = [running EXCEPT ![s] = "written"]
  /\ remote' = [remote EXCEPT ![home[s]][CallOf(s).name.short] = @ + 1]
  /\ UNCHANGED <<unmoved, log, mode, ask, msgs, slot, baseline, refetch, body, fetches, seen>>

Return(s) ==
  /\ running[s] # "none"
  /\ running[s] = (IF CallOf(s).name.short \in Doc THEN "written" ELSE "called")
  /\ s \notin ask
  /\ Block(s, Result(CallOf(s).id))
  /\ running' = [running EXCEPT ![s] = "none"]
  /\ seen' = IF s = view /\ CallOf(s).name.short \in Doc
             THEN [seen EXCEPT ![CallOf(s).name.short] = remote[home[s]][CallOf(s).name.short]]
             ELSE seen
  /\ UNCHANGED <<unmoved, remote, mode, ask>>
  /\ Render(slot)

\* permission_mode_changed.
ChangeMode(s) ==
  /\ modes < MaxMode
  /\ modes' = modes + 1
  /\ s \notin ask
  /\ mode' = IF s \in mode THEN mode \ {s} ELSE mode \cup {s}
  /\ UNCHANGED <<home, log, born, running, remote, ask, calls, msgs, asked, view, known, picks, seen>>
  /\ Render(slot)

\* The plan is approved, which ends the plan mode, or declined; here, where the
\* buttons are in the panel, or in another browser.
AnswerPlan(s, approve) ==
  /\ s \in ask
  /\ ask' = ask \ {s}
  /\ mode' = IF approve THEN mode \ {s} ELSE mode
  /\ UNCHANGED <<unmoved, log, running, remote, msgs, seen>>
  /\ Render(slot)

\* The answer to the one history request: the transcript up to some point of
\* late, then the messages of this browser that are not in it.
HistoryArrives(s) ==
  /\ asked[s] = "asked"
  /\ asked' = [asked EXCEPT ![s] = "here"]
  /\ \E n \in born[s]..Len(log[s]) :
       LET past == SubSeq(log[s], 1, n)
       IN msgs' = [msgs EXCEPT ![s] = past \o Kept(@, ToSet(@) \ ToSet(past))]
  /\ UNCHANGED <<remoteVars, view, known, picks, seen>>
  /\ Render(slot)

(* ------------------------- the viewer's fetches ------------------------- *)

Serve(f) ==
  /\ f.at = "sent"
  /\ fetches' = (fetches \ {f})
       \cup {[f EXCEPT !.at = IF f.doc = "ticket" THEN "meta" ELSE "body",
                       !.ver = remote[f.of][f.doc]]}
  /\ UNCHANGED <<remoteVars, msgs, asked, view, slot, baseline, known, refetch, body, picks, seen>>

\* The body is there (a ticket: its meta data too).
Answered(f) ==
  /\ f.at # "sent"
  /\ fetches' = fetches \ {f}
  /\ body' = Body("ok", f.ver)
  /\ UNCHANGED <<remoteVars, msgs, asked, view, slot, baseline, known, refetch, picks, seen>>

Failed(f) ==
  /\ f.at = "sent"
  /\ fetches' = fetches \ {f}
  /\ body' = Body("error", 0)
  /\ UNCHANGED <<remoteVars, msgs, asked, view, slot, baseline, known, refetch, picks, seen>>

\* onWorkspaceMaybeChanged: the list comes with the ids of the pages written.
ListArrives ==
  /\ refetch
  /\ known' = {p \in Page \X Workspace : remote[p[2]][p[1]] > 0}
  /\ UNCHANGED <<remoteVars, msgs, asked, view, picks, seen>>
  /\ slot' = slot /\ baseline' = baseline /\ refetch' = FALSE
  /\ Viewer(FALSE)

(* ------------------------- the user ------------------------- *)

Click ==
  /\ picks < MaxPick
  /\ picks' = picks + 1

PickSession(s) ==
  /\ Click
  /\ s # view
  /\ view' = s
  /\ asked' = IF asked[s] = "no" THEN [asked EXCEPT ![s] = "asked"] ELSE asked
  /\ seen' = [d \in Doc |-> 0]
  /\ UNCHANGED <<remoteVars, msgs, known>>
  /\ Render(slot)

\* The tiles of the documents, the plan's only while there is a plan.
PickDoc(target) ==
  /\ Click
  /\ target.kind = "plan" => derivePlan(msgs[view]) \/ view \in mode \/ view \in ask
  /\ UNCHANGED <<remoteVars, msgs, asked, view, known, seen>>
  /\ Render(reduceDocSlot(slot, Act("user_toggle", target)))

ClosePanel ==
  /\ Click
  /\ slot # Hidden
  /\ UNCHANGED <<remoteVars, msgs, asked, view, known, seen>>
  /\ Render(reduceDocSlot(slot, Act("hide", Hidden)))

\* The refresh link of a ticket.
Reload ==
  /\ Click
  /\ slot.kind = "ticket" /\ body.kind = "ok"
  /\ UNCHANGED <<remoteVars, msgs, asked, view, known, seen>>
  /\ Effects(slot, TRUE)

-----------------------------------------------------------------------------
\* A transcript from before the page was loaded: nothing, or a page written.
Past == {<<>>} \cup (IF Page = {} THEN {} ELSE
          {LET d == CHOOSE d \in Page : TRUE IN <<Use(d, 1), Result(1)>>})

ChatInit ==
  /\ home \in [Session -> Workspace]
  /\ log \in [Session -> Past]
  /\ born = [s \in Session |-> Len(log[s])]
  /\ running = [s \in Session |-> "none"]
  /\ remote = [w \in Workspace |-> [d \in Doc |->
       IF \E s \in Session : home[s] = w /\ log[s] # <<>> /\ log[s][1].name.short = d THEN 1 ELSE 0]]
  /\ mode = {}
  /\ ask = {} /\ calls = 0 /\ modes = 0 /\ picks = 0
  /\ msgs = [s \in Session |-> <<>>]
  /\ view \in Session
  /\ asked = [s \in Session |-> IF s = view THEN "asked" ELSE "no"]
  /\ slot = Hidden
  /\ baseline = [d \in Doc |-> 0]
  /\ known = {p \in Page \X Workspace : remote[p[2]][p[1]] > 0}
  /\ refetch = FALSE
  /\ body = Body("idle", 0) /\ fetches = {}
  /\ seen = [d \in Doc |-> 0]

ChatNext ==
  \/ \E s \in Session :
       \/ \E n \in Doc \cup {"ExitPlanMode"} : Call(s, n)
       \/ Commit(s) \/ Return(s) \/ ChangeMode(s) \/ HistoryArrives(s) \/ PickSession(s)
       \/ \E approve \in BOOLEAN : AnswerPlan(s, approve)
  \/ \E f \in fetches : Serve(f) \/ Answered(f) \/ Failed(f)
  \/ ListArrives \/ ClosePanel \/ Reload
  \/ \E d \in Doc : PickDoc(DocSlot(d, home[view]))
  \/ PickDoc(PlanSlot("manual"))

ChatSpec == ChatInit /\ [][ChatNext]_vars

-----------------------------------------------------------------------------
(* Properties. *)

\* A document in the panel is one of the workspace on screen, although the panel
\* outlives every switch and writes are counted for sessions of all workspaces;
\* and what is being fetched is that document, for a viewer of another kind is
\* another viewer.
ChatTypeOK ==
  /\ slot.kind \in Doc => slot.of = home[view]
  /\ \A f \in fetches : f.doc = slot.kind
  /\ home \in [Session -> Workspace]
  /\ \A s \in Session : log[s] \in Seq(Blocks) /\ msgs[s] \in Seq(Blocks)
  /\ running \in [Session -> {"none", "called", "written"}]
  /\ remote \in [Workspace -> [Doc -> 0..(2 * MaxBlock)]]
  /\ mode \subseteq Session /\ ask \subseteq Session
  /\ asked \in [Session -> {"no", "asked", "here"}]
  /\ view \in Session /\ slot \in Slots
  /\ baseline \in [Doc -> 0..MaxBlock]
  /\ body.kind \in {"idle", "loading", "ok", "error"}
  /\ \A f \in fetches : f.doc \in Doc /\ f.at \in {"sent", "body", "meta"}

\* Once the result of a write to a page has reached the session on screen, the
\* viewer does not show the page as it was before it, whatever was being
\* fetched at the time.
PageIsFresh ==
  slot.kind \in Page /\ body.kind = "ok" => body.ver >= seen[slot.kind]

\* A write that finishes in the session on screen opens its document, unless the
\* plan is forced: the counts it is compared with are those of this session.
WriteOpensDocument ==
  [][\A s \in Session, d \in Doc :
       /\ view = s /\ view' = s
       /\ Len(log'[s]) > Len(log[s])
       /\ Last(log'[s]).type = "tool_result"
       /\ CallOf(s).name.short = d
       /\ ~Forced(slot)
       => slot' = DocSlot(d, home[s])]_vars
=============================================================================
