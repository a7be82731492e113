-------------------------------- MODULE Registry --------------------------------
(***************************************************************************)
(* SessionRegistry (session.py) over its metadata store                    *)
(* (session_metadata.py): sessions are created, found or resumed, removed, *)
(* reaped when idle, and lost when the process dies; what the store keeps  *)
(* lets a later process resume them.                                       *)
(*                                                                         *)
(* Everything runs on one asyncio loop, and a step is what runs between    *)
(* two awaits.  The store's file operations run on threads, so a read or a *)
(* write happens some time after it is asked for, and two of them in any   *)
(* order.  A Session object is abstracted to what the registry and the     *)
(* metadata see of it (see module Session for its inside).                 *)
(***************************************************************************)
EXTENDS Integers, Sequences

CONSTANTS Sid,          \* session ids
          Mode,         \* permission modes
          Op,           \* HTTP requests
          MaxInst,      \* bound of the model: Session objects
          MaxRestarts   \* bound of the model: deaths of the process

ASSUME BoundsAssumption == MaxInst \in Nat \ {0} /\ MaxRestarts \in Nat
ASSUME NonEmptyAssumption == Sid # {} /\ Mode # {}
ASSUME OpAssumption == Op \cap (1..MaxInst) = {}   \* who asked for a save is clear

VARIABLES
  mem,      \* _sessions: the number of the id's Session object, 0 for none
  inst,     \* the Session objects of all processes so far
  store,    \* the metadata files
  writes,   \* saves asked for and not yet on disk
  op,       \* the requests' handlers
  stale,    \* what is left of the reaper's list
  reaping,  \* the Session object the reaper is closing, 0 for none
  landed,   \* history: conversations whose id has been on disk, per session id
  restarts

vars == <<mem, inst, store, writes, op, stale, reaping, landed, restarts>>

\* The id of a conversation of the SDK is the number of the Session object
\* whose first result revealed it; 0 is None.
Conversation == 0..MaxInst
Rec == [sdk : Conversation, mode : Mode]
Instance ==
  [sid : Sid, life : {"live", "closing", "closed"}, mode : Mode,
   resume : Conversation, sdk : Conversation, turn : BOOLEAN, idle : BOOLEAN]
NoRec == [sdk |-> 0, mode |-> CHOOSE m \in Mode : TRUE]
IdleOp == [at |-> "idle", do |-> "use", sid |-> CHOOSE s \in Sid : TRUE,
           of |-> 0, seen |-> NoRec, mode |-> NoRec.mode]

\* Types of the registry, the files and the requests.
TypeOK ==
  /\ mem \in [Sid -> 0..MaxInst]
  /\ inst \in Seq(Instance) /\ Len(inst) <= MaxInst
  /\ DOMAIN store \subseteq Sid /\ \A s \in DOMAIN store : store[s] \in Rec
  /\ writes \subseteq [sid : Sid, rec : Rec, by : Op \cup (1..MaxInst)]
  /\ op \in [Op -> [at : {"idle", "load", "build", "act", "modeload", "saving",
                          "closing", "purge", "done"},
                    do : {"create", "use", "mode", "delete"}, sid : Sid, of : 0..MaxInst,
                    seen : Rec, mode : Mode]]
  /\ stale \subseteq Sid
  /\ reaping \in 0..MaxInst
  /\ landed \in [Sid -> SUBSET Conversation]
  /\ restarts \in 0..MaxRestarts

Init ==
  /\ mem = [s \in Sid |-> 0]
  /\ inst = <<>>
  /\ store = <<>>
  /\ writes = {}
  /\ op = [o \in Op |-> IdleOp]
  /\ stale = {}
  /\ reaping = 0
  /\ landed = [s \in Sid |-> {}]
  /\ restarts = 0

Used == {inst[i].sid : i \in DOMAIN inst}

\* The ids a client may know: create() answers when its record is saved.
Known == Used \ {op[o].sid : o \in {p \in Op : op[p].at = "saving" /\ op[p].do = "create"}}

\* _build_session(): a new object for s, cold, in the mode and with the
\* conversation of the record.
Build(s, rec) ==
  /\ Len(inst) < MaxInst
  /\ inst' = Append(inst, [sid |-> s, life |-> "live", mode |-> rec.mode,
                           resume |-> rec.sdk, sdk |-> 0, turn |-> FALSE,
                           idle |-> FALSE])
  /\ mem' = [mem EXCEPT ![s] = Len(inst) + 1]

Save(s, rec, by) == writes' = writes \cup {[sid |-> s, rec |-> rec, by |-> by]}

-----------------------------------------------------------------------------
(* POST /sessions. *)

\* create(): the object is registered, then a record without a conversation
\* is saved.
Create(o, s, m) ==
  /\ op[o].at = "idle"
  /\ s \notin Used
  /\ LET rec == [sdk |-> 0, mode |-> m] IN Build(s, rec) /\ Save(s, rec, o)
  /\ op' = [op EXCEPT ![o] = [@ EXCEPT !.at = "saving", !.do = "create", !.sid = s]]
  /\ UNCHANGED <<store, stale, reaping, landed, restarts>>

-----------------------------------------------------------------------------
(* POST /sessions/{id}/input: get_or_resume(), then the session's method. *)

\* The session is in memory: it is touched and used.
Hit(o, s, k, m) ==
  /\ op[o].at = "idle"
  /\ s \in Known
  /\ mem[s] # 0
  /\ inst' = [inst EXCEPT ![mem[s]].idle = FALSE]
  /\ op' = [op EXCEPT ![o] = [@ EXCEPT !.at = "act", !.do = k, !.sid = s,
                                       !.of = mem[s], !.mode = m]]
  /\ UNCHANGED <<mem, store, writes, stale, reaping, landed, restarts>>

\* It is not: its metadata is read.
Miss(o, s, k, m) ==
  /\ op[o].at = "idle"
  /\ s \in Known
  /\ mem[s] = 0
  /\ op' = [op EXCEPT ![o] = [@ EXCEPT !.at = "load", !.do = k, !.sid = s,
                                       !.mode = m]]
  /\ UNCHANGED <<mem, inst, store, writes, stale, reaping, landed, restarts>>

\* The read: without a file the answer is 404.
Load(o) ==
  /\ op[o].at = "load"
  /\ \/ /\ op[o].sid \in DOMAIN store
        /\ op' = [op EXCEPT ![o] = [@ EXCEPT !.at = "build",
                                             !.seen = store[op[o].sid]]]
     \/ /\ op[o].sid \notin DOMAIN store
        /\ op' = [op EXCEPT ![o].at = "done"]
  /\ UNCHANGED <<mem, inst, store, writes, stale, reaping, landed, restarts>>

\* Back on the loop a session is built from what was read, without a second
\* look at _sessions: another one may be there by now.
Resume(o) ==
  /\ op[o].at = "build"
  /\ Build(op[o].sid, op[o].seen)
  /\ op' = [op EXCEPT ![o] = [@ EXCEPT !.at = "act", !.of = Len(inst) + 1]]
  /\ UNCHANGED <<store, writes, stale, reaping, landed, restarts>>

\* A user message makes the session touched and starts a turn; a session that
\* is closed meanwhile takes the message and does nothing with it.
Use(o) ==
  /\ op[o].at = "act"
  /\ op[o].do = "use"
  /\ LET i == op[o].of IN
     inst' = [inst EXCEPT ![i].idle = FALSE, ![i].turn = (inst[i].life = "live")]
  /\ op' = [op EXCEPT ![o].at = "done"]
  /\ UNCHANGED <<mem, store, writes, stale, reaping, landed, restarts>>

\* The result of a turn reveals the id of the conversation: a new one, or the
\* one resumed.  The first time, _on_sdk_id() saves it.
Result(i) ==
  /\ i \in DOMAIN inst
  /\ inst[i].life = "live"
  /\ inst[i].turn
  /\ LET id == IF inst[i].resume = 0 THEN i ELSE inst[i].resume IN
     /\ inst' = [inst EXCEPT ![i].turn = FALSE, ![i].sdk = id]
     /\ IF inst[i].sdk = id THEN UNCHANGED writes
        ELSE Save(inst[i].sid, [sdk |-> id, mode |-> inst[i].mode], i)
  /\ UNCHANGED <<mem, store, op, stale, reaping, landed, restarts>>

\* set_permission_mode(): the mode is the session's and its config's, then
\* _on_mode() reads the record; on a closed session the client raises.
SetMode(o) ==
  /\ op[o].at = "act"
  /\ op[o].do = "mode"
  /\ LET i == op[o].of IN
     \/ /\ inst[i].life = "live"
        /\ inst' = [inst EXCEPT ![i].mode = op[o].mode]
        /\ op' = [op EXCEPT ![o].at = "modeload"]
     \/ /\ inst[i].life # "live"
        /\ op' = [op EXCEPT ![o].at = "done"]
        /\ UNCHANGED inst
  /\ UNCHANGED <<mem, store, writes, stale, reaping, landed, restarts>>

\* ... and saves what it read with the new mode.
ModeLoad(o) ==
  /\ op[o].at = "modeload"
  /\ \/ /\ op[o].sid \in DOMAIN store
        /\ Save(op[o].sid, [store[op[o].sid] EXCEPT !.mode = op[o].mode], o)
        /\ op' = [op EXCEPT ![o].at = "saving"]
     \/ /\ op[o].sid \notin DOMAIN store
        /\ op' = [op EXCEPT ![o].at = "done"]
        /\ UNCHANGED writes
  /\ UNCHANGED <<mem, inst, store, stale, reaping, landed, restarts>>

\* A save reaches the disk: os.replace() of the whole record.
Land(w) ==
  /\ writes' = writes \ {w}
  /\ store' = [s \in DOMAIN store \cup {w.sid} |-> IF s = w.sid THEN w.rec ELSE store[s]]
  /\ landed' = [landed EXCEPT ![w.sid] = @ \cup ({w.rec.sdk} \ {0})]
  /\ op' = [o \in Op |-> IF w.by = o THEN [op[o] EXCEPT !.at = "done"] ELSE op[o]]
  /\ UNCHANGED <<mem, inst, stale, reaping, restarts>>

-----------------------------------------------------------------------------
(* remove(). *)

\* Mutant of Popped: the object is forgotten, not closed.
PoppedUnclosed(s) ==
  /\ mem' = [mem EXCEPT ![s] = 0]
  /\ UNCHANGED inst

\* Mutant of Popped: the object is forgotten when it has closed.
PoppedLate(s) ==
  /\ inst' = [inst EXCEPT ![mem[s]].life = "closing", ![mem[s]].turn = FALSE]
  /\ UNCHANGED mem

\* The object leaves _sessions and begins to close in one step; a closing
\* session sees no more results.
Popped(s) ==
  /\ mem' = [mem EXCEPT ![s] = 0]
  /\ inst' = [inst EXCEPT ![mem[s]].life = "closing", ![mem[s]].turn = FALSE]

Closed(i) == inst' = [inst EXCEPT ![i].life = "closed"]

\* DELETE of a session in memory.
Delete(o, s) ==
  /\ op[o].at = "idle"
  /\ s \in Known
  /\ mem[s] # 0
  /\ Popped(s)
  /\ op' = [op EXCEPT ![o] = [@ EXCEPT !.at = "closing", !.do = "delete",
                                       !.sid = s, !.of = mem[s]]]
  /\ UNCHANGED <<store, writes, stale, reaping, landed, restarts>>

\* DELETE of one that is not.
DeleteCold(o, s) ==
  /\ op[o].at = "idle"
  /\ s \in Known
  /\ mem[s] = 0
  /\ op' = [op EXCEPT ![o] = [@ EXCEPT !.at = "purge", !.do = "delete", !.sid = s]]
  /\ UNCHANGED <<mem, inst, store, writes, stale, reaping, landed, restarts>>

DeleteClosed(o) ==
  /\ op[o].at = "closing"
  /\ Closed(op[o].of)
  /\ op' = [op EXCEPT ![o].at = "purge"]
  /\ UNCHANGED <<mem, store, writes, stale, reaping, landed, restarts>>

\* The file is unlinked; the request is answered 204.
Purge(o) ==
  /\ op[o].at = "purge"
  /\ store' = [s \in DOMAIN store \ {op[o].sid} |-> store[s]]
  /\ landed' = [landed EXCEPT ![op[o].sid] = {}]
  /\ op' = [op EXCEPT ![o].at = "done"]
  /\ UNCHANGED <<mem, inst, writes, stale, reaping, restarts>>

-----------------------------------------------------------------------------
(* The reaper.  Its timeout is an Elapse that finds no input since. *)

Elapse(i) ==
  /\ i \in DOMAIN inst
  /\ inst[i].life = "live"
  /\ ~inst[i].idle
  /\ inst' = [inst EXCEPT ![i].idle = TRUE]
  /\ UNCHANGED <<mem, store, writes, op, stale, reaping, landed, restarts>>

Idle == {s \in Sid : mem[s] # 0 /\ inst[mem[s]].idle}

\* Mutant of Reap: the list is of the objects.
ReapObjects ==
  /\ reaping = 0
  /\ \E s \in Idle :
       /\ Popped(s)
       /\ stale' = {mem[t] : t \in Idle \ {s}}
       /\ reaping' = mem[s]
  /\ UNCHANGED <<store, writes, op, landed, restarts>>

\* Takes the next one of the list out of the registry; whether it still is
\* idle, or still the same object, is not asked.
Reap ==
  /\ reaping = 0
  /\ \E s \in Idle :
       /\ Popped(s)
       /\ stale' = Idle \ {s}
       /\ reaping' = mem[s]
  /\ UNCHANGED <<store, writes, op, landed, restarts>>

\* Mutant of ReapNext: metadata goes with the session.
ReapNextPurging ==
  /\ reaping # 0
  /\ inst' = [inst EXCEPT ![reaping].life = "closed"]
  /\ store' = [s \in DOMAIN store \ {inst[reaping].sid} |-> store[s]]
  /\ stale' = {}
  /\ reaping' = 0
  /\ UNCHANGED <<mem, writes, op, landed, restarts>>

\* One is closed; the next on the list that is in memory follows at once.
ReapNext ==
  /\ reaping # 0
  /\ LET left == {s \in stale : mem[s] # 0}
         gone == [inst EXCEPT ![reaping].life = "closed"] IN
     \/ /\ left = {}
        /\ inst' = gone
        /\ stale' = {}
        /\ reaping' = 0
        /\ UNCHANGED mem
     \/ \E s \in left :
          /\ inst' = [gone EXCEPT ![mem[s]].life = "closing", ![mem[s]].turn = FALSE]
          /\ mem' = [mem EXCEPT ![s] = 0]
          /\ stale' = stale \ {s}
          /\ reaping' = mem[s]
  /\ UNCHANGED <<store, writes, op, landed, restarts>>

-----------------------------------------------------------------------------
(* The environment. *)

\* The process dies and another takes its place: files that are written
\* survive, everything else is gone.
Restart ==
  /\ restarts < MaxRestarts
  /\ restarts' = restarts + 1
  /\ mem' = [s \in Sid |-> 0]
  /\ inst' = [i \in DOMAIN inst |->
                [inst[i] EXCEPT !.life = "closed", !.turn = FALSE]]
  /\ writes' = {}
  /\ op' = [o \in Op |-> IF op[o].at = "idle" THEN op[o]
                         ELSE [op[o] EXCEPT !.at = "done"]]
  /\ stale' = {}
  /\ reaping' = 0
  /\ UNCHANGED <<store, landed>>

Handler(o) ==
  \/ \E s \in Sid, m \in Mode : Create(o, s, m)
  \/ \E s \in Sid, m \in Mode, k \in {"use", "mode"} : Hit(o, s, k, m) \/ Miss(o, s, k, m)
  \/ \E s \in Sid : Delete(o, s) \/ DeleteCold(o, s)
  \/ Load(o) \/ Resume(o) \/ Use(o) \/ SetMode(o) \/ ModeLoad(o)
  \/ DeleteClosed(o) \/ Purge(o)

Next ==
  \/ \E o \in Op : Handler(o)
  \/ \E i \in 1..MaxInst : Result(i) \/ Elapse(i)
  \/ \E w \in writes : Land(w)
  \/ Reap \/ ReapNext
  \/ Restart

Spec == Init /\ [][Next]_vars

-----------------------------------------------------------------------------
(* Properties. *)

\* A request never finds a session that is closing or closed: an object is
\* taken out of the registry before its close() awaits anything.
RegisteredIsLive ==
  \A s \in Sid : mem[s] # 0 => inst[mem[s]].life = "live" /\ inst[mem[s]].sid = s

\* A running session that the registry does not know, and that nobody will
\* ever close, is one a later resumption of the same id has displaced: no
\* removal, reap or restart leaves one behind.
OrphansAreDisplaced ==
  \A i \in DOMAIN inst : inst[i].life = "live" /\ mem[inst[i].sid] # i =>
    \E j \in DOMAIN inst : j > i /\ inst[j].sid = inst[i].sid

\* Metadata outlives reaping and restarts: only DELETE unlinks a file.
OnlyDeletePurges ==
  [][\A s \in DOMAIN store : s \notin DOMAIN store' =>
       \E o \in Op : op[o].do = "delete" /\ op[o].sid = s /\ op'[o].at = "done"]_vars

\* The registry as its clients see it: which object serves an id, what each talks
\* about, what is on record, whose deletion is under way.
Owner == [i \in DOMAIN inst |-> inst[i].sid]
Talk == [i \in DOMAIN inst |-> IF inst[i].resume = 0 THEN inst[i].sdk ELSE inst[i].resume]
Running == {i \in DOMAIN inst : inst[i].life = "live"}
Record == [s \in DOMAIN store |-> store[s].sdk]
Doomed == {op[o].sid : o \in {p \in Op : op[p].at \in {"closing", "purge"}}}

\* Through resumptions beside each other, late saves, reaping and restarts, a
\* session continues only a conversation that was begun under its own id, a record
\* names no other, and no record is dropped that nobody asked to delete.
Directory == INSTANCE SessionDirectory WITH
  Object <- 1..MaxInst, None <- 0, host <- mem, owner <- Owner, talk <- Talk,
  running <- Running, record <- Record, doomed <- Doomed
ImplementsDirectory == Directory!DirectorySpec

\* Once a conversation is on record the record names one, so that a later
\* resumption "continues its prior transcript" (docstring of get_or_resume).
RecordKeepsConversation ==
  \A s \in DOMAIN store : landed[s] # {} => store[s].sdk # 0
=============================================================================
