---------------------------- MODULE SessionDirectory ----------------------------
(***************************************************************************)
(* What the registry promises, without files on threads, requests between  *)
(* two awaits or a reaper's list: a session id has at most one host; what  *)
(* a host talks about is a conversation begun under its own id, by itself  *)
(* or by an earlier host; the record of an id names no other conversation, *)
(* and it is dropped only after someone asked for the session's deletion.  *)
(* A host that leaves the directory stops in the same step, and one that   *)
(* runs outside of it was displaced.  Registry implements this.            *)
(*                                                                         *)
(* A conversation is named after the host that began it.                   *)
(***************************************************************************)
CONSTANTS Sid, Object, None

VARIABLES
  host,      \* the object that serves an id, or None
  owner,     \* the id of each object there has been
  talk,      \* the conversation of each, None before it has begun
  running,   \* the objects that run
  record,    \* the conversation recorded for each id that has a record
  doomed     \* ids whose deletion was asked for

directoryVars == <<host, owner, talk, running, record, doomed>>

DirectoryInit ==
  /\ host = [s \in Sid |-> None]
  /\ owner = <<>> /\ talk = <<>> /\ running = {}
  /\ record = <<>>
  /\ doomed = {}

With(f, x, v) == [y \in DOMAIN f \cup {x} |-> IF y = x THEN v ELSE f[y]]

Owned(s) == \E i \in DOMAIN owner : owner[i] = s

\* What may be on record for s: nothing yet, or what was begun under it.
Talks(s) == {None} \cup {talk[i] : i \in {j \in DOMAIN owner : owner[j] = s}}

NewHost(s, c) ==
  /\ \E i \in Object \ DOMAIN owner :
       /\ owner' = With(owner, i, s)
       /\ talk' = With(talk, i, c)
       /\ running' = running \cup {i}
       /\ host' = [host EXCEPT ![s] = i]
  /\ UNCHANGED <<record, doomed>>

Open(s) == ~Owned(s) /\ NewHost(s, None)

\* An id is served again; a host it still has is displaced and runs on.
Revive(s) == Owned(s) /\ \E c \in Talks(s) : NewHost(s, c)

Begin(i) ==
  /\ i \in running /\ talk[i] = None
  /\ talk' = [talk EXCEPT ![i] = i]
  /\ UNCHANGED <<host, owner, running, record, doomed>>

\* A record is written, late perhaps, and over a newer one.
Note(s) ==
  /\ Owned(s)
  /\ \E c \in Talks(s) : record' = With(record, s, c)
  /\ UNCHANGED <<host, owner, talk, running, doomed>>

Leave(s) ==
  /\ host' = [host EXCEPT ![s] = None]
  /\ running' = running \ {host[s]}
  /\ UNCHANGED <<owner, talk, record>>

Retire(s) == host[s] # None /\ Leave(s) /\ UNCHANGED doomed

Doom(s) == Leave(s) /\ doomed' = doomed \cup {s}

\* Another deletion of the same session may still be under way.
Forget(s) ==
  /\ s \in doomed
  /\ record' = [t \in DOMAIN record \ {s} |-> record[t]]
  /\ doomed' \in {doomed, doomed \ {s}}
  /\ UNCHANGED <<host, owner, talk, running>>

\* The process ends; what was recorded stays.
Die ==
  /\ host' = [s \in Sid |-> None]
  /\ running' = {}
  /\ doomed' = {}
  /\ UNCHANGED <<owner, talk, record>>

DirectoryNext ==
  \/ \E s \in Sid :
       Open(s) \/ Revive(s) \/ Note(s) \/ Retire(s) \/ Doom(s) \/ Forget(s)
  \/ \E i \in Object : Begin(i)
  \/ Die

DirectorySpec == DirectoryInit /\ [][DirectoryNext]_directoryVars
=============================================================================
