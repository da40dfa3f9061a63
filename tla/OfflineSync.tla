----------------------------- MODULE OfflineSync -----------------------------
(***************************************************************************)
(* Offline-first sync (pkg/sync/offline): the operation queue with its     *)
(* merging and priorities, the manager that tracks local changes and works *)
(* the queue off, and the requests of internal/server/offline_handler.go.  *)
(*                                                                         *)
(* A change is the number it has among all changes; it stands for the hash *)
(* and for the call of TrackFileChange that reports it, of which several   *)
(* may be under way, for one path as well.  Every call of the queue saves  *)
(* it before it unlocks, so the file is the queue.                         *)
(* Nothing reports a failed operation, a conflict or a lost network yet:   *)
(* these states, and Retry, are never reached.                             *)
(***************************************************************************)
EXTENDS Naturals

CONSTANTS Paths,       \* share and path
          Types,       \* operation types in use
          MaxChanges,  \* changes there are (bound)
          MaxRestarts, \* stops of nosd (bound)
          Syncs        \* goroutines in triggerSync at one time (bound)

ASSUME OfflineAssumption ==
  /\ MaxChanges \in Nat /\ MaxRestarts \in Nat
  /\ Types \subseteq {"create", "modify", "delete", "rename", "move"}

VARIABLES
  ops,        \* the operations, numbered as they are created
  created,    \* operations created
  aging,      \* completed operations whose 24 hours run
  mode,       \* OfflineManager.mode
  syncing,    \* the goroutines in triggerSync
  job,        \* the operation each of them has dequeued
  local,      \* localState: the newest change of each path
  localFile,  \* local_state.json
  reported,   \* the changes that are tracked and not yet queued
  changes,    \* changes so far
  restarts,   \* stops so far
  answered,   \* history: the newest change of each path taken up or cancelled
  lost,       \* history: paths whose newest change a stop has cut off
  buried      \* history: paths an older change of which was merged over a newer one

queue == <<ops, aging, created>>
workers == <<mode, syncing, job>>
files == <<local, localFile, reported, changes>>
history == <<answered, lost, buried>>
vars == <<queue, workers, files, restarts, history>>

Changes == 1..MaxChanges
Ids == 1..MaxChanges
None == 0

Status == {"none", "pending", "in_progress", "completed", "cancelled"}
Ops == [status : Status, path : Paths, type : Types, hash : Changes]
Absent == [status |-> "none"]
Reports == [path : Paths, type : Types]
NoReport == [type |-> "none"]

TypeOK ==
  /\ ops \in [Ids -> {Absent} \cup Ops]
  /\ aging \subseteq Ids /\ created \in 0..MaxChanges
  /\ mode \in {"online", "offline", "syncing"}
  /\ syncing \subseteq Syncs /\ job \in [Syncs -> {None} \cup Ids]
  /\ local \in [Paths -> {None} \cup Changes] /\ localFile \in [Paths -> {None} \cup Changes]
  /\ reported \in [Changes -> {NoReport} \cup Reports]
  /\ changes \in 0..MaxChanges /\ restarts \in 0..MaxRestarts
  /\ answered \in [Paths -> {None} \cup Changes]
  /\ lost \subseteq Paths /\ buried \subseteq Paths

Empty == [o \in Ids |-> Absent]

Init ==
  /\ ops = Empty /\ aging = {} /\ created = 0
  /\ mode = "online"
  /\ syncing = {} /\ job = [s \in Syncs |-> None]
  /\ local = [p \in Paths |-> None] /\ localFile = local
  /\ reported = [c \in Changes |-> NoReport]
  /\ changes = 0 /\ restarts = 0
  /\ answered = [p \in Paths |-> None] /\ lost = {} /\ buried = {}

------------------------------------------------------------------------------
(* TrackFileChange: the local state, then the queue, a lock for each.      *)

Track(p, type) ==
  /\ changes < MaxChanges
  /\ changes' = changes + 1
  /\ local' = [local EXCEPT ![p] = changes']
  /\ reported' = [reported EXCEPT ![changes'] = [path |-> p, type |-> type]]
  /\ UNCHANGED <<queue, workers, localFile, restarts, history>>

Pending == {o \in Ids : ops[o].status = "pending"}

\* Mutant: an operation of the type takes the change whatever its status.
Mergeable_AnyStatus(p, type) ==
  {o \in Ids : ops[o].status # "none" /\ ops[o].path = p /\ ops[o].type = type}

\* The pending operations of the path and the type.
Mergeable(p, type) == {o \in Pending : ops[o].path = p /\ ops[o].type = type}

\* The change goes to any operation it can merge with, or to a new one.
Put(p, type, change) ==
  \/ \E o \in Mergeable(p, type) : /\ ops' = [ops EXCEPT ![o].hash = change]
                                   /\ UNCHANGED created
  \/ /\ Mergeable(p, type) = {}
     /\ created' = created + 1
     /\ ops' = [ops EXCEPT ![created + 1] =
                  [status |-> "pending", path |-> p, type |-> type, hash |-> change]]

\* Calls for one path may get to the queue in any order.
Enqueue(c) ==
  /\ reported[c] # NoReport
  /\ LET p == reported[c].path
         type == reported[c].type
     IN /\ Put(p, type, c)
        /\ IF c = local[p]
           THEN lost' = lost \ {p} /\ buried' = buried \ {p}
           ELSE /\ UNCHANGED lost
                /\ buried' = IF \E o \in Mergeable(p, type) : ops[o].hash > c
                             THEN buried \cup {p} ELSE buried
  /\ reported' = [reported EXCEPT ![c] = NoReport]
  /\ UNCHANGED <<aging, workers, local, localFile, changes, restarts, answered>>

------------------------------------------------------------------------------
(* triggerSync, by POST /sync or the ticker of syncLoop.                   *)

Later(h, i) == IF h > i THEN h ELSE i
Answer(o) == [answered EXCEPT ![ops[o].path] = Later(@, ops[o].hash)]

Loops(s) == s \in syncing /\ job[s] = None

Trigger(s) ==
  /\ s \notin syncing
  /\ mode # "syncing"
  /\ mode' = "syncing"
  /\ syncing' = syncing \cup {s}
  /\ UNCHANGED <<queue, job, files, restarts, history>>

Priority(type) == CASE type = "delete" -> 100 [] type \in {"rename", "move"} -> 90
                    [] type = "create" -> 80  [] type = "modify" -> 60

Before(o, i) == \/ Priority(ops[o].type) > Priority(ops[i].type)
                \/ Priority(ops[o].type) = Priority(ops[i].type) /\ o <= i

\* Mutant: what is taken from the queue keeps its status until it is done.
Dequeue_StaysPending(s) ==
  /\ Loops(s)
  /\ \E o \in Pending :
       /\ \A i \in Pending : Before(o, i)
       /\ job' = [job EXCEPT ![s] = o]
       /\ answered' = Answer(o)
  /\ UNCHANGED <<queue, mode, syncing, files, restarts, lost, buried>>

Dequeue(s) ==
  /\ Loops(s)
  /\ \E o \in Pending :
       /\ \A i \in Pending : Before(o, i)
       /\ ops' = [ops EXCEPT ![o].status = "in_progress"]
       /\ job' = [job EXCEPT ![s] = o]
       /\ answered' = Answer(o)
  /\ UNCHANGED <<aging, created, mode, syncing, files, restarts, lost, buried>>

\* UpdateStatus(op, completed); a timer is to remove it after 24 hours.
Complete(s) ==
  /\ job[s] # None
  /\ ops' = [ops EXCEPT ![job[s]].status = "completed"]
  /\ aging' = aging \cup {job[s]}
  /\ job' = [job EXCEPT ![s] = None]
  /\ UNCHANGED <<created, mode, syncing, files, restarts, history>>

\* Mutant: the mode is left as it is.
SyncEnds_KeepsMode(s) ==
  /\ Loops(s)
  /\ Pending = {}
  /\ syncing' = syncing \ {s}
  /\ UNCHANGED <<queue, mode, job, files, restarts, history>>

\* The queue is empty.  The mode is online then, whatever it was made meanwhile.
SyncEnds(s) ==
  /\ Loops(s)
  /\ Pending = {}
  /\ syncing' = syncing \ {s}
  /\ mode' = "online"
  /\ UNCHANGED <<queue, job, files, restarts, history>>

Expire(o) ==
  /\ o \in aging
  /\ aging' = aging \ {o}
  /\ ops' = [ops EXCEPT ![o] = Absent]
  /\ UNCHANGED <<created, workers, files, restarts, history>>

------------------------------------------------------------------------------
(* Requests.                                                               *)

\* PUT /mode, with no regard to a sync under way.
SetMode(m) ==
  /\ m # mode
  /\ mode' = m
  /\ UNCHANGED <<queue, syncing, job, files, restarts, history>>

\* POST /queue/{id}/cancel.
Cancel(o) ==
  /\ ops[o].status = "pending"
  /\ ops' = [ops EXCEPT ![o].status = "cancelled"]
  /\ answered' = Answer(o)
  /\ UNCHANGED <<aging, created, workers, files, restarts, lost, buried>>

\* POST /queue/clear.  The timer of an operation that is gone has nothing to remove.
Clear ==
  /\ ops' = [o \in Ids |-> IF ops[o].status \in {"completed", "cancelled"} THEN Absent ELSE ops[o]]
  /\ aging' = {o \in aging : ops'[o] # Absent}
  /\ UNCHANGED <<created, workers, files, restarts, history>>

\* POST /pin and /unpin save all of the local state, which Track does not.  The
\* pins themselves are left out.
Pin ==
  /\ localFile' = local
  /\ UNCHANGED <<queue, workers, local, reported, changes, restarts, history>>

\* The newest change of the path is tracked and not yet queued.
OnItsWay(p) == local[p] # None /\ reported[local[p]] # NoReport

\* nosd stops and starts.  operations.json is written in place: a stop in the
\* middle of it leaves no list, and the queue starts empty.
Restart ==
  /\ \/ ops' = ops /\ lost' = lost \cup {p \in Paths : OnItsWay(p)}
     \/ ops' = Empty /\ lost' = Paths
  /\ restarts < MaxRestarts /\ restarts' = restarts + 1
  /\ aging' = {}
  /\ mode' = "online"
  /\ syncing' = {} /\ job' = [s \in Syncs |-> None]
  /\ local' = localFile
  /\ reported' = [c \in Changes |-> NoReport]
  /\ UNCHANGED <<created, localFile, changes, answered, buried>>

------------------------------------------------------------------------------
Sync(s) == Dequeue(s) \/ Complete(s) \/ SyncEnds(s)

Caller == \/ \E p \in Paths, type \in Types : Track(p, type)
          \/ \E c \in Changes : Enqueue(c)

Request == \/ \E m \in {"online", "offline"} : SetMode(m)
           \/ \E o \in Ids : Cancel(o) \/ Expire(o)
           \/ Clear \/ Pin

Next == \/ \E s \in Syncs : Trigger(s) \/ Sync(s)
        \/ Caller
        \/ Request \/ Restart

Spec == Init /\ [][Next]_vars

\* The ticker of syncLoop, which looks for the mode first.
Tick == mode = "online" /\ \E s \in Syncs : Trigger(s)

FairSpec == Spec /\ WF_vars(Tick) /\ \A s \in Syncs : WF_vars(Sync(s))

------------------------------------------------------------------------------
\* An operation under way is worked on by one goroutine, though SetMode lets a
\* second sync start beside the first, and nothing but its end changes it.
OneWorker == \A s \in Syncs : job[s] # None =>
               /\ ops[job[s]].status = "in_progress"
               /\ \A u \in Syncs : job[u] = job[s] => u = s

\* The merging keeps at most one pending operation of a path and a type.
OneToMerge == \A o, i \in Pending :
                ops[o].path = ops[i].path /\ ops[o].type = ops[i].type => o = i

\* No change is forgotten: once the newest change of a path is queued, it or a
\* later one was taken up or cancelled, or a pending operation of the path will
\* take it, with merging, two syncs and clearing in between.  Two things take it
\* away, each until the next change of the path: a stop, which cuts off what is
\* not yet queued or tears the queue (lost); and a call for an older change of the
\* same type that gets to the queue after it and merges over it (buried).
Reaches(p, change) == \/ answered[p] >= change
                      \/ \E o \in Pending : ops[o].path = p /\ ops[o].hash >= change

NewestIsKept == \A p \in Paths :
                  local[p] # None /\ ~OnItsWay(p) /\ p \notin lost \cup buried
                    => Reaches(p, local[p])

\* The queue is worked off sooner or later when no more changes come, whichever
\* modes are set during a sync, unless the mode is left offline.
PendingIsTaken == Pending # {} ~> (Pending = {} \/ mode = "offline")
==============================================================================
