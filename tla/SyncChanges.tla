---------------------------- MODULE SyncChanges ----------------------------
(***************************************************************************)
(* The changes of a share since a cursor (pkg/sync/change_tracker.go), as  *)
(* a device asks for them (GET /sync/changes).  The server keeps nothing   *)
(* between two requests: a cursor holds the hash of every file it has      *)
(* seen, and each request scans the share anew, file by file, while others *)
(* write to it.                                                            *)
(*                                                                         *)
(* A content stands for its hash.  The share is one directory: a           *)
(* subdirectory that cannot be read is like files that cannot.  Paths are  *)
(* those that are neither hidden nor excluded.                             *)
(***************************************************************************)
EXTENDS FiniteSets, Naturals

CONSTANTS Paths, Contents,
          Limit,      \* changes in one answer at most: limit
          MaxEdits,   \* edits of the share (bound)
          MaxFaults   \* files not read and answers not received (bound)

ASSUME LimitAssumption == Limit \in Nat \ {0}
ASSUME BoundsAssumption == MaxEdits \in Nat /\ MaxFaults \in Nat

VARIABLES
  share,    \* the files: what each path holds
  phase,    \* the request: none, being scanned for, or answered
  listed,   \* names os.ReadDir has returned whose turn has not come
  seen,     \* currentFiles
  answer,   \* the changes on their way to the device
  next,     \* the cursor on its way to the device
  cursor,   \* the cursor the device keeps
  mirror,   \* what the device holds, going by the changes it has received
  edits, faults,
  steady,   \* history: paths that were readable and the same since the scan began
  cut       \* history: paths of which the last change known to the cursor was cut off

request == <<phase, listed, seen, answer, next>>
device == <<cursor, mirror>>
counters == <<edits, faults>>
history == <<steady, cut>>
changesVars == <<share, request, device, counters, history>>

Absent == "absent"
Dir == "dir"    \* a directory, whose hash is empty
Torn == "torn"  \* a file that is being written: any part of it
Things == Contents \cup {Absent, Dir, Torn}

Trees == [Paths -> Things]
Nothing == [p \in Paths |-> Absent]

Changes == [path : Paths, type : {"create", "modify", "delete"}, hash : Things]

ChangesTypeOK ==
  /\ share \in Trees
  /\ phase \in {"idle", "scan", "answered"}
  /\ listed \subseteq Paths
  /\ seen \in Trees /\ next \in Trees /\ cursor \in Trees /\ mirror \in Trees
  /\ answer \subseteq Changes
  /\ edits \in 0..MaxEdits /\ faults \in 0..MaxFaults
  /\ steady \subseteq Paths /\ cut \subseteq Paths

ChangesInit ==
  /\ share \in [Paths -> Contents \cup {Absent, Dir}]
  /\ phase = "idle" /\ listed = {} /\ answer = {}
  /\ seen = Nothing /\ next = Nothing
  /\ cursor = Nothing /\ mirror = Nothing
  /\ edits = 0 /\ faults = 0
  /\ steady = {} /\ cut = {}

------------------------------------------------------------------------------
(* computeChanges, and what a device makes of it.                          *)

Change(p, type, hash) == [path |-> p, type |-> type, hash |-> hash]

Created(old, cur) == {p \in Paths : old[p] = Absent /\ cur[p] # Absent}
Modified(old, cur) == {p \in Paths : old[p] # Absent /\ cur[p] # Absent /\ old[p] # cur[p]}
Deleted(old, cur) == {p \in Paths : old[p] # Absent /\ cur[p] = Absent}

\* Mutant: what is gone from the share is not reported.
ComputeChanges_NoDeletes(old, cur) ==
  {Change(p, "create", cur[p]) : p \in Created(old, cur)}
    \cup {Change(p, "modify", cur[p]) : p \in Modified(old, cur)}

ComputeChanges(old, cur) ==
  {Change(p, "create", cur[p]) : p \in Created(old, cur)}
    \cup {Change(p, "modify", cur[p]) : p \in Modified(old, cur)}
    \cup {Change(p, "delete", Absent) : p \in Deleted(old, cur)}

PathsOf(changes) == {c.path : c \in changes}

Apply(changes, tree) ==
  [p \in Paths |-> IF p \in PathsOf(changes)
                     THEN (CHOOSE c \in changes : c.path = p).hash ELSE tree[p]]

\* An answer with so many of the changes as the limit allows, by the time of
\* modification: of files any time in the past, of what is gone the present.
Pages(changes) ==
  {page \in SUBSET changes :
     /\ Cardinality(page) = IF Cardinality(changes) > Limit THEN Limit ELSE Cardinality(changes)
     /\ \A c \in page, d \in changes \ page : c.type = "delete" => d.type = "delete"}

------------------------------------------------------------------------------
(* The share, which others write to.                                       *)

Edit(p) ==
  /\ edits < MaxEdits /\ edits' = edits + 1
  /\ \E t \in Things \ {share[p]} : share' = [share EXCEPT ![p] = t]
  /\ steady' = steady \ {p}
  /\ UNCHANGED <<request, device, faults, cut>>

\* A file that is being written is finished.
Finish(p) ==
  /\ share[p] = Torn
  /\ \E c \in Contents : share' = [share EXCEPT ![p] = c]
  /\ steady' = steady \ {p}
  /\ UNCHANGED <<request, device, counters, cut>>

------------------------------------------------------------------------------
(* GetChanges.                                                             *)

\* The names are read at once.
StartScan ==
  /\ phase = "idle"
  /\ phase' = "scan"
  /\ listed' = {p \in Paths : share[p] # Absent}
  /\ seen' = Nothing
  /\ steady' = Paths
  /\ UNCHANGED <<share, answer, next, device, counters, cut>>

\* Mutant: the scan waits for whoever writes the file.
ScanFile_Waits(p) ==
  /\ phase = "scan" /\ p \in listed
  /\ share[p] # Torn
  /\ listed' = listed \ {p}
  /\ seen' = [seen EXCEPT ![p] = share[p]]
  /\ UNCHANGED <<share, phase, answer, next, device, counters, history>>

\* The file is hashed, or has gone by now.
ScanFile(p) ==
  /\ phase = "scan" /\ p \in listed
  /\ listed' = listed \ {p}
  /\ seen' = [seen EXCEPT ![p] = share[p]]
  /\ UNCHANGED <<share, phase, answer, next, device, counters, history>>

\* It cannot be read, or is too large for now: it is passed over.
SkipFile(p) ==
  /\ phase = "scan" /\ p \in listed
  /\ share[p] # Absent
  /\ faults < MaxFaults /\ faults' = faults + 1
  /\ listed' = listed \ {p}
  /\ steady' = steady \ {p}
  /\ UNCHANGED <<share, phase, seen, answer, next, device, edits, cut>>

\* Mutant: the scan is taken for complete while names are left.
Respond_Early ==
  /\ phase = "scan"
  /\ phase' = "answered"
  /\ answer' \in Pages(ComputeChanges(cursor, seen))
  /\ next' = seen
  /\ UNCHANGED <<share, listed, seen, device, counters, history>>

\* The next cursor is all that was seen, whatever part of it the answer holds.
Respond ==
  /\ phase = "scan" /\ listed = {}
  /\ phase' = "answered"
  /\ answer' \in Pages(ComputeChanges(cursor, seen))
  /\ next' = seen
  /\ UNCHANGED <<share, listed, seen, device, counters, history>>

------------------------------------------------------------------------------
(* The device.                                                             *)

Receive ==
  /\ phase = "answered"
  /\ phase' = "idle"
  /\ mirror' = Apply(answer, mirror)
  /\ cursor' = next
  /\ cut' = (cut \cup PathsOf(ComputeChanges(cursor, next))) \ PathsOf(answer)
  /\ UNCHANGED <<share, listed, seen, answer, next, counters, steady>>

\* The request or the answer to it is lost, and the device asks again.
Lose ==
  /\ phase # "idle"
  /\ faults < MaxFaults /\ faults' = faults + 1
  /\ phase' = "idle"
  /\ UNCHANGED <<share, listed, seen, answer, next, device, edits, history>>

------------------------------------------------------------------------------
Scan == StartScan \/ Respond \/ \E p \in Paths : ScanFile(p)

ChangesNext ==
  \/ \E p \in Paths : Edit(p) \/ Finish(p) \/ SkipFile(p)
  \/ Scan \/ Receive \/ Lose

ChangesSpec == ChangesInit /\ [][ChangesNext]_changesVars

\* The device keeps asking, and a request that is not lost is answered.
ChangesFairSpec == ChangesSpec /\ WF_changesVars(Scan) /\ WF_changesVars(Receive)

------------------------------------------------------------------------------
\* Going by the changes, a device holds what its cursor says, whichever answers
\* are lost, but for the changes that were cut off.
MirrorIsCursor == \A p \in Paths \ cut : mirror[p] = cursor[p]

\* A scan that others write under still sees everything that stood still and
\* could be read: a change can be wrong of nothing else.
SteadyIsSeen == phase = "answered" => \A p \in steady : next[p] = share[p]

\* When the share is left alone a device comes to hold what is there, but for
\* the changes that were cut off.
Converges == <>[](\A p \in Paths \ cut : mirror[p] = share[p])
=============================================================================
