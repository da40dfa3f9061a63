------------------------- MODULE OfflineSync_proofs -------------------------
(***************************************************************************)
(* TLAPS proofs about OfflineSync, for any paths, types, goroutines and    *)
(* bounds: type correctness; one goroutine for an operation; at most one   *)
(* operation to merge with; and no change is forgotten.                    *)
(***************************************************************************)
EXTENDS OfflineSync, FiniteSetTheorems, TLAPS

USE OfflineAssumption

\* The changes that are tracked and not yet queued have numbers of their own, so
\* that there is one left for the operation of each of them.
Reporting == {c \in Changes : reported[c] # NoReport}
CountInv == /\ IsFiniteSet(Reporting) /\ created + Cardinality(Reporting) <= changes
            /\ \A c \in Reporting : c <= changes

\* Operations not yet created leave no trace; those that age are over.
FreshInv == \A o \in Ids : o > created => ops[o] = Absent /\ o \notin aging
AgingInv == \A o \in aging : ops[o].status \in {"completed", "none"}

WorkInv == TypeOK /\ CountInv /\ FreshInv /\ AgingInv /\ OneWorker

\* A change on its way is one of its own path, and the file is never ahead of the
\* memory.
NewestInv ==
  /\ \A p \in Paths : /\ OnItsWay(p) => reported[local[p]].path = p
                      /\ localFile[p] <= local[p]
                      /\ local[p] <= changes
  /\ NewestIsKept

------------------------------------------------------------------------------
\* What Put does: an operation of the path holds the change, and no other has
\* changed.
LEMMA PutDoes ==
  ASSUME WorkInv, NEW p \in Paths, NEW type \in Types, NEW change \in Changes,
         created < MaxChanges, Put(p, type, change)
  PROVE  \E o \in Ids :
           /\ ops' = [ops EXCEPT ![o] = [status |-> "pending", path |-> p, type |-> type, hash |-> change]]
           /\ o <= created' /\ created' \in created..(created + 1)
           /\ \/ o \in Mergeable(p, type) /\ created' = created
              \/ Mergeable(p, type) = {} /\ ops[o] = Absent /\ o = created + 1 /\ created' = created + 1
<1>1. CASE \E o \in Mergeable(p, type) : ops' = [ops EXCEPT ![o].hash = change] /\ UNCHANGED created
  <2>1. PICK o \in Mergeable(p, type) : ops' = [ops EXCEPT ![o].hash = change] /\ UNCHANGED created
    BY <1>1
  <2>2. o \in Ids /\ ops[o].status = "pending" /\ ops[o].path = p /\ ops[o].type = type
    BY DEF Mergeable, Pending
  <2>3. ops[o] \in Ops /\ ops[o] # Absent
    BY <2>2 DEF WorkInv, TypeOK, Absent
  <2>4. [ops[o] EXCEPT !.hash = change] = [status |-> "pending", path |-> p, type |-> type, hash |-> change]
    BY <2>2, <2>3 DEF Ops
  <2>5. ops' = [ops EXCEPT ![o] = [status |-> "pending", path |-> p, type |-> type, hash |-> change]]
    BY <2>1, <2>4
  <2>6. o <= created /\ created \in Nat
    BY <2>2, <2>3 DEF WorkInv, FreshInv, TypeOK, Ids
  <2>7. created' \in created..(created + 1) /\ o \in Mergeable(p, type)
    BY <2>1, <2>6
  <2> o \in Ids
    BY <2>2
  <2> WITNESS o \in Ids
  <2> QED
    BY <2>1, <2>5, <2>6, <2>7
<1>2. CASE Mergeable(p, type) = {}
  <2>1. created + 1 \in Ids /\ created \in Nat
    BY DEF Ids, WorkInv, TypeOK
  <2>2. ops[created + 1] = Absent
    BY <2>1 DEF WorkInv, FreshInv
  <2> QED
    BY <1>2, <2>1, <2>2 DEF Put
<1> QED
  BY <1>1, <1>2 DEF Put

\* A change that is on its way leaves a number for its operation.
LEMMA Room ==
  ASSUME WorkInv, NEW c \in Changes, reported[c] # NoReport
  PROVE  /\ created < changes /\ created < MaxChanges
         /\ reported[c].type \in Types /\ reported[c].path \in Paths
<1>1. c \in Reporting
  BY DEF Reporting
<1>2. Cardinality(Reporting) \in Nat /\ Cardinality(Reporting) # 0
  BY <1>1, FS_CardinalityType, FS_EmptySet DEF WorkInv, CountInv
<1>3. created < changes /\ created < MaxChanges
  BY <1>2 DEF WorkInv, CountInv, TypeOK
<1>4. reported[c] \in Reports
  BY DEF WorkInv, TypeOK
<1> QED
  BY <1>3, <1>4 DEF Reports

------------------------------------------------------------------------------
LEMMA WorkInit == Init => WorkInv
<1> SUFFICES ASSUME Init
             PROVE  WorkInv
  OBVIOUS
<1>1. TypeOK
  BY DEF Init, TypeOK, Empty, None
<1>2. Reporting = {}
  BY DEF Init, Reporting
<1>3. CountInv
  BY <1>2, FS_EmptySet DEF CountInv, Init
<1> QED
  BY <1>1, <1>3 DEF WorkInv, FreshInv, AgingInv, OneWorker, Init, Empty

LEMMA TrackWork ==
  ASSUME WorkInv, NEW p \in Paths, NEW type \in Types, Track(p, type)
  PROVE  WorkInv'
<1> USE DEF queue, workers, history
<1>1. changes' \in Changes /\ changes' = changes + 1 /\ changes \in Nat
  BY DEF WorkInv, TypeOK, Track, Changes
<1>2. local' \in [Paths -> {None} \cup Changes]
  BY <1>1 DEF Track, WorkInv, TypeOK
<1>3. reported' \in [Changes -> {NoReport} \cup Reports]
  BY DEF Track, WorkInv, TypeOK, Reports
<1>4. TypeOK'
  BY <1>1, <1>2, <1>3 DEF Track, WorkInv, TypeOK, Changes
<1>5. CountInv'
  <2>1. changes' \notin Reporting
    BY <1>1 DEF WorkInv, CountInv, Reporting, Changes
  <2>2. Reporting' = Reporting \cup {changes'}
    BY <1>1 DEF Reporting, Track, WorkInv, TypeOK, NoReport
  <2>3. IsFiniteSet(Reporting') /\ Cardinality(Reporting') = Cardinality(Reporting) + 1
    BY <2>1, <2>2, FS_AddElement DEF WorkInv, CountInv
  <2>4. Cardinality(Reporting) \in Nat
    BY FS_CardinalityType DEF WorkInv, CountInv
  <2>5. created' + Cardinality(Reporting') <= changes'
    BY <1>1, <2>3, <2>4 DEF CountInv, WorkInv, TypeOK, Track
  <2>6. \A c \in Reporting' : c <= changes'
    BY <1>1, <2>2 DEF CountInv, WorkInv, Reporting, Changes
  <2> QED
    BY <2>3, <2>5, <2>6 DEF CountInv
<1>6. FreshInv' /\ AgingInv' /\ OneWorker'
  BY DEF Track, WorkInv, FreshInv, AgingInv, OneWorker
<1> QED
  BY <1>4, <1>5, <1>6 DEF WorkInv

LEMMA EnqueueWork ==
  ASSUME WorkInv, NEW c \in Changes, Enqueue(c)
  PROVE  WorkInv'
<1> DEFINE p == reported[c].path
           type == reported[c].type
<1> USE DEF queue, workers, history
<1>1. /\ created < changes /\ created < MaxChanges
      /\ type \in Types /\ p \in Paths
  BY Room DEF Enqueue
<1>2. PICK o \in Ids :
         /\ ops' = [ops EXCEPT ![o] = [status |-> "pending", path |-> p, type |-> type, hash |-> c]]
         /\ o <= created' /\ created' \in created..(created + 1)
         /\ \/ o \in Mergeable(p, type)
            \/ ops[o] = Absent /\ o = created + 1
  BY <1>1, PutDoes DEF Enqueue
<1>3. [status |-> "pending", path |-> p, type |-> type, hash |-> c] \in Ops
  BY <1>1 DEF Ops, Status
<1>4. TypeOK'
  <2>1. ops' \in [Ids -> {Absent} \cup Ops]
    BY <1>2, <1>3 DEF WorkInv, TypeOK
  <2>2. created' \in 0..MaxChanges
    BY <1>1, <1>2 DEF WorkInv, TypeOK
  <2>3. reported' \in [Changes -> {NoReport} \cup Reports]
    BY DEF Enqueue, WorkInv, TypeOK
  <2>4. lost' \subseteq Paths /\ buried' \subseteq Paths
    BY <1>1 DEF Enqueue, WorkInv, TypeOK
  <2> QED
    BY <2>1, <2>2, <2>3, <2>4 DEF Enqueue, WorkInv, TypeOK
<1>5. CountInv'
  <2>1. c \in Reporting /\ Reporting' = Reporting \ {c}
    BY DEF Reporting, Enqueue, WorkInv, TypeOK
  <2>2. IsFiniteSet(Reporting') /\ Cardinality(Reporting') = Cardinality(Reporting) - 1
    BY <2>1, FS_RemoveElement DEF WorkInv, CountInv
  <2>3. Cardinality(Reporting) \in Nat
    BY FS_CardinalityType DEF WorkInv, CountInv
  <2>4. created' + Cardinality(Reporting') <= changes'
    BY <1>2, <2>2, <2>3 DEF CountInv, WorkInv, TypeOK, Enqueue
  <2>5. \A d \in Reporting' : d <= changes'
    BY <2>1 DEF CountInv, WorkInv, Enqueue
  <2> QED
    BY <2>2, <2>4, <2>5 DEF CountInv
<1>6. ops[o].status \in {"pending", "none"}
  BY <1>2 DEF Mergeable, Pending, Absent
<1>7. FreshInv'
  BY <1>2 DEF WorkInv, TypeOK, FreshInv, Enqueue, Ids
<1>8. AgingInv'
  <2>1. o \notin aging
    BY <1>2, <1>6 DEF WorkInv, TypeOK, FreshInv, AgingInv, Mergeable, Pending, Ids
  <2> QED
    BY <1>2, <2>1 DEF WorkInv, TypeOK, AgingInv, Enqueue
<1>9. OneWorker'
  <2>1. \A s \in Syncs : job[s] # None => job[s] # o
    BY <1>6 DEF WorkInv, OneWorker
  <2> QED
    BY <1>2, <2>1 DEF WorkInv, TypeOK, OneWorker, Enqueue
<1> QED
  BY <1>4, <1>5, <1>7, <1>8, <1>9 DEF WorkInv

\* Steps that leave the local state, the reports and the numbers alone.
LEMMA CountKept ==
  ASSUME WorkInv, UNCHANGED <<local, localFile, reported, changes, created>>
  PROVE  CountInv'
BY DEF WorkInv, CountInv, Reporting

LEMMA SyncWork ==
  ASSUME WorkInv, NEW s \in Syncs, Trigger(s) \/ Sync(s)
  PROVE  WorkInv'
<1> USE DEF queue, workers, files, history
<1>1. CASE Trigger(s) \/ SyncEnds(s)
  <2>1. UNCHANGED <<local, localFile, reported, changes, created, ops, aging, job, lost, buried, answered, restarts>>
    BY <1>1 DEF Trigger, SyncEnds
  <2>2. TypeOK'
    BY <1>1, <2>1 DEF Trigger, SyncEnds, WorkInv, TypeOK
  <2> QED
    BY <2>1, <2>2, CountKept DEF WorkInv, FreshInv, AgingInv, OneWorker
<1>2. CASE Dequeue(s)
  <2>1. PICK o \in Pending : /\ ops' = [ops EXCEPT ![o].status = "in_progress"]
                             /\ job' = [job EXCEPT ![s] = o]
                             /\ answered' = Answer(o)
    BY <1>2 DEF Dequeue
  <2>2. o \in Ids /\ ops[o].status = "pending" /\ ops[o] \in Ops /\ ops[o] # Absent
    BY DEF Pending, WorkInv, TypeOK, Absent
  <2>3. [ops[o] EXCEPT !.status = "in_progress"] \in Ops
    BY <2>2 DEF Ops, Status
  <2>4. TypeOK'
    <3>1. ops' \in [Ids -> {Absent} \cup Ops]
      BY <2>1, <2>3 DEF WorkInv, TypeOK
    <3>2. job' \in [Syncs -> {None} \cup Ids]
      BY <2>1, <2>2 DEF WorkInv, TypeOK
    <3>3. answered' \in [Paths -> {None} \cup Changes]
      <4>1. ops[o].hash \in Changes
        BY <2>2 DEF Ops
      <4>2. Later(answered[ops[o].path], ops[o].hash) \in {None} \cup Changes
        BY <2>2, <4>1 DEF Later, Ops, WorkInv, TypeOK
      <4> QED
        BY <2>1, <4>2 DEF Answer, WorkInv, TypeOK
    <3> QED
      BY <1>2, <3>1, <3>2, <3>3 DEF Dequeue, WorkInv, TypeOK
  <2>5. ops'[o].status = "in_progress" /\ \A i \in Ids \ {o} : ops'[i] = ops[i]
    BY <2>1, <2>2 DEF WorkInv, TypeOK, Ops
  <2>6. FreshInv'
    BY <1>2, <2>2, <2>5 DEF Dequeue, WorkInv, FreshInv
  <2>7. AgingInv'
    BY <1>2, <2>2, <2>5 DEF Dequeue, WorkInv, AgingInv, TypeOK
  <2>8. OneWorker'
    <3>1. \A u \in Syncs : job[u] # None => job[u] # o /\ job[u] \in Ids
      BY <2>2 DEF WorkInv, OneWorker, TypeOK
    <3>2. \A u \in Syncs : job'[u] = IF u = s THEN o ELSE job[u]
      BY <2>1 DEF WorkInv, TypeOK
    <3> QED
      BY <2>5, <3>1, <3>2 DEF WorkInv, OneWorker
  <2> QED
    BY <1>2, <2>4, <2>6, <2>7, <2>8, CountKept DEF Dequeue, WorkInv
<1>3. CASE Complete(s)
  <2> DEFINE o == job[s]
  <2>1. o \in Ids /\ ops[o].status = "in_progress" /\ ops[o] \in Ops /\ ops[o] # Absent
    BY <1>3 DEF Complete, WorkInv, TypeOK, OneWorker, Absent
  <2>2. [ops[o] EXCEPT !.status = "completed"] \in Ops
    BY <2>1 DEF Ops, Status
  <2>3. TypeOK'
    <3>1. ops' \in [Ids -> {Absent} \cup Ops]
      BY <1>3, <2>2 DEF Complete, WorkInv, TypeOK
    <3>2. job' \in [Syncs -> {None} \cup Ids] /\ aging' \subseteq Ids
      BY <1>3, <2>1 DEF Complete, WorkInv, TypeOK
    <3> QED
      BY <1>3, <3>1, <3>2 DEF Complete, WorkInv, TypeOK
  <2>4. ops'[o].status = "completed" /\ \A i \in Ids \ {o} : ops'[i] = ops[i]
    BY <1>3, <2>1 DEF Complete, WorkInv, TypeOK, Ops
  <2>5. FreshInv'
    BY <1>3, <2>1, <2>4 DEF Complete, WorkInv, FreshInv
  <2>6. AgingInv'
    BY <1>3, <2>1, <2>4 DEF Complete, WorkInv, AgingInv, TypeOK
  <2>7. OneWorker'
    <3>1. \A u \in Syncs \ {s} : job[u] # None => job[u] # o /\ job[u] \in Ids
      BY <1>3 DEF Complete, WorkInv, OneWorker, TypeOK
    <3>2. \A u \in Syncs : job'[u] = IF u = s THEN None ELSE job[u]
      BY <1>3 DEF Complete, WorkInv, TypeOK
    <3> QED
      BY <2>4, <3>1, <3>2 DEF WorkInv, OneWorker
  <2> QED
    BY <1>3, <2>3, <2>5, <2>6, <2>7, CountKept DEF Complete, WorkInv
<1> QED
  BY <1>1, <1>2, <1>3 DEF Sync

LEMMA RequestWork ==
  ASSUME WorkInv, Request
  PROVE  WorkInv'
<1> USE DEF queue, workers, files, history
<1>1. ASSUME NEW m \in {"online", "offline"}, SetMode(m)
      PROVE  WorkInv'
  <2>1. TypeOK'
    BY <1>1 DEF SetMode, WorkInv, TypeOK
  <2> QED
    BY <1>1, <2>1, CountKept DEF SetMode, WorkInv, FreshInv, AgingInv, OneWorker
<1>2. ASSUME NEW o \in Ids, Cancel(o)
      PROVE  WorkInv'
  <2>1. ops[o].status = "pending" /\ ops[o] \in Ops /\ ops[o] # Absent
    BY <1>2 DEF Cancel, WorkInv, TypeOK, Absent
  <2>2. [ops[o] EXCEPT !.status = "cancelled"] \in Ops
    BY <2>1 DEF Ops, Status
  <2>3. TypeOK'
    <3>1. ops' \in [Ids -> {Absent} \cup Ops]
      BY <1>2, <2>2 DEF Cancel, WorkInv, TypeOK
    <3>2. answered' \in [Paths -> {None} \cup Changes]
      <4>1. ops[o].hash \in Changes
        BY <2>1 DEF Ops
      <4>2. Later(answered[ops[o].path], ops[o].hash) \in {None} \cup Changes
        BY <2>1, <4>1 DEF Later, Ops, WorkInv, TypeOK
      <4> QED
        BY <1>2, <4>2 DEF Cancel, Answer, WorkInv, TypeOK
    <3> QED
      BY <1>2, <3>1, <3>2 DEF Cancel, WorkInv, TypeOK
  <2>4. ops'[o].status = "cancelled" /\ \A i \in Ids \ {o} : ops'[i] = ops[i]
    BY <1>2, <2>1 DEF Cancel, WorkInv, TypeOK, Ops
  <2>5. FreshInv'
    BY <1>2, <2>1, <2>4 DEF Cancel, WorkInv, FreshInv
  <2>6. AgingInv'
    BY <1>2, <2>1, <2>4 DEF Cancel, WorkInv, AgingInv, TypeOK
  <2>7. OneWorker'
    <3>1. \A u \in Syncs : job[u] # None => job[u] # o /\ job[u] \in Ids
      BY <2>1 DEF WorkInv, OneWorker, TypeOK
    <3> QED
      BY <1>2, <2>4, <3>1 DEF Cancel, WorkInv, OneWorker
  <2> QED
    BY <1>2, <2>3, <2>5, <2>6, <2>7, CountKept DEF Cancel, WorkInv
<1>3. ASSUME NEW o \in Ids, Expire(o)
      PROVE  WorkInv'
  <2>1. TypeOK'
    BY <1>3 DEF Expire, WorkInv, TypeOK
  <2>2. ops'[o] = Absent /\ \A i \in Ids \ {o} : ops'[i] = ops[i]
    BY <1>3 DEF Expire, WorkInv, TypeOK
  <2>3. FreshInv' /\ AgingInv'
    BY <1>3, <2>2 DEF Expire, WorkInv, FreshInv, AgingInv, TypeOK, Absent
  <2>4. OneWorker'
    <3>1. \A u \in Syncs : job[u] # None => job[u] # o /\ job[u] \in Ids
      BY <1>3 DEF Expire, WorkInv, OneWorker, AgingInv, TypeOK
    <3> QED
      BY <1>3, <2>2, <3>1 DEF Expire, WorkInv, OneWorker
  <2> QED
    BY <1>3, <2>1, <2>3, <2>4, CountKept DEF Expire, WorkInv
<1>4. CASE Clear
  <2>1. \A i \in Ids : ops'[i] = IF ops[i].status \in {"completed", "cancelled"} THEN Absent ELSE ops[i]
    BY <1>4 DEF Clear
  <2>2. TypeOK'
    BY <1>4, <2>1 DEF Clear, WorkInv, TypeOK
  <2>3. FreshInv' /\ AgingInv'
    BY <1>4, <2>1 DEF Clear, WorkInv, FreshInv, AgingInv, TypeOK, Absent
  <2>4. OneWorker'
    BY <1>4, <2>1 DEF Clear, WorkInv, OneWorker, TypeOK
  <2> QED
    BY <1>4, <2>2, <2>3, <2>4, CountKept DEF Clear, WorkInv
<1>5. CASE Pin
  <2>1. TypeOK' /\ CountInv'
    BY <1>5 DEF Pin, WorkInv, TypeOK, CountInv, Reporting
  <2> QED
    BY <1>5, <2>1 DEF Pin, WorkInv, FreshInv, AgingInv, OneWorker
<1> QED
  BY <1>1, <1>2, <1>3, <1>4, <1>5 DEF Request

LEMMA RestartWork ==
  ASSUME WorkInv, Restart
  PROVE  WorkInv'
<1>1. TypeOK'
  BY DEF Restart, WorkInv, TypeOK, Empty
<1>2. CountInv'
  <2>1. Reporting' = {}
    BY DEF Restart, Reporting
  <2>2. Cardinality(Reporting) \in Nat
    BY FS_CardinalityType DEF WorkInv, CountInv
  <2> QED
    BY <2>1, <2>2, FS_EmptySet DEF Restart, WorkInv, CountInv, TypeOK
<1> QED
  BY <1>1, <1>2 DEF Restart, WorkInv, FreshInv, AgingInv, OneWorker, Empty

LEMMA WorkStep == WorkInv /\ [Next]_vars => WorkInv'
<1> SUFFICES ASSUME WorkInv, [Next]_vars
             PROVE  WorkInv'
  OBVIOUS
<1>1. CASE UNCHANGED vars
  BY <1>1 DEF vars, queue, workers, files, history, WorkInv, TypeOK, CountInv, Reporting,
     FreshInv, AgingInv, OneWorker
<1> QED
  BY <1>1, TrackWork, EnqueueWork, SyncWork, RequestWork, RestartWork DEF Next, Caller

------------------------------------------------------------------------------
(* One operation to merge with.                                            *)

\* Steps after which an operation is pending only if it was, unchanged.
LEMMA PendingKept ==
  ASSUME OneToMerge, \A o \in Ids : ops'[o].status = "pending" => ops'[o] = ops[o]
  PROVE  OneToMerge'
BY DEF OneToMerge, Pending

\* What every step but the change's way into the queue does to the operations.
LEMMA OpsKept ==
  ASSUME WorkInv, [Next]_vars, \A c \in Changes : ~Enqueue(c)
  PROVE  \A o \in Ids : ops'[o].status = "pending" => ops'[o] = ops[o]
<1>1. CASE \E s \in Syncs : Dequeue(s)
  <2>1. PICK o \in Pending : ops' = [ops EXCEPT ![o].status = "in_progress"]
    BY <1>1 DEF Dequeue
  <2>2. ops[o] \in Ops /\ o \in Ids
    BY DEF Pending, WorkInv, TypeOK, Absent
  <2> QED
    BY <2>1, <2>2 DEF WorkInv, TypeOK, Ops
<1>2. CASE \E s \in Syncs : Complete(s)
  <2>1. PICK s \in Syncs : job[s] # None /\ ops' = [ops EXCEPT ![job[s]].status = "completed"]
    BY <1>2 DEF Complete
  <2>2. ops[job[s]] \in Ops /\ job[s] \in Ids
    BY <2>1 DEF WorkInv, TypeOK, OneWorker, Absent
  <2> QED
    BY <2>1, <2>2 DEF WorkInv, TypeOK, Ops
<1>3. CASE \E o \in Ids : Cancel(o)
  <2>1. PICK o \in Ids : ops[o].status = "pending" /\ ops' = [ops EXCEPT ![o].status = "cancelled"]
    BY <1>3 DEF Cancel
  <2>2. ops[o] \in Ops
    BY <2>1 DEF WorkInv, TypeOK, Absent
  <2> QED
    BY <2>1, <2>2 DEF WorkInv, TypeOK, Ops
<1>4. CASE Clear \/ Restart \/ \E o \in Ids : Expire(o)
  BY <1>4 DEF Clear, Restart, Expire, Empty, Absent, WorkInv, TypeOK
<1>5. CASE UNCHANGED ops
  BY <1>5
<1>6. \/ UNCHANGED ops
      \/ \E s \in Syncs : Dequeue(s) \/ Complete(s)
      \/ \E o \in Ids : Cancel(o) \/ Expire(o)
      \/ Clear \/ Restart
  BY DEF Next, Caller, Sync, Request, Trigger, SyncEnds, Track, SetMode, Pin, vars, queue
<1> QED
  BY <1>1, <1>2, <1>3, <1>4, <1>5, <1>6

LEMMA MergeStep == WorkInv /\ OneToMerge /\ [Next]_vars => OneToMerge'
<1> SUFFICES ASSUME WorkInv, OneToMerge, [Next]_vars
             PROVE  OneToMerge'
  OBVIOUS
<1>1. ASSUME NEW c \in Changes, Enqueue(c)
      PROVE  OneToMerge'
  <2> DEFINE p == reported[c].path
             type == reported[c].type
  <2>1. PICK o \in Ids :
           /\ ops' = [ops EXCEPT ![o] = [status |-> "pending", path |-> p, type |-> type, hash |-> c]]
           /\ o \in Mergeable(p, type) \/ Mergeable(p, type) = {}
    BY <1>1, Room, PutDoes DEF Enqueue
  <2>2. /\ ops'[o].path = p /\ ops'[o].type = type
        /\ \A i \in Ids \ {o} : ops'[i] = ops[i]
    BY <2>1 DEF WorkInv, TypeOK
  <2>3. \A i \in Pending \ {o} : ~(ops[i].path = p /\ ops[i].type = type)
    BY <2>1 DEF OneToMerge, Mergeable
  <2> QED
    BY <2>2, <2>3 DEF OneToMerge, Pending
<1>2. CASE \A c \in Changes : ~Enqueue(c)
  BY <1>2, OpsKept, PendingKept
<1> QED
  BY <1>1, <1>2

------------------------------------------------------------------------------
(* No change is forgotten.                                                 *)

LEMMA NewestInit == Init => NewestInv
<1> SUFFICES ASSUME Init
             PROVE  NewestInv
  OBVIOUS
<1>1. \A p \in Paths : localFile[p] = 0 /\ local[p] = 0
  BY DEF Init, None
<1> QED
  BY <1>1 DEF Init, NewestInv, NewestIsKept, OnItsWay, None

\* A pending operation is taken up or cancelled: its change is answered.
LEMMA TakenReaches ==
  ASSUME WorkInv, NEW o \in Pending, answered' = Answer(o),
         \A i \in Ids \ {o} : ops'[i] = ops[i],
         NEW p \in Paths, NEW change \in 0..MaxChanges, Reaches(p, change)
  PROVE  Reaches(p, change)'
<1>1. /\ ops[o] \in Ops /\ o \in Ids
      /\ ops[o].path \in Paths /\ ops[o].hash \in Changes
  BY DEF Pending, WorkInv, TypeOK, Absent, Ops
<1>2. /\ \A q \in Paths : answered[q] \in 0..MaxChanges
      /\ answered'[p] = IF p = ops[o].path THEN Later(answered[p], ops[o].hash) ELSE answered[p]
  BY <1>1 DEF Answer, WorkInv, TypeOK, None, Changes
<1>3. CASE answered[p] >= change
  BY <1>1, <1>2, <1>3 DEF Reaches, Later, Changes
<1>4. CASE ops[o].path = p /\ ops[o].hash >= change
  BY <1>1, <1>2, <1>4 DEF Reaches, Later, Changes
<1>5. ASSUME NEW i \in Pending \ {o}, ops[i].path = p, ops[i].hash >= change
      PROVE  Reaches(p, change)'
  BY <1>5 DEF Reaches, Pending
<1> QED
  BY <1>3, <1>4, <1>5 DEF Reaches

\* Steps that leave the pending operations and the answers alone.
LEMMA OthersReach ==
  ASSUME \A o \in Pending : ops'[o] = ops[o], UNCHANGED answered,
         NEW p \in Paths, NEW change, Reaches(p, change)
  PROVE  Reaches(p, change)'
BY DEF Reaches, Pending

\* Steps that leave the local state alone keep the invariant when they keep what
\* reaches a path.
LEMMA NewestKept ==
  ASSUME WorkInv, NewestInv, UNCHANGED <<local, localFile, reported, changes, lost, buried>>,
         \A p \in Paths, change \in 0..MaxChanges : Reaches(p, change) => Reaches(p, change)'
  PROVE  NewestInv'
<1>1. \A p \in Paths : local[p] \in 0..MaxChanges
  BY DEF WorkInv, TypeOK, None, Changes
<1> QED
  BY <1>1 DEF NewestInv, NewestIsKept, OnItsWay

LEMMA TrackNewest ==
  ASSUME WorkInv, NewestInv, NEW p \in Paths, NEW type \in Types, Track(p, type)
  PROVE  NewestInv'
<1> USE DEF queue, workers, history
<1>1. changes' = changes + 1 /\ changes \in Nat /\ changes' \in Changes
  BY DEF Track, WorkInv, TypeOK, Changes
<1>2. /\ local'[p] = changes' /\ reported'[changes'] = [path |-> p, type |-> type]
      /\ \A q \in Paths \ {p} : local'[q] = local[q]
      /\ \A c \in Changes \ {changes'} : reported'[c] = reported[c]
  BY <1>1 DEF Track, WorkInv, TypeOK
<1>3. UNCHANGED <<ops, answered, localFile, lost, buried>>
  BY DEF Track
<1>4. \A q \in Paths : /\ local[q] \in {None} \cup Changes /\ localFile[q] \in Nat /\ local[q] \in Nat
                      /\ localFile[q] <= local[q] /\ local[q] <= changes /\ local[q] # changes'
  BY <1>1 DEF NewestInv, WorkInv, TypeOK, None, Changes
<1>5. OnItsWay(p)' /\ reported'[local'[p]].path = p
  BY <1>1, <1>2 DEF OnItsWay, NoReport, None, Changes
<1>6. ASSUME NEW q \in Paths \ {p}
      PROVE  OnItsWay(q)' = OnItsWay(q) /\ (OnItsWay(q) => reported'[local'[q]].path = q)
  BY <1>2, <1>4, <1>6 DEF OnItsWay, NewestInv
<1>7. \A q \in Paths : localFile'[q] <= local'[q] /\ local'[q] <= changes'
  BY <1>1, <1>2, <1>3, <1>4
<1>8. NewestIsKept'
  <2> SUFFICES ASSUME NEW q \in Paths, local'[q] # None, ~OnItsWay(q)', q \notin lost' \cup buried'
               PROVE  Reaches(q, local[q])'
    BY DEF NewestIsKept
  <2>1. q # p
    BY <1>5
  <2>2. Reaches(q, local[q])
    BY <1>2, <1>3, <1>6, <2>1 DEF NewestInv, NewestIsKept
  <2> QED
    BY <1>2, <1>3, <2>1, <2>2 DEF Reaches, Pending
<1> QED
  BY <1>5, <1>6, <1>7, <1>8 DEF NewestInv

LEMMA EnqueueNewest ==
  ASSUME WorkInv, NewestInv, NEW c \in Changes, Enqueue(c)
  PROVE  NewestInv'
<1> DEFINE p == reported[c].path
           type == reported[c].type
<1> USE DEF queue, workers, history
<1>1. p \in Paths /\ type \in Types
  BY Room DEF Enqueue
<1>2. PICK o \in Ids :
         /\ ops' = [ops EXCEPT ![o] = [status |-> "pending", path |-> p, type |-> type, hash |-> c]]
         /\ o \in Mergeable(p, type) \/ ops[o] = Absent
  BY <1>1, Room, PutDoes DEF Enqueue
<1>3. /\ ops'[o] = [status |-> "pending", path |-> p, type |-> type, hash |-> c]
      /\ \A i \in Ids \ {o} : ops'[i] = ops[i]
  BY <1>2 DEF WorkInv, TypeOK
<1>4. UNCHANGED <<local, localFile, changes, answered>>
  BY DEF Enqueue
<1>5. reported'[c] = NoReport /\ \A d \in Changes \ {c} : reported'[d] = reported[d]
  BY DEF Enqueue, WorkInv, TypeOK
<1>6. \A q \in Paths : local[q] \in Nat /\ local[q] \in {None} \cup Changes
  BY DEF WorkInv, TypeOK, None, Changes
<1>7. \A q \in Paths : local[q] # c =>
         \/ OnItsWay(q)' = OnItsWay(q) /\ reported'[local[q]] = reported[local[q]]
         \/ local[q] = None
  BY <1>4, <1>5, <1>6 DEF OnItsWay
<1>8. \A q \in Paths : local[q] = c => q = p /\ ~OnItsWay(q)'
  BY <1>4, <1>5 DEF OnItsWay, NewestInv, Enqueue, None, Changes
<1>9. \A q \in Paths : OnItsWay(q)' => reported'[local'[q]].path = q
  BY <1>4, <1>7, <1>8 DEF NewestInv, OnItsWay
<1>10. NewestIsKept'
  <2> SUFFICES ASSUME NEW q \in Paths, local[q] # None, ~OnItsWay(q)', q \notin lost' \cup buried'
               PROVE  Reaches(q, local[q])'
    BY <1>4 DEF NewestIsKept
  <2>1. CASE local[q] = c
    <3>1. ops'[o].hash >= local[q] /\ ops'[o].path = q /\ ops'[o].status = "pending"
      BY <1>3, <1>6, <1>8, <2>1
    <3> QED
      BY <1>4, <3>1 DEF Reaches, Pending
  <2>2. CASE local[q] # c
    <3>1. q \notin lost
      BY <1>8, <2>2 DEF Enqueue
    <3>2. q \notin buried
      BY <1>8, <2>2 DEF Enqueue
    <3>3. Reaches(q, local[q])
      BY <1>7, <2>2, <3>1, <3>2 DEF NewestInv, NewestIsKept
    <3>4. CASE answered[q] >= local[q]
      BY <1>4, <3>4 DEF Reaches
    <3>5. ASSUME NEW i \in Pending, ops[i].path = q, ops[i].hash >= local[q]
          PROVE  Reaches(q, local[q])'
      <4>1. CASE i # o
        BY <1>3, <1>4, <3>5, <4>1 DEF Reaches, Pending
      <4>2. CASE i = o
        <5>1. o \in Mergeable(p, type) /\ q = p
          BY <1>2, <3>5, <4>2 DEF Pending, Absent, Mergeable
        <5>2. ~(ops[o].hash > c)
          BY <1>1, <2>2, <5>1 DEF Enqueue
        <5>3. ops[o].hash \in Nat
          BY <3>5, <4>2 DEF Pending, WorkInv, TypeOK, Ops, Absent, Changes
        <5>4. c >= local[q]
          BY <1>6, <3>5, <4>2, <5>2, <5>3 DEF Changes
        <5>5. ops'[o].hash >= local[q] /\ ops'[o].path = q /\ ops'[o].status = "pending"
          BY <1>3, <5>1, <5>4
        <5> QED
          BY <1>4, <5>5 DEF Reaches, Pending
      <4> QED
        BY <4>1, <4>2
    <3> QED
      BY <3>3, <3>4, <3>5 DEF Reaches
  <2> QED
    BY <2>1, <2>2
<1> QED
  BY <1>4, <1>9, <1>10 DEF NewestInv

LEMMA SyncNewest ==
  ASSUME WorkInv, NewestInv, NEW s \in Syncs, Trigger(s) \/ Sync(s)
  PROVE  NewestInv'
<1> USE DEF queue, workers, files, history
<1>1. CASE Dequeue(s)
  <2>1. PICK o \in Pending : /\ ops' = [ops EXCEPT ![o].status = "in_progress"]
                             /\ answered' = Answer(o)
    BY <1>1 DEF Dequeue
  <2>2. \A i \in Ids \ {o} : ops'[i] = ops[i]
    BY <2>1 DEF WorkInv, TypeOK
  <2> QED
    BY <1>1, <2>1, <2>2, TakenReaches, NewestKept DEF Dequeue
<1>2. CASE Complete(s)
  <2>1. \A o \in Pending : o # job[s] /\ o \in Ids
    BY <1>2 DEF Complete, Pending, WorkInv, OneWorker
  <2>2. \A o \in Pending : ops'[o] = ops[o]
    BY <1>2, <2>1 DEF Complete, WorkInv, TypeOK
  <2> QED
    BY <1>2, <2>2, OthersReach, NewestKept DEF Complete
<1>3. CASE Trigger(s) \/ SyncEnds(s)
  BY <1>3, OthersReach, NewestKept DEF Trigger, SyncEnds
<1> QED
  BY <1>1, <1>2, <1>3 DEF Sync

LEMMA RequestNewest ==
  ASSUME WorkInv, NewestInv, Request
  PROVE  NewestInv'
<1> USE DEF queue, workers, files, history
<1>1. ASSUME NEW o \in Ids, Cancel(o)
      PROVE  NewestInv'
  <2>1. o \in Pending /\ answered' = Answer(o)
    BY <1>1 DEF Cancel, Pending
  <2>2. \A i \in Ids \ {o} : ops'[i] = ops[i]
    BY <1>1 DEF Cancel, WorkInv, TypeOK
  <2> QED
    BY <1>1, <2>1, <2>2, TakenReaches, NewestKept DEF Cancel
<1>2. ASSUME NEW o \in Ids, Expire(o)
      PROVE  NewestInv'
  <2>1. \A i \in Pending : ops'[i] = ops[i]
    BY <1>2 DEF Expire, Pending, WorkInv, TypeOK, AgingInv
  <2> QED
    BY <1>2, <2>1, OthersReach, NewestKept DEF Expire
<1>3. CASE Clear
  <2>1. \A i \in Pending : ops'[i] = ops[i]
    BY <1>3 DEF Clear, Pending
  <2> QED
    BY <1>3, <2>1, OthersReach, NewestKept DEF Clear
<1>4. CASE \E m \in {"online", "offline"} : SetMode(m)
  BY <1>4, OthersReach, NewestKept DEF SetMode
<1>5. CASE Pin
  <2>1. \A p \in Paths : local[p] \in Nat
    BY DEF WorkInv, TypeOK, None, Changes
  <2> QED
    BY <1>5, <2>1 DEF Pin, NewestInv, NewestIsKept, OnItsWay, Reaches, Pending
<1> QED
  BY <1>1, <1>2, <1>3, <1>4, <1>5 DEF Request

\* After a stop the file is the local state: what reached the newest change of a
\* path reaches the older one as well.
LEMMA RestartNewest ==
  ASSUME WorkInv, NewestInv, Restart
  PROVE  NewestInv'
<1>1. \A p \in Paths : /\ ~OnItsWay(p)' /\ local'[p] = localFile[p] /\ localFile'[p] = localFile[p]
                       /\ localFile[p] \in Nat /\ local[p] \in Nat
                       /\ localFile[p] <= local[p] /\ local[p] <= changes
  BY DEF Restart, WorkInv, NewestInv, TypeOK, OnItsWay, None, Changes
<1>2. changes' = changes /\ changes \in Nat
  BY DEF Restart, WorkInv, TypeOK
<1>3. ASSUME NEW p \in Paths, local'[p] # None, p \notin lost' \cup buried'
      PROVE  Reaches(p, local[p]) /\ ops' = ops
  BY <1>1, <1>3 DEF Restart, NewestInv, NewestIsKept, None
<1>4. ASSUME NEW p \in Paths, Reaches(p, local[p]), ops' = ops
      PROVE  Reaches(p, local[p])'
  <2>1. answered[p] \in Nat /\ answered' = answered
    BY DEF Restart, WorkInv, TypeOK, None, Changes
  <2>2. \A o \in Pending : ops[o].hash \in Nat
    BY DEF Pending, WorkInv, TypeOK, Ops, Absent, Changes
  <2>3. Pending' = Pending
    BY <1>4 DEF Pending
  <2>4. CASE answered[p] >= local[p]
    BY <1>1, <2>1, <2>4 DEF Reaches
  <2>5. ASSUME NEW o \in Pending, ops[o].path = p, ops[o].hash >= local[p]
        PROVE  Reaches(p, local[p])'
    <3>1. ops[o].hash >= local'[p]
      BY <1>1, <2>2, <2>5
    <3> QED
      BY <1>4, <2>3, <2>5, <3>1 DEF Reaches
  <2> QED
    BY <1>4, <2>4, <2>5 DEF Reaches
<1>5. NewestIsKept'
  BY <1>3, <1>4 DEF NewestIsKept
<1>6. ASSUME NEW p \in Paths
      PROVE  localFile'[p] <= local'[p] /\ local'[p] <= changes'
  BY <1>1, <1>2
<1> QED
  BY <1>1, <1>5, <1>6 DEF NewestInv

LEMMA NewestStep == WorkInv /\ NewestInv /\ [Next]_vars => NewestInv'
<1> SUFFICES ASSUME WorkInv, NewestInv, [Next]_vars
             PROVE  NewestInv'
  OBVIOUS
<1>1. CASE UNCHANGED vars
  BY <1>1 DEF vars, queue, workers, files, history, NewestInv, NewestIsKept, OnItsWay, Reaches, Pending
<1> QED
  BY <1>1, TrackNewest, EnqueueNewest, SyncNewest, RequestNewest, RestartNewest DEF Next, Caller

------------------------------------------------------------------------------
\* Every reachable state of the queue, the manager and its files is well typed.
THEOREM TypeCorrect == Spec => []TypeOK
<1>1. WorkInv => TypeOK
  BY DEF WorkInv
<1> QED
  BY <1>1, WorkInit, WorkStep, PTL DEF Spec

\* An operation under way has one goroutine, though SetMode lets several sync at
\* once (triggerSync, Dequeue, UpdateStatus).
THEOREM OneWorkerEach == Spec => []OneWorker
<1>1. WorkInv => OneWorker
  BY DEF WorkInv
<1> QED
  BY <1>1, WorkInit, WorkStep, PTL DEF Spec

\* There is never a choice which pending operation a change merges into (Enqueue).
THEOREM MergesAreUnique == Spec => []OneToMerge
<1>1. Init => OneToMerge
  BY DEF Init, Empty, Absent, OneToMerge, Pending
<1> QED
  BY <1>1, WorkInit, WorkStep, MergeStep, PTL DEF Spec

\* The newest change of a path was taken up, cancelled or is waited for, through
\* merging, syncs and stops, but for what a stop cuts off and for an older change that
\* gets to the queue late and is merged over it (TrackFileChange, Enqueue).
THEOREM NewestKeptAlways == Spec => []NewestIsKept
<1>1. NewestInv => NewestIsKept
  BY DEF NewestInv
<1> QED
  BY <1>1, WorkInit, WorkStep, NewestInit, NewestStep, PTL DEF Spec
=============================================================================
