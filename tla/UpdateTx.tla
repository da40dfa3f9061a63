------------------------------ MODULE UpdateTx ------------------------------
(***************************************************************************)
(* Updates with snapshots: the apply and rollback handlers of nosd         *)
(* (internal/server/router.go), the index of update transactions           *)
(* (pkg/snapdb) and the snapshot handlers of the agent.                    *)
(*                                                                         *)
(* A request is one HTTP goroutine and, being given a fresh UUID, also the *)
(* transaction it records.  Nothing keeps requests apart but the lock file *)
(* of the index, so they interleave between any two calls.  A snapshot is  *)
(* known by the request that made it; the files in it are left out.        *)
(***************************************************************************)
EXTENDS Naturals, Sequences, FiniteSets

CONSTANTS Requests,    \* requests, and the UUIDs of their transactions (bound)
          Targets,     \* what AllowedRoots may answer with: the two roots it
                       \* always has and the mounts of pools
          Always,      \* the roots it always has
          Btrfs,       \* the targets that are btrfs subvolumes
          MaxSecond,   \* the clock stops there (bound)
          Keep,        \* keep_per_target, 5 unless the request says otherwise
          Faults,      \* disks, agent and connections may fail
          NoRequest, NoArchive, Torn

ASSUME UpdateAssumption ==
  /\ MaxSecond \in Nat /\ Keep \in Nat \ {0}
  /\ Btrfs \subseteq Targets /\ Always \subseteq Targets
  /\ Faults \in BOOLEAN
  /\ NoRequest \notin Requests
  /\ NoArchive \notin Requests /\ Torn \notin Requests /\ Torn # NoArchive

VARIABLES
  now,      \* the clock, in the seconds a snapshot ID is made of
  archive,  \* who made the snapshot of each target and ID
  index,    \* /var/lib/nos/snapshots/index.json
  lock,     \* who holds index.json.lock
  read,     \* what the lock holder has read of the index
  pc, next, \* where a request is, and where it goes after its Append
  rec,      \* its transaction record
  roots,    \* apply: roots still to snapshot
  marks,    \* rollback: snapshots still to restore
  due,      \* history: orig.Targets, when the rollback began
  wanted,   \* history: the roots an apply set out to snapshot
  restored, \* history: snapshots each rollback has restored
  lost      \* history: snapshots pruned, or made again in the same second

store == <<index, lock, read>>
flow == <<pc, next, rec, roots, marks>>
history == <<due, wanted, restored>>
vars == <<now, archive, lost, store, flow, history>>

Seconds == 0..MaxSecond
Marks == [path : Targets, id : Seconds]
Records == [tx : Requests, reason : {"pre-update", "rollback"},
            targets : SUBSET Marks, result : {"open", "ok", "failed"}]
\* A handler that works, waits for the index lock, holds it, or is over.
Steps == {"snapshot", "update", "restore"}
Ends == {"done", "dead"}

TypeOK ==
  /\ now \in Seconds
  /\ archive \in [Targets -> [Seconds -> {NoArchive, Torn} \cup Requests]]
  /\ index \in Seq(Records)
  /\ lock \in Requests \cup {NoRequest}
  /\ read \in [Requests -> Seq(Records)]
  /\ pc \in [Requests -> {"idle", "lock", "write"} \cup Steps \cup Ends]
  /\ next \in [Requests -> Steps \cup Ends]
  /\ rec \in [Requests -> Records]
  /\ roots \in [Requests -> SUBSET Targets]
  /\ marks \in [Requests -> SUBSET Marks]
  /\ due \in [Requests -> SUBSET Marks]
  /\ wanted \in [Requests -> SUBSET Targets]
  /\ restored \in [Requests -> SUBSET Marks]
  /\ lost \in SUBSET Marks

NewTx(r, why) == [tx |-> r, reason |-> why, targets |-> {}, result |-> "open"]

Init ==
  /\ now = 0
  /\ archive = [t \in Targets |-> [s \in Seconds |-> NoArchive]]
  /\ index = <<>>
  /\ lock = NoRequest
  /\ read = [r \in Requests |-> <<>>]
  /\ pc = [r \in Requests |-> "idle"]
  /\ next = [r \in Requests |-> "done"]
  /\ rec = [r \in Requests |-> NewTx(r, "pre-update")]
  /\ roots = [r \in Requests |-> {}]
  /\ marks = [r \in Requests |-> {}]
  /\ due = [r \in Requests |-> {}]
  /\ wanted = [r \in Requests |-> {}]
  /\ restored = [r \in Requests |-> {}]
  /\ lost = {}

------------------------------------------------------------------------------
(* snapdb.Append.                                                          *)

\* A handler comes to snapdb.Append(x) and goes on at n, whatever becomes of
\* it: its errors are ignored everywhere.
Record(r, x, n) ==
  /\ rec' = [rec EXCEPT ![r] = x]
  /\ pc' = [pc EXCEPT ![r] = "lock"]
  /\ next' = [next EXCEPT ![r] = n]

\* The handler's last record, with the outcome: it looks no more at what is to do.
Finish(r, outcome) ==
  /\ Record(r, [rec[r] EXCEPT !.result = outcome], "done")
  /\ roots' = [roots EXCEPT ![r] = {}]
  /\ marks' = [marks EXCEPT ![r] = {}]

\* Mutant: the index is read without waiting for the lock.
AppendReads_NoLock(r) ==
  /\ pc[r] = "lock"
  /\ lock' = r
  /\ read' = [read EXCEPT ![r] = index]
  /\ pc' = [pc EXCEPT ![r] = "write"]
  /\ UNCHANGED <<now, archive, lost, index, next, rec, roots, marks, history>>

\* WithLock and readAll.
AppendReads(r) ==
  /\ pc[r] = "lock"
  /\ lock = NoRequest
  /\ lock' = r
  /\ read' = [read EXCEPT ![r] = index]
  /\ pc' = [pc EXCEPT ![r] = "write"]
  /\ UNCHANGED <<now, archive, lost, index, next, rec, roots, marks, history>>

\* Mutant: a failed write returns without unlocking.
AppendWrites_KeepsLock(r) ==
  /\ pc[r] = "write"
  /\ \/ index' = Append(read[r], rec[r]) /\ lock' = NoRequest
     \/ Faults /\ UNCHANGED <<index, lock>>
  /\ pc' = [pc EXCEPT ![r] = next[r]]
  /\ UNCHANGED <<now, archive, lost, read, next, rec, roots, marks, history>>

\* writeAll: the file is renamed into place or, when that fails, left alone.
AppendWrites(r) ==
  /\ pc[r] = "write"
  /\ \/ index' = Append(read[r], rec[r])
     \/ Faults /\ index' = index
  /\ lock' = NoRequest
  /\ read' = [read EXCEPT ![r] = <<>>]
  /\ pc' = [pc EXCEPT ![r] = next[r]]
  /\ UNCHANGED <<now, archive, lost, next, rec, roots, marks, history>>

------------------------------------------------------------------------------
(* POST /api/v1/updates/apply.                                             *)

\* AllowedRoots: a mount that lsblk does not show, or any when it fails, is
\* left out without a word.
BeginApply(r, snapshot) ==
  /\ pc[r] = "idle"
  /\ Record(r, NewTx(r, "pre-update"), IF snapshot THEN "snapshot" ELSE "update")
  /\ \E found \in SUBSET (Targets \ Always) :
       /\ roots' = [roots EXCEPT ![r] = IF snapshot THEN Always \cup found ELSE {}]
       /\ wanted' = [wanted EXCEPT ![r] = IF snapshot THEN Always \cup found ELSE {}]
  /\ UNCHANGED <<now, store, archive, lost, marks, due, restored>>

\* The agent's handleSnapshotCreate names the snapshot after the second.  tar
\* overwrites an archive of that name; btrfs refuses to.
CanCreate(t) == t \in Btrfs => archive[t][now] = NoArchive

Put(t, a) ==
  /\ archive' = [archive EXCEPT ![t][now] = a]
  /\ lost' = IF archive[t][now] = NoArchive THEN lost ELSE lost \cup {[path |-> t, id |-> now]}

Snapshot(r, t) ==
  /\ pc[r] = "snapshot"
  /\ t \in roots[r]
  /\ CanCreate(t)
  /\ Put(t, r)
  /\ rec' = [rec EXCEPT ![r].targets = @ \cup {[path |-> t, id |-> now]}]
  /\ roots' = [roots EXCEPT ![r] = @ \ {t}]
  /\ UNCHANGED <<now, store, pc, next, marks, history>>

\* btrfs refuses; or a fault: tar fails and leaves what it has written, or
\* the snapshot is made and its answer does not arrive.
SnapshotFails(r, t) ==
  /\ pc[r] = "snapshot"
  /\ t \in roots[r]
  /\ \/ ~CanCreate(t) /\ UNCHANGED <<archive, lost>>
     \/ Faults /\ UNCHANGED <<archive, lost>>
     \/ Faults /\ t \notin Btrfs /\ Put(t, Torn)
     \/ Faults /\ CanCreate(t) /\ Put(t, r)
  /\ Finish(r, "failed")
  /\ UNCHANGED <<now, store, history>>

\* All roots done: the agent runs apt-get, which touches no target.
SnapshotsDone(r) ==
  /\ pc[r] = "snapshot"
  /\ roots[r] = {}
  /\ pc' = [pc EXCEPT ![r] = "update"]
  /\ UNCHANGED <<now, store, archive, lost, next, rec, roots, marks, history>>

Update(r) ==
  /\ pc[r] = "update"
  /\ Finish(r, "ok") \/ (Faults /\ Finish(r, "failed"))
  /\ UNCHANGED <<now, store, archive, lost, history>>

------------------------------------------------------------------------------
(* POST /api/v1/updates/rollback.                                          *)

\* FindByTx: the latest record of the transaction.
Latest(x) == {i \in DOMAIN index : /\ index[i].tx = x
                                   /\ \A j \in DOMAIN index : index[j].tx = x => j <= i}

BeginRollback(r, x) ==
  /\ pc[r] = "idle"
  /\ \E i \in Latest(x) :
       /\ marks' = [marks EXCEPT ![r] = index[i].targets]
       /\ due' = [due EXCEPT ![r] = index[i].targets]
  /\ rec' = [rec EXCEPT ![r] = NewTx(r, "rollback")]
  /\ pc' = [pc EXCEPT ![r] = "restore"]
  /\ UNCHANGED <<now, store, archive, lost, next, roots, wanted, restored>>

\* handleSnapshotRollback extracts the archive over the directory.
Restore(r, m) ==
  /\ pc[r] = "restore"
  /\ m \in marks[r]
  /\ m.path \notin Btrfs
  /\ archive[m.path][m.id] \in Requests
  /\ marks' = [marks EXCEPT ![r] = @ \ {m}]
  /\ restored' = [restored EXCEPT ![r] = @ \cup {m}]
  /\ UNCHANGED <<now, store, archive, lost, pc, next, rec, roots, due, wanted>>

\* Mutant: the rollback goes on with the next target.
RestoreFails_GoesOn(r, m) ==
  /\ pc[r] = "restore"
  /\ m \in marks[r]
  /\ marks' = [marks EXCEPT ![r] = @ \ {m}]
  /\ UNCHANGED <<now, store, archive, lost, pc, next, rec, roots, history>>

\* The archive is gone or torn, or the agent fails.  On btrfs "subvolume
\* delete" refuses the live subvolume, which has the subvolumes of .snapshots
\* and .rollback inside.
RestoreFails(r, m) ==
  /\ pc[r] = "restore"
  /\ m \in marks[r]
  /\ m.path \in Btrfs \/ archive[m.path][m.id] \notin Requests \/ Faults
  /\ Finish(r, "failed")
  /\ UNCHANGED <<now, store, archive, lost, history>>

RollbackDone(r) ==
  /\ pc[r] = "restore"
  /\ marks[r] = {}
  /\ Finish(r, "ok")
  /\ UNCHANGED <<now, store, archive, lost, history>>

------------------------------------------------------------------------------
(* Around the requests.                                                    *)

\* handleSnapshotPrune on the directory of one target.  The newest Keep stay,
\* but not on btrfs: a snapshot's modification time is that of the subvolume
\* it was taken of.  What cannot be removed stays.  The index is not told.
Held(t) == {s \in Seconds : archive[t][s] # NoArchive}
Newest(t) == {s \in Held(t) : Cardinality({u \in Held(t) : u > s}) < Keep}

Prune(t) ==
  \E kept \in SUBSET Held(t) :
    /\ kept = Held(t) \/ Cardinality(kept) >= Keep
    /\ Faults \/ Cardinality(kept) <= Keep
    /\ t \in Btrfs \/ Newest(t) \subseteq kept
    /\ archive' = [archive EXCEPT ![t] = [s \in Seconds |->
                     IF s \in kept THEN archive[t][s] ELSE NoArchive]]
    /\ lost' = lost \cup {[path |-> t, id |-> s] : s \in Held(t) \ kept}
    /\ UNCHANGED <<now, store, flow, history>>

\* nosd stops.  The lock goes with its process; the agent finishes or drops
\* the call it is in, and the next nosd knows nothing of the requests.
Forgotten ==
  /\ read' = [r \in Requests |-> <<>>]
  /\ next' = [r \in Requests |-> "done"]
  /\ rec' = [r \in Requests |-> NewTx(r, "pre-update")]
  /\ roots' = [r \in Requests |-> {}]
  /\ marks' = [r \in Requests |-> {}]

Crash ==
  /\ pc' = [r \in Requests |-> IF pc[r] = "idle" THEN "idle" ELSE
                                IF pc[r] = "done" THEN "done" ELSE "dead"]
  /\ lock' = NoRequest
  /\ Forgotten
  /\ UNCHANGED <<now, index, archive, lost, history>>

Tick ==
  /\ now < MaxSecond
  /\ now' = now + 1
  /\ UNCHANGED <<store, archive, lost, flow, history>>

------------------------------------------------------------------------------
Begin(r) == \/ \E s \in BOOLEAN : BeginApply(r, s)
            \/ \E x \in Requests : BeginRollback(r, x)

Work(r) == \/ AppendReads(r) \/ AppendWrites(r)
           \/ SnapshotsDone(r) \/ Update(r) \/ RollbackDone(r)
           \/ \E t \in Targets : Snapshot(r, t) \/ SnapshotFails(r, t)
           \/ \E m \in Marks : Restore(r, m) \/ RestoreFails(r, m)

Environment == \/ Crash \/ Tick
               \/ \E t \in Targets : Prune(t)

Next == (\E r \in Requests : Begin(r) \/ Work(r)) \/ Environment

Spec == Init /\ [][Next]_vars

\* Calls to the agent and to the file system return, and a request that waits
\* for a lock that stays free gets it: a request appends twice at most, so no
\* other can keep it waiting.  Nothing makes a request arrive, time pass or nosd stop.
FairSpec == Spec /\ \A r \in Requests : WF_vars(Work(r))

------------------------------------------------------------------------------
\* No record is ever lost or changed: the index only grows, at its end,
\* whichever requests append at the same time (WithLock in snapdb.Append).
Extends(new, old) == /\ Len(old) <= Len(new)
                     /\ \A i \in 1..Len(old) : new[i] = old[i]

IndexOnlyGrows == [][Extends(index', index)]_vars

\* For the proofs: the holder of the lock is the one that writes, and what it
\* has read is the index as it still is.
LockInv ==
  /\ \A r \in Requests : pc[r] = "write" <=> lock = r
  /\ \A r \in Requests : pc[r] = "write" => read[r] = index

IInv == TypeOK /\ LockInv

\* An update that asked for snapshots and is recorded as successful names a
\* snapshot of every root it was given: a failed snapshot stops the update.
Paths(x) == {m.path : m \in x.targets}

HasSnapshots(x) == x.reason = "pre-update" /\ x.result = "ok" => Paths(x) = wanted[x.tx]

SuccessHasSnapshots == \A i \in DOMAIN index : HasSnapshots(index[i])

\* A snapshot that an update names is there, complete and its own, but for what a
\* prune removed or another request overwrote in the same second.
HasArchives(x) ==
  x.reason = "pre-update" => \A m \in x.targets : archive[m.path][m.id] = x.tx \/ m \in lost

SuccessHasArchives == \A i \in DOMAIN index : HasArchives(index[i])

\* A rollback recorded as successful has restored every snapshot that its
\* transaction was recorded with when it began: a failed one stops it.
RestoredAll(x) == x.reason = "rollback" /\ x.result = "ok" => restored[x.tx] = due[x.tx]

SuccessRestoredRecorded == \A i \in DOMAIN index : RestoredAll(index[i])

\* Success is recorded only of what was whole.  An update has a snapshot of each
\* root that AllowedRoots answered with (pools that lsblk did not show are not among
\* them), each still there but for those prunes and namesakes take; a rollback has
\* restored all that its transaction was recorded with.
SuccessIsWhole == SuccessHasSnapshots /\ SuccessHasArchives /\ SuccessRestoredRecorded

\* For the proofs: what a request has done and what it has still to do make
\* up its whole work, at each of its steps and when it comes back from Append.
ApplyInv(r, step) ==
  /\ step \in {"snapshot", "update"} => rec[r].reason = "pre-update"
  /\ step = "snapshot" => Paths(rec[r]) = wanted[r] \ roots[r] /\ roots[r] \subseteq wanted[r]
  /\ step = "update" => Paths(rec[r]) = wanted[r]

RestoreInv(r) ==
  pc[r] = "restore" => /\ rec[r].reason = "rollback"
                       /\ marks[r] \subseteq due[r]
                       /\ restored[r] = due[r] \ marks[r]

RequestInv(r) ==
  /\ rec[r].tx = r
  /\ next[r] # "restore"
  /\ pc[r] = "idle" => wanted[r] = {} /\ restored[r] = {}
  /\ ApplyInv(r, pc[r])
  /\ RestoreInv(r)
  /\ pc[r] \in {"lock", "write"} => /\ ApplyInv(r, next[r])
                                    /\ HasSnapshots(rec[r]) /\ RestoredAll(rec[r])

\* No record is there before its request has begun, nor while its rollback is
\* still at work.
OutcomeInv ==
  /\ \A r \in Requests : RequestInv(r) /\ HasArchives(rec[r])
  /\ SuccessHasArchives
  /\ SuccessHasSnapshots /\ SuccessRestoredRecorded
  /\ \A i \in DOMAIN index : pc[index[i].tx] \notin {"idle", "restore"}

\* Every request comes to its end, whoever holds the index lock, unless nosd
\* stops under it.
RequestsEnd == \A r \in Requests : (pc[r] # "idle") ~> (pc[r] \in Ends)
==============================================================================
