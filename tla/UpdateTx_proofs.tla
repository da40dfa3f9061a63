--------------------------- MODULE UpdateTx_proofs ---------------------------
(***************************************************************************)
(* TLAPS proofs about UpdateTx, for any requests, targets, retention and   *)
(* clock: type correctness; the index of transactions never loses or       *)
(* changes a record however many requests append to it at once; and what   *)
(* is recorded as a success has been done in full.                         *)
(***************************************************************************)
EXTENDS UpdateTx, SequenceTheorems, TLAPS

USE UpdateAssumption

LEMMA TypeInit == Init => TypeOK
BY DEF Init, TypeOK, Seconds, Marks, Records, Steps, Ends, NewTx

LEMMA NewTxType ==
  ASSUME NEW r \in Requests, NEW why \in {"pre-update", "rollback"}
  PROVE  NewTx(r, why) \in Records
BY DEF NewTx, Records

\* What a handler that comes to Append does to its own control state.
LEMMA RecordType ==
  ASSUME TypeOK, NEW r \in Requests, NEW x \in Records, NEW n \in Steps \cup Ends,
         Record(r, x, n)
  PROVE  /\ rec' \in [Requests -> Records]
         /\ pc' \in [Requests -> {"idle", "lock", "write"} \cup Steps \cup Ends]
         /\ next' \in [Requests -> Steps \cup Ends]
BY DEF Record, TypeOK

LEMMA FinishType ==
  ASSUME TypeOK, NEW r \in Requests, NEW outcome \in {"ok", "failed"},
         Finish(r, outcome)
  PROVE  /\ rec' \in [Requests -> Records]
         /\ pc' \in [Requests -> {"idle", "lock", "write"} \cup Steps \cup Ends]
         /\ next' \in [Requests -> Steps \cup Ends]
         /\ roots' \in [Requests -> SUBSET Targets]
         /\ marks' \in [Requests -> SUBSET Marks]
<1>1. [rec[r] EXCEPT !.result = outcome] \in Records
  <2>1. rec[r] \in Records
    BY DEF TypeOK
  <2> QED
    BY <2>1 DEF Records
<1>2. "done" \in Steps \cup Ends
  BY DEF Ends
<1>3. roots' \in [Requests -> SUBSET Targets] /\ marks' \in [Requests -> SUBSET Marks]
  BY DEF Finish, TypeOK
<1> QED
  BY <1>1, <1>2, <1>3, RecordType DEF Finish

LEMMA PutType ==
  ASSUME TypeOK, NEW t \in Targets, NEW a \in {Torn} \cup Requests, Put(t, a)
  PROVE  /\ archive' \in [Targets -> [Seconds -> {NoArchive, Torn} \cup Requests]]
         /\ lost' \in SUBSET Marks
<1>1. [path |-> t, id |-> now] \in Marks
  BY DEF Marks, TypeOK
<1>2. archive' \in [Targets -> [Seconds -> {NoArchive, Torn} \cup Requests]]
  BY DEF Put, TypeOK
<1> QED
  BY <1>1, <1>2 DEF Put, TypeOK

LEMMA WorkType ==
  ASSUME TypeOK, NEW r \in Requests, Work(r)
  PROVE  TypeOK'
<1> USE DEF store, flow, history
<1>1. CASE AppendReads(r)
  BY <1>1 DEF AppendReads, TypeOK
<1>2. CASE AppendWrites(r)
  <2>1. Append(read[r], rec[r]) \in Seq(Records)
    BY DEF TypeOK
  <2>2. read' \in [Requests -> Seq(Records)]
    BY <1>2 DEF AppendWrites, TypeOK
  <2> QED
    BY <1>2, <2>1, <2>2 DEF AppendWrites, TypeOK
<1>3. CASE SnapshotsDone(r)
  BY <1>3 DEF SnapshotsDone, TypeOK, Steps
<1>4. CASE Update(r)
  BY <1>4, FinishType DEF Update, TypeOK
<1>5. CASE RollbackDone(r)
  BY <1>5, FinishType DEF RollbackDone, TypeOK
<1>6. ASSUME NEW t \in Targets, Snapshot(r, t)
      PROVE  TypeOK'
  <2>1. [path |-> t, id |-> now] \in Marks
    BY DEF Marks, TypeOK
  <2>2. rec' \in [Requests -> Records]
    <3>1. rec[r] \in Records
      BY DEF TypeOK
    <3>2. [rec[r] EXCEPT !.targets = @ \cup {[path |-> t, id |-> now]}] \in Records
      BY <2>1, <3>1 DEF Records
    <3> QED
      BY <1>6, <3>2 DEF Snapshot, TypeOK
  <2>3. /\ archive' \in [Targets -> [Seconds -> {NoArchive, Torn} \cup Requests]]
        /\ lost' \in SUBSET Marks
    BY <1>6, PutType DEF Snapshot
  <2> QED
    BY <1>6, <2>2, <2>3 DEF Snapshot, TypeOK
<1>7. ASSUME NEW t \in Targets, SnapshotFails(r, t)
      PROVE  TypeOK'
  <2>1. /\ archive' \in [Targets -> [Seconds -> {NoArchive, Torn} \cup Requests]]
        /\ lost' \in SUBSET Marks
    <3>1. CASE UNCHANGED <<archive, lost>>
      BY <3>1 DEF TypeOK
    <3> QED
      BY <1>7, <3>1, PutType DEF SnapshotFails
  <2> QED
    BY <1>7, <2>1, FinishType DEF SnapshotFails, TypeOK
<1>8. ASSUME NEW m \in Marks, Restore(r, m)
      PROVE  TypeOK'
  BY <1>8 DEF Restore, TypeOK
<1>9. ASSUME NEW m \in Marks, RestoreFails(r, m)
      PROVE  TypeOK'
  BY <1>9, FinishType DEF RestoreFails, TypeOK
<1> QED
  BY <1>1, <1>2, <1>3, <1>4, <1>5, <1>6, <1>7, <1>8, <1>9 DEF Work

LEMMA BeginType ==
  ASSUME TypeOK, NEW r \in Requests, Begin(r)
  PROVE  TypeOK'
<1> USE DEF store, flow, history
<1>1. ASSUME NEW s \in BOOLEAN, BeginApply(r, s)
      PROVE  TypeOK'
  <2>1. (IF s THEN "snapshot" ELSE "update") \in Steps \cup Ends
    BY DEF Steps
  <2>2. /\ rec' \in [Requests -> Records]
        /\ pc' \in [Requests -> {"idle", "lock", "write"} \cup Steps \cup Ends]
        /\ next' \in [Requests -> Steps \cup Ends]
    BY <1>1, <2>1, NewTxType, RecordType DEF BeginApply
  <2>3. /\ roots' \in [Requests -> SUBSET Targets]
        /\ wanted' \in [Requests -> SUBSET Targets]
    BY <1>1 DEF BeginApply, TypeOK
  <2> QED
    BY <1>1, <2>2, <2>3 DEF BeginApply, TypeOK
<1>2. ASSUME NEW x \in Requests, BeginRollback(r, x)
      PROVE  TypeOK'
  <2>1. PICK i \in Latest(x) : /\ marks' = [marks EXCEPT ![r] = index[i].targets]
                               /\ due' = [due EXCEPT ![r] = index[i].targets]
    BY <1>2 DEF BeginRollback
  <2>2. index[i] \in Records
    BY ElementOfSeq DEF Latest, TypeOK
  <2>3. index[i].targets \in SUBSET Marks
    BY <2>2 DEF Records
  <2>4. NewTx(r, "rollback") \in Records
    BY NewTxType
  <2> QED
    BY <1>2, <2>1, <2>3, <2>4 DEF BeginRollback, TypeOK, Steps
<1> QED
  BY <1>1, <1>2 DEF Begin

LEMMA TypeStep == TypeOK /\ [Next]_vars => TypeOK'
<1> SUFFICES ASSUME TypeOK, [Next]_vars
             PROVE  TypeOK'
  OBVIOUS
<1> USE DEF store, flow, history
<1>1. ASSUME NEW t \in Targets, Prune(t)
      PROVE  TypeOK'
  <2>1. archive' \in [Targets -> [Seconds -> {NoArchive, Torn} \cup Requests]]
    BY <1>1 DEF Prune, TypeOK
  <2>2. lost' \in SUBSET Marks
    BY <1>1 DEF Prune, TypeOK, Held, Marks
  <2> QED
    BY <1>1, <2>1, <2>2 DEF Prune, TypeOK
<1>2. CASE Crash
  <2>1. \A r \in Requests : NewTx(r, "pre-update") \in Records
    BY NewTxType
  <2> QED
    BY <1>2, <2>1 DEF Crash, Forgotten, TypeOK, Ends
<1>3. CASE Tick
  BY <1>3 DEF Tick, TypeOK, Seconds
<1>4. CASE UNCHANGED vars
  BY <1>4 DEF vars, TypeOK
<1> QED
  BY <1>1, <1>2, <1>3, <1>4, WorkType, BeginType DEF Next, Environment

\* Requests, index, snapshots and lock stay well typed, whatever fails and
\* whenever nosd stops.
THEOREM TypeCorrect == Spec => []TypeOK
BY TypeInit, TypeStep, PTL DEF Spec

(***************************************************************************)
(* The lock file of the index.                                             *)
(***************************************************************************)
LEMMA LockInit == Init => LockInv
BY DEF Init, LockInv

\* A step that keeps the index, the lock and what was read, and moves no
\* request to or from "write".
Aloof == /\ UNCHANGED <<index, lock, read>>
         /\ \A q \in Requests : pc'[q] = "write" <=> pc[q] = "write"

LEMMA AloofLock == LockInv /\ Aloof => LockInv'
BY DEF LockInv, Aloof

LEMMA WorkIsAloof ==
  ASSUME TypeOK, NEW r \in Requests, Work(r), ~AppendReads(r), ~AppendWrites(r)
  PROVE  Aloof
BY DEF Work, SnapshotsDone, Update, RollbackDone, Snapshot, SnapshotFails, Restore,
       RestoreFails, Finish, Record, Aloof, store, TypeOK

LEMMA BeginIsAloof ==
  ASSUME TypeOK, NEW r \in Requests, Begin(r)
  PROVE  Aloof
BY DEF Begin, BeginApply, BeginRollback, Record, Aloof, store, TypeOK

LEMMA LockStep == IInv /\ [Next]_vars => LockInv'
<1> SUFFICES ASSUME TypeOK, LockInv, [Next]_vars
             PROVE  LockInv'
  BY DEF IInv
<1>1. ASSUME NEW r \in Requests, AppendReads(r)
      PROVE  LockInv'
  BY <1>1 DEF AppendReads, LockInv, TypeOK
<1>2. ASSUME NEW r \in Requests, AppendWrites(r)
      PROVE  LockInv'
  \* r held the lock, so nobody else is writing, and r no longer is
  <2>1. pc'[r] # "write"
    BY <1>2 DEF AppendWrites, TypeOK, Steps, Ends
  <2>2. \A q \in Requests : pc'[q] # "write"
    BY <1>2, <2>1 DEF AppendWrites, LockInv, TypeOK
  <2> QED
    BY <1>2, <2>2 DEF AppendWrites, LockInv
<1>3. CASE Crash
  BY <1>3 DEF Crash, LockInv
<1>4. CASE Tick \/ \E t \in Targets : Prune(t)
  BY <1>4, AloofLock DEF Tick, Prune, Aloof, store, flow
<1>5. CASE UNCHANGED vars
  BY <1>5, AloofLock DEF vars, Aloof, store, flow
<1> QED
  BY <1>1, <1>2, <1>3, <1>4, <1>5, WorkIsAloof, BeginIsAloof, AloofLock
     DEF Next, Environment

LEMMA Invariance == Spec => []IInv
<1>1. Init => IInv
  BY TypeInit, LockInit DEF IInv
<1>2. IInv /\ [Next]_vars => IInv'
  BY TypeStep, LockStep DEF IInv
<1> QED
  BY <1>1, <1>2, PTL DEF Spec

LEMMA SameExtends == ASSUME TypeOK, index' = index PROVE Extends(index', index)
BY LenProperties DEF Extends, TypeOK

LEMMA GrowStep == IInv /\ [Next]_vars => [Extends(index', index)]_vars
<1> SUFFICES ASSUME TypeOK, LockInv, [Next]_vars
             PROVE  Extends(index', index)
  BY DEF IInv
<1>1. ASSUME NEW r \in Requests, AppendWrites(r)
      PROVE  Extends(index', index)
  <2>1. CASE index' = index
    BY <2>1, SameExtends
  <2>2. CASE index' = Append(read[r], rec[r])
    <3>1. read[r] = index
      BY <1>1 DEF AppendWrites, LockInv
    <3> QED
      BY <2>2, <3>1, AppendProperties DEF Extends, TypeOK
  <2> QED
    BY <1>1, <2>1, <2>2 DEF AppendWrites
<1>2. ASSUME NEW r \in Requests, AppendReads(r) PROVE index' = index
  BY <1>2 DEF AppendReads
<1>3. Environment \/ UNCHANGED vars => index' = index
  BY DEF Environment, Crash, Tick, Prune, vars, store
<1> QED
  BY <1>1, <1>2, <1>3, SameExtends, WorkIsAloof, BeginIsAloof DEF Next, Aloof

\* No update transaction is ever lost from the index or changed in it: the
\* lock around reading and writing back suffices, for any number of requests
\* and through crashes.
THEOREM IndexGrows == Spec => IndexOnlyGrows
BY Invariance, GrowStep, PTL DEF Spec, IndexOnlyGrows

(***************************************************************************)
(* The outcomes that are recorded.                                         *)
(***************************************************************************)
Step(r) == Begin(r) \/ Work(r)

LEMMA OutcomeInit == Init => OutcomeInv
BY DEF Init, OutcomeInv, RequestInv, ApplyInv, RestoreInv, SuccessHasSnapshots,
       SuccessHasArchives, HasArchives, SuccessRestoredRecorded, NewTx

\* A request changes nothing of another one.
LEMMA OthersKeep ==
  ASSUME TypeOK, NEW r \in Requests, Step(r), NEW q \in Requests \ {r}
  PROVE  /\ pc'[q] = pc[q] /\ next'[q] = next[q] /\ rec'[q] = rec[q]
         /\ roots'[q] = roots[q] /\ marks'[q] = marks[q]
         /\ due'[q] = due[q] /\ restored'[q] = restored[q]
         /\ wanted'[q] = wanted[q]
<1> USE DEF TypeOK, flow, history
<1>1. CASE Begin(r)
  BY <1>1 DEF Begin, BeginApply, BeginRollback, Record
<1>2. CASE AppendReads(r) \/ AppendWrites(r) \/ SnapshotsDone(r)
  BY <1>2 DEF AppendReads, AppendWrites, SnapshotsDone
<1>3. CASE Update(r) \/ RollbackDone(r)
  BY <1>3 DEF Update, RollbackDone, Finish, Record
<1>4. CASE \E t \in Targets : Snapshot(r, t) \/ SnapshotFails(r, t)
  BY <1>4 DEF Snapshot, SnapshotFails, Finish, Record
<1>5. CASE \E m \in Marks : Restore(r, m) \/ RestoreFails(r, m)
  BY <1>5 DEF Restore, RestoreFails, Finish, Record
<1> QED
  BY <1>1, <1>2, <1>3, <1>4, <1>5 DEF Step, Work

LEMMA OthersInv ==
  ASSUME TypeOK, NEW r \in Requests, Step(r), NEW q \in Requests \ {r}, RequestInv(q)
  PROVE  RequestInv(q)'
BY OthersKeep DEF RequestInv, ApplyInv, RestoreInv, HasSnapshots, RestoredAll

\* A record with its outcome is no worse once the request is at Append.
LEMMA FinishInv ==
  ASSUME TypeOK, NEW r \in Requests, RequestInv(r),
         NEW outcome \in {"ok", "failed"}, Finish(r, outcome),
         UNCHANGED history,
         outcome = "ok" =>
           /\ rec[r].reason = "pre-update" => Paths(rec[r]) = wanted[r]
           /\ rec[r].reason = "rollback" => restored[r] = due[r]
  PROVE  RequestInv(r)'
<1> DEFINE x == [rec[r] EXCEPT !.result = outcome]
<1>1. /\ x.tx = rec[r].tx /\ x.reason = rec[r].reason
      /\ x.targets = rec[r].targets /\ x.result = outcome
  <2>1. rec[r] \in Records
    BY DEF TypeOK
  <2> QED
    BY <2>1 DEF Records
<1>2. rec'[r] = x /\ pc'[r] = "lock" /\ next'[r] = "done"
  BY DEF Finish, Record, TypeOK
<1> HIDE DEF x
<1>3. x.tx = r
  BY <1>1 DEF RequestInv
<1>4. Paths(rec[r])' = Paths(rec[r])
  BY <1>1, <1>2 DEF Paths
<1>5. HasSnapshots(rec[r])' /\ RestoredAll(rec[r])'
  BY <1>1, <1>2, <1>3, <1>4 DEF HasSnapshots, RestoredAll, history
<1> QED
  BY <1>2, <1>3, <1>5 DEF RequestInv, ApplyInv, RestoreInv

LEMMA SnapshotInv ==
  ASSUME TypeOK, NEW r \in Requests, RequestInv(r), NEW t \in Targets, Snapshot(r, t)
  PROVE  RequestInv(r)'
<1> DEFINE m == [path |-> t, id |-> now]
           x == [rec[r] EXCEPT !.targets = @ \cup {m}]
<1>1. /\ x.tx = rec[r].tx /\ x.reason = rec[r].reason
      /\ x.targets = rec[r].targets \cup {m}
  <2>1. rec[r] \in Records
    BY DEF TypeOK
  <2> QED
    BY <2>1 DEF Records
<1>2. rec'[r] = x
  BY DEF Snapshot, TypeOK
<1>3. roots'[r] = roots[r] \ {t}
  BY DEF Snapshot, TypeOK
<1>4. m.path = t
  OBVIOUS
<1> HIDE DEF x, m
<1>5. Paths(rec[r])' = Paths(rec[r]) \cup {t}
  BY <1>1, <1>2, <1>4 DEF Paths
<1>6. t \in roots[r] /\ wanted' = wanted
  BY DEF Snapshot, history
<1>7. pc[r] = "snapshot" /\ pc' = pc /\ next' = next
  BY DEF Snapshot
<1>8. Paths(rec[r])' = wanted'[r] \ roots'[r] /\ roots'[r] \subseteq wanted'[r]
  BY <1>3, <1>5, <1>6, <1>7 DEF RequestInv, ApplyInv
<1> QED
  BY <1>1, <1>2, <1>7, <1>8 DEF RequestInv, ApplyInv, RestoreInv

LEMMA RestoreKeepsInv ==
  ASSUME TypeOK, NEW r \in Requests, RequestInv(r), NEW m \in Marks, Restore(r, m)
  PROVE  RequestInv(r)'
<1>1. /\ pc[r] = "restore" /\ pc' = pc /\ next' = next /\ rec' = rec
      /\ m \in marks[r] /\ due' = due
  BY DEF Restore
<1>2. marks'[r] = marks[r] \ {m} /\ restored'[r] = restored[r] \cup {m}
  BY DEF Restore, TypeOK
<1>3. RestoreInv(r)'
  BY <1>1, <1>2 DEF RequestInv, RestoreInv
<1> QED
  BY <1>1, <1>3 DEF RequestInv, ApplyInv

LEMMA BeginInv ==
  ASSUME TypeOK, NEW r \in Requests, RequestInv(r), Begin(r)
  PROVE  RequestInv(r)'
<1>1. ASSUME NEW s \in BOOLEAN, BeginApply(r, s)
      PROVE  RequestInv(r)'
  <2>1. /\ rec'[r] = NewTx(r, "pre-update") /\ pc'[r] = "lock"
        /\ next'[r] = IF s THEN "snapshot" ELSE "update"
        /\ wanted'[r] = roots'[r] /\ (~s => wanted'[r] = {})
    BY <1>1 DEF BeginApply, Record, TypeOK
  <2>2. /\ rec'[r].tx = r /\ rec'[r].reason = "pre-update" /\ rec'[r].result = "open"
        /\ Paths(rec[r])' = {}
    BY <2>1 DEF NewTx, Paths
  <2>3. CASE s
    BY <2>1, <2>2, <2>3 DEF RequestInv, ApplyInv, RestoreInv, HasSnapshots, RestoredAll
  <2>4. CASE ~s
    BY <1>1, <2>1, <2>2, <2>4
       DEF BeginApply, RequestInv, ApplyInv, RestoreInv, HasSnapshots, RestoredAll
  <2> QED
    BY <2>3, <2>4
<1>2. ASSUME NEW x \in Requests, BeginRollback(r, x)
      PROVE  RequestInv(r)'
  <2>1. /\ rec'[r] = NewTx(r, "rollback") /\ pc'[r] = "restore" /\ next' = next
        /\ marks'[r] = due'[r]
    BY <1>2 DEF BeginRollback, TypeOK
  <2>2. restored'[r] = {}
    BY <1>2 DEF BeginRollback, RequestInv
  <2> QED
    BY <2>1, <2>2 DEF RequestInv, ApplyInv, RestoreInv, NewTx
<1> QED
  BY <1>1, <1>2 DEF Begin

LEMMA WorkInv ==
  ASSUME TypeOK, NEW r \in Requests, RequestInv(r), Work(r)
  PROVE  RequestInv(r)'
<1>1. CASE AppendReads(r)
  BY <1>1 DEF AppendReads, TypeOK, RequestInv, ApplyInv, RestoreInv, HasSnapshots,
              RestoredAll, history
<1>2. CASE AppendWrites(r)
  <2>1. /\ pc[r] = "write" /\ pc'[r] = next[r] /\ next' = next /\ rec' = rec
        /\ roots' = roots /\ UNCHANGED history
    BY <1>2 DEF AppendWrites, TypeOK
  <2>2. next[r] \in {"snapshot", "update", "done", "dead"}
    BY DEF RequestInv, TypeOK, Steps, Ends
  <2> QED
    BY <2>1, <2>2 DEF RequestInv, ApplyInv, RestoreInv, history
<1>3. CASE SnapshotsDone(r)
  <2>1. /\ pc[r] = "snapshot" /\ pc'[r] = "update" /\ next' = next /\ rec' = rec
        /\ roots[r] = {} /\ roots' = roots /\ UNCHANGED history
    BY <1>3 DEF SnapshotsDone, TypeOK
  <2>2. Paths(rec[r])' = Paths(rec[r]) /\ wanted' = wanted
    BY <2>1 DEF Paths, history
  <2>3. Paths(rec[r]) = wanted[r] /\ rec[r].reason = "pre-update"
    BY <2>1 DEF RequestInv, ApplyInv
  <2>4. ApplyInv(r, "update")'
    BY <2>1, <2>2, <2>3 DEF ApplyInv
  <2> QED
    BY <2>1, <2>4 DEF RequestInv, RestoreInv
<1>4. CASE Update(r)
  BY <1>4, FinishInv DEF Update, RequestInv, ApplyInv
<1>5. CASE RollbackDone(r)
  BY <1>5, FinishInv DEF RollbackDone, RequestInv, RestoreInv
<1>6. ASSUME NEW t \in Targets, SnapshotFails(r, t)
      PROVE  RequestInv(r)'
  BY <1>6, FinishInv DEF SnapshotFails
<1>7. ASSUME NEW m \in Marks, RestoreFails(r, m)
      PROVE  RequestInv(r)'
  BY <1>7, FinishInv DEF RestoreFails
<1> QED
  BY <1>1, <1>2, <1>3, <1>4, <1>5, <1>6, <1>7, SnapshotInv, RestoreKeepsInv DEF Work

\* What is said of a record x while its request runs, or after its end.
Settled(x) == HasSnapshots(x) /\ RestoredAll(x) /\ HasArchives(x) /\ pc[x.tx] \notin {"idle", "restore"}

LEMMA SettledIndex ==
  OutcomeInv <=> /\ \A r \in Requests : RequestInv(r) /\ HasArchives(rec[r])
                 /\ \A i \in DOMAIN index : Settled(index[i])
BY DEF OutcomeInv, Settled, SuccessHasSnapshots, SuccessHasArchives, SuccessRestoredRecorded

\* Snapshots are made and pruned: one that is replaced is marked as lost.
LEMMA PutKeeps ==
  ASSUME TypeOK, NEW t \in Targets, NEW a \in {Torn} \cup Requests, Put(t, a),
         NEW m \in Marks, m \notin lost', archive[m.path][m.id] # NoArchive
  PROVE  m \notin lost /\ archive'[m.path][m.id] = archive[m.path][m.id]
<1>1. m = [path |-> m.path, id |-> m.id] /\ m.path \in Targets /\ m.id \in Seconds
  BY DEF Marks
<1>2. m # [path |-> t, id |-> now]
  BY <1>1 DEF Put
<1> QED
  BY <1>1, <1>2 DEF Put, TypeOK

LEMMA PruneKeeps ==
  ASSUME TypeOK, NEW t \in Targets, Prune(t),
         NEW m \in Marks, m \notin lost', archive[m.path][m.id] # NoArchive
  PROVE  m \notin lost /\ archive'[m.path][m.id] = archive[m.path][m.id]
<1>1. m = [path |-> m.path, id |-> m.id] /\ m.path \in Targets /\ m.id \in Seconds
  BY DEF Marks
<1>2. PICK kept \in SUBSET Held(t) :
        /\ archive' = [archive EXCEPT ![t] = [s \in Seconds |->
                         IF s \in kept THEN archive[t][s] ELSE NoArchive]]
        /\ lost' = lost \cup {[path |-> t, id |-> s] : s \in Held(t) \ kept}
  BY DEF Prune
<1>3. CASE m.path # t
  BY <1>1, <1>2, <1>3 DEF TypeOK
<1>4. CASE m.path = t
  <2>1. m.id \in Held(t)
    BY <1>1, <1>4 DEF Held
  <2>2. m.id \in kept
    BY <1>1, <1>2, <1>4, <2>1
  <2> QED
    BY <1>1, <1>2, <1>4, <2>2 DEF TypeOK
<1> QED
  BY <1>3, <1>4

LEMMA ArchivesKept ==
  ASSUME TypeOK, [Next]_vars, NEW m \in Marks, m \notin lost', archive[m.path][m.id] # NoArchive
  PROVE  m \notin lost /\ archive'[m.path][m.id] = archive[m.path][m.id]
<1>1. CASE UNCHANGED <<archive, lost>>
  BY <1>1
<1>2. ASSUME NEW t \in Targets, NEW a \in {Torn} \cup Requests, Put(t, a)
      PROVE  m \notin lost /\ archive'[m.path][m.id] = archive[m.path][m.id]
  BY <1>2, PutKeeps
<1>3. ASSUME NEW r \in Requests, NEW t \in Targets, Snapshot(r, t) \/ SnapshotFails(r, t)
      PROVE  UNCHANGED <<archive, lost>> \/ \E a \in {Torn} \cup Requests : Put(t, a)
  BY <1>3 DEF Snapshot, SnapshotFails
<1>4. ASSUME NEW r \in Requests, Begin(r)
      PROVE  UNCHANGED <<archive, lost>>
  BY <1>4 DEF Begin, BeginApply, BeginRollback
<1>5. ASSUME NEW r \in Requests, Work(r), \A t \in Targets : ~Snapshot(r, t) /\ ~SnapshotFails(r, t)
      PROVE  UNCHANGED <<archive, lost>>
  BY <1>5 DEF Work, AppendReads, AppendWrites, SnapshotsDone, Update, RollbackDone, Restore, RestoreFails
<1>6. Crash \/ Tick \/ UNCHANGED vars => UNCHANGED <<archive, lost>>
  BY DEF Crash, Tick, vars
<1> QED
  BY <1>1, <1>2, <1>3, <1>4, <1>5, <1>6, PruneKeeps DEF Next, Environment

LEMMA StaysArchived ==
  ASSUME TypeOK, [Next]_vars, NEW x \in Records, HasArchives(x)
  PROVE  HasArchives(x)'
<1> SUFFICES ASSUME x.reason = "pre-update", NEW m \in x.targets, m \notin lost'
             PROVE  archive'[m.path][m.id] = x.tx
  BY DEF HasArchives
<1>1. m \in Marks /\ x.tx \in Requests
  BY DEF Records
<1>2. m \in lost \/ archive[m.path][m.id] = x.tx
  BY DEF HasArchives
<1>3. x.tx # NoArchive
  BY <1>1
<1>4. CASE m \in lost
  <2>1. lost \subseteq lost'
    BY DEF Next, Begin, BeginApply, BeginRollback, Work, AppendReads, AppendWrites, SnapshotsDone,
       Update, RollbackDone, Snapshot, SnapshotFails, Put, Restore, RestoreFails, Environment,
       Crash, Tick, Prune, vars
  <2> QED
    BY <1>4, <2>1
<1> QED
  BY <1>1, <1>2, <1>3, <1>4, ArchivesKept

\* A request's own record names what it has made.
LEMMA RecArchived ==
  ASSUME TypeOK, NEW r \in Requests, Step(r), RequestInv(r), HasArchives(rec[r])
  PROVE  HasArchives(rec[r])'
<1>1. rec[r] \in Records
  BY DEF TypeOK
<1>2. [Next]_vars
  BY DEF Step, Next
<1>3. CASE rec'[r] = rec[r]
  BY <1>1, <1>2, <1>3, StaysArchived DEF HasArchives
<1>4. CASE Begin(r)
  BY <1>4 DEF Begin, BeginApply, BeginRollback, Record, NewTx, HasArchives, TypeOK
<1>5. ASSUME NEW t \in Targets, Snapshot(r, t)
      PROVE  HasArchives(rec[r])'
  <2> DEFINE m == [path |-> t, id |-> now]
  <2>1. /\ rec'[r].tx = rec[r].tx /\ rec'[r].reason = rec[r].reason
        /\ rec'[r].targets = rec[r].targets \cup {m}
    BY <1>1, <1>5 DEF Snapshot, TypeOK, Records
  <2>2. archive'[m.path][m.id] = r /\ rec[r].tx = r
    BY <1>5 DEF Snapshot, Put, TypeOK, RequestInv
  <2>3. HasArchives(rec[r])' <=> (rec[r].reason = "pre-update" =>
          \A n \in rec[r].targets \cup {m} : archive'[n.path][n.id] = rec[r].tx \/ n \in lost')
    BY <2>1 DEF HasArchives
  <2>4. rec[r].reason = "pre-update" =>
          \A n \in rec[r].targets : archive'[n.path][n.id] = rec[r].tx \/ n \in lost'
    <3> DEFINE x == rec[r]
    <3>1. PICK y : y = x
      OBVIOUS
    <3>2. HasArchives(y)'
      BY <1>1, <1>2, <3>1, StaysArchived
    <3> QED
      BY <3>1, <3>2 DEF HasArchives
  <2> QED
    BY <2>2, <2>3, <2>4
<1>6. ASSUME NEW outcome, Finish(r, outcome)
      PROVE  HasArchives(rec[r])'
  <2>1. /\ rec'[r].tx = rec[r].tx /\ rec'[r].reason = rec[r].reason
        /\ rec'[r].targets = rec[r].targets
    BY <1>1, <1>6 DEF Finish, Record, TypeOK, Records
  <2>2. PICK y \in Records : y = rec[r]
    BY <1>1
  <2>3. HasArchives(y)'
    BY <1>2, <2>2, StaysArchived
  <2> QED
    BY <2>1, <2>2, <2>3 DEF HasArchives
<1> QED
  BY <1>3, <1>4, <1>5, <1>6 DEF Step, Work, AppendReads, AppendWrites, SnapshotsDone, Update,
     RollbackDone, SnapshotFails, Restore, RestoreFails

\* A request that has a record in the index no longer changes what it asked
\* for, and no longer restores anything.
LEMMA StaysSettled ==
  ASSUME TypeOK, NEW r \in Requests, RequestInv(r), Step(r),
         NEW x \in Records, Settled(x)
  PROVE  Settled(x)'
<1>1. x.tx \in Requests /\ (HasArchives(x) => HasArchives(x)')
  BY StaysArchived DEF Records, Step, Next
<1>2. CASE x.tx # r
  BY <1>1, <1>2, OthersKeep DEF Settled, HasSnapshots, RestoredAll
<1>3. CASE x.tx = r
  <2>1. pc[r] \notin {"idle", "restore"}
    BY <1>3 DEF Settled
  <2>2. UNCHANGED history
    BY <2>1 DEF Step, Begin, Work, BeginApply, BeginRollback, AppendReads, AppendWrites,
                SnapshotsDone, Update, RollbackDone, Snapshot, SnapshotFails, Restore,
                RestoreFails
  <2>3. pc'[r] \notin {"idle", "restore"}
    <3>1. next[r] \notin {"idle", "restore"}
      BY DEF RequestInv, TypeOK, Steps, Ends
    <3> QED
      BY <2>1, <3>1 DEF TypeOK, Step, Begin, Work, BeginApply, BeginRollback,
         AppendReads, AppendWrites, SnapshotsDone, Update, RollbackDone, Snapshot,
         SnapshotFails, Restore, RestoreFails, Finish, Record
  <2> QED
    BY <1>1, <1>3, <2>2, <2>3 DEF Settled, HasSnapshots, RestoredAll, history
<1> QED
  BY <1>2, <1>3

LEMMA IndexStep ==
  ASSUME TypeOK, LockInv, OutcomeInv, NEW r \in Requests, Step(r),
         NEW i \in DOMAIN index'
  PROVE  Settled(index[i])'
<1> USE SettledIndex
<1>1. ASSUME i \in DOMAIN index, index'[i] = index[i]
      PROVE  Settled(index[i])'
  <2>1. PICK x \in Records : x = index[i]
    BY <1>1, ElementOfSeq DEF TypeOK
  <2>2. Settled(x)'
    BY <1>1, <2>1, StaysSettled
  <2> QED
    BY <1>1, <2>1, <2>2
<1>2. CASE index' = index
  BY <1>1, <1>2
<1>3. CASE AppendWrites(r) /\ index' = Append(index, rec[r])
  <2>1. PICK x \in Records : x = rec[r]
    BY DEF TypeOK
  <2>2. Settled(x)'
    <3>1. x.tx = r /\ HasSnapshots(x) /\ RestoredAll(x)
      BY <1>3, <2>1 DEF AppendWrites, RequestInv
    <3>2. pc'[r] = next[r] /\ next[r] \notin {"idle", "restore"} /\ UNCHANGED history
      BY <1>3 DEF AppendWrites, RequestInv, TypeOK, Steps, Ends
    <3>3. HasArchives(x)'
      BY <2>1, StaysArchived DEF Step, Next
    <3> QED
      BY <3>1, <3>2, <3>3 DEF Settled, HasSnapshots, RestoredAll, history
  <2>3. index \in Seq(Records) /\ rec[r] \in Records
    BY DEF TypeOK
  <2>4. CASE i = Len(index) + 1
    BY <1>3, <2>1, <2>2, <2>3, <2>4, AppendProperties
  <2>5. CASE i # Len(index) + 1
    <3>1. i \in DOMAIN index /\ index'[i] = index[i]
      BY <1>3, <2>3, <2>5, AppendProperties, LenProperties
    <3> QED
      BY <1>1, <3>1
  <2> QED
    BY <2>4, <2>5
<1>4. index' = index \/ (AppendWrites(r) /\ index' = Append(index, rec[r]))
  <2>1. CASE AppendWrites(r)
    BY <2>1 DEF AppendWrites, LockInv
  <2>2. CASE AppendReads(r)
    BY <2>2 DEF AppendReads
  <2> QED
    BY <2>1, <2>2, WorkIsAloof, BeginIsAloof DEF Step, Aloof
<1> QED
  BY <1>2, <1>3, <1>4

LEMMA OutcomeStep == IInv /\ OutcomeInv /\ [Next]_vars => OutcomeInv'
<1> SUFFICES ASSUME TypeOK, LockInv, OutcomeInv, [Next]_vars
             PROVE  OutcomeInv'
  BY DEF IInv
<1>1. ASSUME NEW r \in Requests, Step(r)
      PROVE  OutcomeInv'
  <2>1. ASSUME NEW q \in Requests
        PROVE  RequestInv(q)'
    BY <1>1, OthersInv, BeginInv, WorkInv DEF OutcomeInv, Step
  <2>3. ASSUME NEW q \in Requests
        PROVE  HasArchives(rec[q])'
    <3>1. CASE q = r
      BY <1>1, <3>1, RecArchived DEF OutcomeInv
    <3>2. CASE q # r
      <4>1. PICK y \in Records : y = rec[q]
        BY DEF TypeOK
      <4>2. HasArchives(y)'
        BY <1>1, <4>1, StaysArchived DEF OutcomeInv, Step, Next
      <4> QED
        BY <1>1, <3>2, <4>1, <4>2, OthersKeep
    <3> QED
      BY <3>1, <3>2
  <2>2. ASSUME NEW i \in DOMAIN index'
        PROVE  Settled(index[i])'
    BY <1>1, <2>2, IndexStep
  <2> QED
    BY <2>1, <2>2, <2>3 DEF OutcomeInv, Settled, SuccessHasSnapshots, SuccessHasArchives,
       SuccessRestoredRecorded
<1>2. CASE Crash
  \* what was idle or over stays so, and every other request is dead
  <2>1. \A q \in Requests : /\ pc'[q] \in {"idle", "done", "dead"}
                            /\ pc'[q] = "idle" <=> pc[q] = "idle"
    BY <1>2 DEF Crash, TypeOK
  <2>2. UNCHANGED <<index, archive, lost, history>>
    BY <1>2 DEF Crash
  <2>6. \A q \in Requests : rec'[q] = NewTx(q, "pre-update") /\ next'[q] = "done"
    BY <1>2 DEF Crash, Forgotten
  <2>3. ASSUME NEW q \in Requests
        PROVE  RequestInv(q)' /\ HasArchives(rec[q])'
    <3>4. rec'[q] = NewTx(q, "pre-update") /\ next'[q] = "done"
      BY <2>6
    <3>1. rec'[q].tx = q /\ rec'[q].targets = {} /\ next'[q] = "done"
      BY <3>4 DEF NewTx
    <3>2. pc'[q] = "idle" => wanted'[q] = {} /\ restored'[q] = {}
      BY <2>1, <2>2 DEF OutcomeInv, RequestInv, history
    <3> QED
      BY <2>1, <3>1, <3>2 DEF RequestInv, ApplyInv, RestoreInv, HasArchives
  <2>4. SuccessHasSnapshots' /\ SuccessHasArchives' /\ SuccessRestoredRecorded'
    BY <2>2 DEF OutcomeInv, SuccessHasSnapshots, SuccessHasArchives, SuccessRestoredRecorded,
                HasSnapshots, HasArchives, RestoredAll, Paths, history
  <2>5. ASSUME NEW i \in DOMAIN index'
        PROVE  pc'[index'[i].tx] \notin {"idle", "restore"}
    <3>1. index[i] \in Records /\ index' = index
      BY <2>2, <2>5, ElementOfSeq DEF TypeOK
    <3>2. index[i].tx \in Requests
      BY <3>1 DEF Records
    <3> QED
      BY <2>1, <2>5, <3>1, <3>2 DEF OutcomeInv
  <2> QED
    BY <2>3, <2>4, <2>5 DEF OutcomeInv
<1>3. ASSUME UNCHANGED <<store, flow, history>>, [Next]_vars
      PROVE  OutcomeInv'
  <2>1. ASSUME NEW x \in Records, HasArchives(x)
        PROVE  HasArchives(x)'
    BY <1>3, <2>1, StaysArchived
  <2>2. \A r \in Requests : RequestInv(r)'
    BY <1>3 DEF OutcomeInv, RequestInv, ApplyInv, RestoreInv, HasSnapshots, RestoredAll, Paths,
                store, flow, history
  <2>3. \A r \in Requests : HasArchives(rec[r])'
    <3> TAKE r \in Requests
    <3>1. PICK y \in Records : y = rec[r]
      BY DEF TypeOK
    <3> QED
      BY <1>3, <2>1, <3>1 DEF OutcomeInv, flow
  <2>4. SuccessHasArchives'
    <3> SUFFICES ASSUME NEW i \in DOMAIN index PROVE HasArchives(index[i])'
      BY <1>3 DEF SuccessHasArchives, store
    <3>1. PICK y \in Records : y = index[i]
      BY ElementOfSeq DEF TypeOK
    <3> QED
      BY <1>3, <2>1, <3>1 DEF OutcomeInv, SuccessHasArchives, store
  <2>5. SuccessHasSnapshots' /\ SuccessRestoredRecorded'
    BY <1>3 DEF OutcomeInv, SuccessHasSnapshots, SuccessRestoredRecorded, HasSnapshots,
                RestoredAll, Paths, store, history
  <2> QED
    BY <1>3, <2>2, <2>3, <2>4, <2>5 DEF OutcomeInv, store, flow
<1> QED
  BY <1>1, <1>2, <1>3 DEF Next, Step, Environment, Tick, Prune, vars

LEMMA Outcomes == Spec => []OutcomeInv
BY OutcomeInit, OutcomeStep, Invariance, PTL DEF Spec

\* An update recorded as successful that asked for snapshots is recorded with one of
\* every root it was given, still there as it was made unless pruned or overwritten,
\* and a rollback has restored every snapshot that its transaction was recorded with,
\* whatever failed or ran meanwhile.
THEOREM SuccessesAreWhole == Spec => []SuccessIsWhole
<1>1. OutcomeInv => SuccessIsWhole
  BY DEF OutcomeInv, SuccessIsWhole
<1> QED
  BY <1>1, Outcomes, PTL
==============================================================================
