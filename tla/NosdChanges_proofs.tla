-------------------------- MODULE NosdChanges_proofs --------------------------
(***************************************************************************)
(* TLAPS proofs about the changes that nosd makes to the host on request:  *)
(* the firewall (FirewallManager) and the pools (PoolTx), for any plans,   *)
(* timers, transactions and pools.                                         *)
(*                                                                         *)
(* Of the firewall: type correctness; that what waits for confirmation can *)
(* be revoked; and that the manager implements CommitConfirm.  Of pools:   *)
(* type correctness; one plan of a key at work; and transaction files that *)
(* never go back, never run ahead, and say OK only of a whole plan.        *)
(***************************************************************************)
EXTENDS FirewallManager, PoolTx, TLAPS

\* Stopping a timer leaves a state of the timers.
LEMMA StopLemma ==
  ASSUME NEW tm \in [Timers -> {"idle", "armed", "fired"}], NEW t
  PROVE  Stop(tm, t) \in [Timers -> {"idle", "armed", "fired"}]
  BY DEF Stop

\* rollbackToBackup fails, and leaves the status, the timers and the rules as
\* the caller set them; or it ends pending_confirm and puts the backup in force.
LEMMA RollbackLemma ==
  ASSUME NEW k, NEW b, NEW s, NEW tm, NEW o, RollbackToBackup(k, b, s, tm, o)
  PROVE  \/ /\ status' = s /\ timer' = tm /\ tracked' = tracked
            /\ kernel' = k /\ outcome' = o
         \/ /\ status' \in {"none", "active"} /\ timer' = Stop(tm, tracked)
            /\ tracked' = NoTimer /\ b # NoBackup
            /\ kernel' = k \cup b /\ outcome' = "settled"
  BY DEF RollbackToBackup

\* What it leaves keeps its type.
LEMMA RollbackType ==
  ASSUME NEW k \in SUBSET Batches,
         NEW b \in {NoBackup} \cup SUBSET Batches,
         NEW s \in {"none", "active", "pending_confirm", "rolling_back"},
         NEW tm \in [Timers -> {"idle", "armed", "fired"}],
         NEW o \in {"settled", "open"},
         tracked \in Timers \cup {NoTimer},
         RollbackToBackup(k, b, s, tm, o)
  PROVE  /\ kernel' \in SUBSET Batches
         /\ status' \in {"none", "active", "pending_confirm", "rolling_back"}
         /\ timer' \in [Timers -> {"idle", "armed", "fired"}]
         /\ tracked' \in Timers \cup {NoTimer}
         /\ outcome' \in {"settled", "open"}
  BY RollbackLemma, StopLemma

\* After a timer's goroutine has run, nothing is pending.
LEMMA AutoRollbackLemma ==
  ASSUME TypeOK, NEW t \in Timers, AutoRollback(t)
  PROVE  TypeOK' /\ status' # "pending_confirm"
<1> DEFINE done == [timer EXCEPT ![t] = "idle"]
<1>1. done \in [Timers -> {"idle", "armed", "fired"}]
  BY DEF TypeOK
<1>2. CASE RollbackToBackup(kernel, backup, "rolling_back", done, outcome)
  <2> HIDE DEF done
  <2> QED
    <3>1. /\ kernel' \in SUBSET Batches
          /\ status' \in {"none", "active", "pending_confirm", "rolling_back"}
          /\ timer' \in [Timers -> {"idle", "armed", "fired"}]
          /\ tracked' \in Timers \cup {NoTimer}
          /\ outcome' \in {"settled", "open"}
      BY <1>1, <1>2, RollbackType DEF TypeOK
    <3>2. status' # "pending_confirm"
      BY <1>2, RollbackLemma
    <3> QED
      BY <3>1, <3>2 DEF AutoRollback, TypeOK
<1>3. CASE status # "pending_confirm" /\ timer' = done /\ UNCHANGED <<status, kernel, tracked, outcome>>
  BY <1>1, <1>3 DEF AutoRollback, TypeOK
<1> QED
  BY <1>2, <1>3 DEF AutoRollback

LEMMA TypeInit == Init => TypeOK
  BY DEF Init, TypeOK, Batches

\* A plan that is confirmed must be a plan: the step of ConfirmPlan needs
\* UnconfirmedInv.
LEMMA TypeStep == TypeOK /\ UnconfirmedInv /\ [Next]_vars => TypeOK'
<1> SUFFICES ASSUME TypeOK, UnconfirmedInv, [Next]_vars
             PROVE  TypeOK'
  OBVIOUS
<1>1. CASE GetState
  BY <1>1 DEF GetState, rules, TypeOK, Batches
<1>2. ASSUME NEW p \in Plans, CreatePlan(p)
      PROVE  TypeOK'
  BY <1>2 DEF CreatePlan, rules, TypeOK, Batches
<1>3. CASE PlanExpires
  BY <1>3 DEF PlanExpires, rules, TypeOK, Batches
<1>4. CASE ApplyBackupFails
  BY <1>4 DEF ApplyBackupFails, Overwrite, TypeOK, Batches
<1>5. CASE ApplyRefused
  <2>1. RollbackToBackup(kernel, kernel, status, timer, outcome)
    BY <1>5 DEF ApplyRefused
  <2>2. /\ kernel' \in SUBSET Batches
        /\ status' \in {"none", "active", "pending_confirm", "rolling_back"}
        /\ timer' \in [Timers -> {"idle", "armed", "fired"}]
        /\ tracked' \in Timers \cup {NoTimer}
        /\ outcome' \in {"settled", "open"}
    BY <2>1, RollbackType DEF TypeOK
  <2> QED
    BY <1>5, <2>2 DEF ApplyRefused, Overwrite, TypeOK
<1>6. CASE ApplyNotSaved
  <2>1. {pendingPlan} \in SUBSET Batches
    BY <1>6 DEF ApplyNotSaved, CanApply, TypeOK, Batches
  <2> QED
    BY <1>6, <2>1, RollbackType DEF ApplyNotSaved, Overwrite, TypeOK
<1>7. ASSUME NEW t \in Timers, ApplySucceeds(t)
      PROVE  TypeOK'
  BY <1>7 DEF ApplySucceeds, Overwrite, CanApply, TypeOK, Batches
<1>8. CASE ConfirmPlan
  <2>1. reported \in Plans
    BY <1>8 DEF ConfirmPlan, UnconfirmedInv, TypeOK
  <2>2. timer' \in [Timers -> {"idle", "armed", "fired"}]
    BY <1>8 DEF ConfirmPlan, Stop, TypeOK
  <2> QED
    BY <1>8, <2>1, <2>2 DEF ConfirmPlan, TypeOK
<1>9. CASE Rollback
  <2>1. RollbackToBackup(kernel, backup, status, timer, outcome)
    BY <1>9 DEF Rollback
  <2>2. /\ kernel' \in SUBSET Batches
        /\ status' \in {"none", "active", "pending_confirm", "rolling_back"}
        /\ timer' \in [Timers -> {"idle", "armed", "fired"}]
        /\ tracked' \in Timers \cup {NoTimer}
        /\ outcome' \in {"settled", "open"}
    BY <2>1, RollbackType DEF TypeOK
  <2> QED
    BY <1>9, <2>2 DEF Rollback, TypeOK
<1>10. ASSUME NEW t \in Timers, TimerFires(t)
       PROVE  TypeOK'
  BY <1>10 DEF TimerFires, rules, TypeOK
<1>11. ASSUME NEW t \in Timers, AutoRollback(t)
       PROVE  TypeOK'
  BY <1>11, AutoRollbackLemma
<1>12. CASE Restart
  BY <1>12 DEF Restart, rules, TypeOK
<1>13. CASE UNCHANGED vars
  BY <1>13 DEF vars, TypeOK
<1> QED
  BY <1>1, <1>2, <1>3, <1>4, <1>5, <1>6, <1>7, <1>8, <1>9, <1>10, <1>11, <1>12,
     <1>13 DEF Next

LEMMA UnconfirmedStep ==
  TypeOK /\ UnconfirmedInv /\ [Next]_vars => UnconfirmedInv'
<1> SUFFICES ASSUME TypeOK, UnconfirmedInv, [Next]_vars
             PROVE  UnconfirmedInv'
  OBVIOUS
<1> USE DEF UnconfirmedInv
<1>1. CASE GetState
  BY <1>1 DEF GetState
<1>2. ASSUME NEW p \in Plans, CreatePlan(p)
      PROVE  UnconfirmedInv'
  BY <1>2 DEF CreatePlan
<1>3. CASE PlanExpires
  BY <1>3 DEF PlanExpires
<1>4. CASE ApplyBackupFails
  BY <1>4 DEF ApplyBackupFails
<1>5. CASE ApplyRefused
  BY <1>5, RollbackLemma DEF ApplyRefused, TypeOK
<1>6. CASE ApplyNotSaved
  <2>1. {pendingPlan} \in SUBSET Batches
    BY <1>6 DEF ApplyNotSaved, CanApply, TypeOK, Batches
  <2> QED
    BY <1>6, <2>1, RollbackLemma DEF ApplyNotSaved, TypeOK
<1>7. ASSUME NEW t \in Timers, ApplySucceeds(t)
      PROVE  UnconfirmedInv'
  BY <1>7 DEF ApplySucceeds, CanApply
<1>8. CASE ConfirmPlan
  BY <1>8 DEF ConfirmPlan
<1>9. CASE Rollback
  BY <1>9, RollbackLemma DEF Rollback, TypeOK
<1>10. ASSUME NEW t \in Timers, TimerFires(t)
       PROVE  UnconfirmedInv'
  BY <1>10 DEF TimerFires
<1>11. ASSUME NEW t \in Timers, AutoRollback(t)
       PROVE  UnconfirmedInv'
  BY <1>11, AutoRollbackLemma DEF AutoRollback
<1>12. CASE Restart
  BY <1>12 DEF Restart
<1>13. CASE UNCHANGED vars
  BY <1>13 DEF vars
<1> QED
  BY <1>1, <1>2, <1>3, <1>4, <1>5, <1>6, <1>7, <1>8, <1>9, <1>10, <1>11, <1>12,
     <1>13 DEF Next

\* A step that loads no rules and leaves the status alone keeps it.
LEMMA RevocableFrame ==
  ASSUME PendingIsRevocable, UNCHANGED <<status, tracked, timer, rules>>
  PROVE  PendingIsRevocable'
  BY DEF PendingIsRevocable, rules

LEMMA RevocableStep ==
  TypeOK /\ PendingIsRevocable /\ [Next]_vars => PendingIsRevocable'
<1> SUFFICES ASSUME TypeOK, PendingIsRevocable, [Next]_vars
             PROVE  PendingIsRevocable'
  OBVIOUS
<1>1. CASE GetState
  BY <1>1 DEF GetState, rules, PendingIsRevocable
<1>2. ASSUME NEW p \in Plans, CreatePlan(p)
      PROVE  PendingIsRevocable'
  BY <1>2, RevocableFrame DEF CreatePlan
<1>3. CASE PlanExpires
  BY <1>3, RevocableFrame DEF PlanExpires
<1>4. CASE ApplyBackupFails
  \* what an emptied backup held is in force, or the event is named
  <2>1. CASE UNCHANGED <<backup, overwritten>>
    BY <1>4, <2>1, RevocableFrame DEF ApplyBackupFails, rules
  <2>2. CASE outcome = "settled" /\ backup' = {} /\ Overwrite
    BY <1>4, <2>2 DEF ApplyBackupFails, Overwrite, PendingIsRevocable
  <2>3. CASE outcome = "open" /\ backup' = {} /\ Overwrite
    BY <1>4, <2>3 DEF ApplyBackupFails, Overwrite, PendingIsRevocable
  <2> QED
    BY <1>4, <2>1, <2>2, <2>3 DEF ApplyBackupFails, TypeOK
<1>5. CASE ApplyRefused
  \* the new backup is what is in force, and the refused script changed nothing
  <2>1. /\ RollbackToBackup(kernel, kernel, status, timer, outcome)
        /\ overwritten' = (overwritten \/ outcome = "open") /\ standing' = standing
    BY <1>5 DEF ApplyRefused, Overwrite
  <2>2. backup' = kernel /\ kernel # NoBackup
    BY <1>5, DistinctAssumption DEF ApplyRefused, TypeOK, Batches
  <2>3. \/ /\ status' = status /\ timer' = timer /\ tracked' = tracked
           /\ kernel' = kernel /\ outcome' = outcome
        \/ /\ status' # "pending_confirm"
           /\ kernel' = kernel \cup kernel /\ outcome' = "settled"
    BY <2>1, RollbackLemma DEF TypeOK
  <2> QED
    BY <2>1, <2>2, <2>3 DEF PendingIsRevocable, TypeOK
<1>6. CASE ApplyNotSaved
  <2>1. /\ RollbackToBackup({pendingPlan}, kernel, status, timer, "open")
        /\ overwritten' = (overwritten \/ outcome = "open") /\ standing' = standing
    BY <1>6 DEF ApplyNotSaved, Overwrite
  <2>2. backup' = kernel /\ kernel # NoBackup
    BY <1>6, DistinctAssumption DEF ApplyNotSaved, TypeOK, Batches
  <2>3. {pendingPlan} \in SUBSET Batches
    BY <1>6 DEF ApplyNotSaved, CanApply, TypeOK, Batches
  <2>4. \/ /\ status' = status /\ timer' = timer /\ tracked' = tracked
           /\ outcome' = "open"
        \/ /\ status' # "pending_confirm"
           /\ kernel' = {pendingPlan} \cup kernel /\ outcome' = "settled"
    BY <2>1, <2>3, RollbackLemma DEF TypeOK
  <2> QED
    BY <2>1, <2>2, <2>4 DEF PendingIsRevocable, TypeOK
<1>7. ASSUME NEW t \in Timers, ApplySucceeds(t)
      PROVE  PendingIsRevocable'
  BY <1>7, DistinctAssumption
  DEF ApplySucceeds, Overwrite, TypeOK, Batches, PendingIsRevocable
<1>8. CASE ConfirmPlan
  BY <1>8 DEF ConfirmPlan, PendingIsRevocable
<1>9. CASE Rollback
  <2>1. /\ RollbackToBackup(kernel, backup, status, timer, outcome)
        /\ UNCHANGED <<backup, overwritten, standing>>
    BY <1>9 DEF Rollback
  <2>2. \/ /\ status' = status /\ timer' = timer /\ tracked' = tracked
           /\ kernel' = kernel /\ outcome' = outcome
        \/ /\ status' # "pending_confirm" /\ backup # NoBackup
           /\ kernel' = kernel \cup backup /\ outcome' = "settled"
    BY <2>1, RollbackLemma DEF TypeOK
  <2> QED
    BY <2>1, <2>2 DEF PendingIsRevocable, TypeOK
<1>10. ASSUME NEW t \in Timers, TimerFires(t)
       PROVE  PendingIsRevocable'
  BY <1>10 DEF TimerFires, rules, TypeOK, PendingIsRevocable
<1>11. ASSUME NEW t \in Timers, AutoRollback(t)
       PROVE  PendingIsRevocable'
  \* after a timer's rollback, successful or not, nothing is pending
  <2> DEFINE done == [timer EXCEPT ![t] = "idle"]
  <2>1. status' # "pending_confirm" /\ UNCHANGED <<backup, overwritten, standing>>
    BY <1>11, AutoRollbackLemma DEF AutoRollback
  <2>2. done \in [Timers -> {"idle", "armed", "fired"}]
    BY DEF TypeOK
  <2>3. CASE RollbackToBackup(kernel, backup, "rolling_back", done, outcome)
    <3> HIDE DEF done
    <3>1. \/ kernel' = kernel /\ outcome' = outcome
          \/ backup # NoBackup /\ kernel' = kernel \cup backup /\ outcome' = "settled"
      BY <2>2, <2>3, RollbackLemma DEF TypeOK
    <3> QED
      BY <2>1, <3>1 DEF PendingIsRevocable, TypeOK
  <2>4. CASE UNCHANGED <<status, kernel, tracked, outcome>>
    BY <2>1, <2>4 DEF PendingIsRevocable
  <2> QED
    BY <1>11, <2>3, <2>4 DEF AutoRollback
<1>12. CASE Restart
  BY <1>12 DEF Restart, rules, PendingIsRevocable
<1>13. CASE UNCHANGED vars
  BY <1>13, RevocableFrame DEF vars, rules
<1> QED
  BY <1>1, <1>2, <1>3, <1>4, <1>5, <1>6, <1>7, <1>8, <1>9, <1>10, <1>11, <1>12,
     <1>13 DEF Next

LEMMA Invariance == Spec => []IInv
<1>1. Init => IInv
  BY TypeInit DEF Init, IInv, UnconfirmedInv, PendingIsRevocable
<1>2. IInv /\ [Next]_vars => IInv'
  BY TypeStep, UnconfirmedStep, RevocableStep DEF IInv
<1> QED
  BY <1>1, <1>2, PTL DEF Spec

\* The state of the manager, the timers and the files keeps its type.
THEOREM TypeCorrect == Spec => []TypeOK
  BY Invariance, PTL DEF IInv

\* A configuration that waits for its confirmation has a backup on disk and
\* a timer that will undo it, after any sequence of applies, failures,
\* rollbacks, stale timers and restarts.
THEOREM PendingRevocable == Spec => []PendingIsRevocable
  BY Invariance, PTL DEF IInv

\* A step that confirms nothing and starts no trial ends the trial or
\* leaves it alone.
LEMMA EndOrStutter ==
  ASSUME IInv, UNCHANGED <<reported, confirmed>>,
         status' = "pending_confirm" => status = "pending_confirm"
  PROVE  [Trial!Next]_(Trial!vars)
BY DistinctAssumption DEF IInv, TypeOK, UnconfirmedInv, onTrial, Trial!Next,
   Trial!vars, Trial!Abandon

\* Every step of the manager is a step of CommitConfirm or changes neither
\* the plan on trial nor the accepted plans.
LEMMA StepRefines == IInv /\ [Next]_vars => [Trial!Next]_(Trial!vars)
<1> SUFFICES ASSUME IInv, [Next]_vars
             PROVE  [Trial!Next]_(Trial!vars)
  OBVIOUS
<1> USE DEF IInv
<1>1. CASE GetState
  BY <1>1, DistinctAssumption DEF GetState, TypeOK, onTrial, Trial!vars
<1>2. ASSUME NEW p \in Plans, CreatePlan(p)
      PROVE  [Trial!Next]_(Trial!vars)
  BY <1>2, EndOrStutter DEF CreatePlan
<1>3. CASE PlanExpires
  BY <1>3, EndOrStutter DEF PlanExpires
<1>4. CASE ApplyBackupFails
  BY <1>4, EndOrStutter DEF ApplyBackupFails
<1>5. CASE ApplyRefused
  <2>1. status' = "pending_confirm" => status = "pending_confirm"
    BY <1>5, RollbackLemma DEF ApplyRefused, TypeOK
  <2> QED
    BY <1>5, <2>1, EndOrStutter DEF ApplyRefused
<1>6. CASE ApplyNotSaved
  <2>1. {pendingPlan} \in SUBSET Batches
    BY <1>6 DEF ApplyNotSaved, CanApply, TypeOK, Batches
  <2>2. status' = "pending_confirm" => status = "pending_confirm"
    BY <1>6, <2>1, RollbackLemma DEF ApplyNotSaved, TypeOK
  <2> QED
    BY <1>6, <2>2, EndOrStutter DEF ApplyNotSaved
<1>7. ASSUME NEW t \in Timers, ApplySucceeds(t)
      PROVE  [Trial!Next]_(Trial!vars)
  BY <1>7 DEF ApplySucceeds, CanApply, TypeOK, UnconfirmedInv, onTrial,
     Trial!Next, Trial!Try
<1>8. CASE ConfirmPlan
  BY <1>8, DistinctAssumption DEF ConfirmPlan, TypeOK, UnconfirmedInv, onTrial,
     Trial!Next, Trial!Accept
<1>9. CASE Rollback
  <2>1. status' = "pending_confirm" => status = "pending_confirm"
    BY <1>9, RollbackLemma DEF Rollback, TypeOK
  <2> QED
    BY <1>9, <2>1, EndOrStutter DEF Rollback
<1>10. ASSUME NEW t \in Timers, TimerFires(t)
       PROVE  [Trial!Next]_(Trial!vars)
  BY <1>10, EndOrStutter DEF TimerFires
<1>11. ASSUME NEW t \in Timers, AutoRollback(t)
       PROVE  [Trial!Next]_(Trial!vars)
  BY <1>11, AutoRollbackLemma, EndOrStutter DEF AutoRollback
<1>12. CASE Restart
  BY <1>12, DistinctAssumption DEF Restart, TypeOK, UnconfirmedInv, onTrial,
     Trial!Next, Trial!vars, Trial!Abandon
<1>13. CASE UNCHANGED vars
  BY <1>13, EndOrStutter DEF vars
<1> QED
  BY <1>1, <1>2, <1>3, <1>4, <1>5, <1>6, <1>7, <1>8, <1>9, <1>10, <1>11, <1>12,
     <1>13 DEF Next

\* The manager implements the commit-confirm protocol: a plan is confirmed
\* only out of its own trial and is never put on trial again.
THEOREM ImplementsCommitConfirm == Spec => RefinesCommitConfirm
<1>1. Init => Trial!Init
  BY DEF Init, Trial!Init, onTrial
<1> QED
  BY <1>1, StepRefines, Invariance, PTL DEF Spec, RefinesCommitConfirm, Trial!Spec

-------------------------------------------------------------------------------
(* Pool transactions. *)

USE PoolAssumption

\* What a transaction has come to at each of its steps.
ProgressInv(t) ==
  /\ pc[t] = "idle" => mem[t] = Blank /\ file[t] = Blank /\ t \notin polls
  /\ Step(t) \in {"idle", "acquire", "lock"} => mem[t].done = 0
  /\ Step(t) \in {"idle", "acquire", "lock", "run"} => mem[t].at = "pending" /\ ~mem[t].finished
  /\ Step(t) = "agent" => mem[t].at = "running" /\ ~mem[t].finished /\ mem[t].done < StepsOf(t)
  /\ mem[t].at = "ok" => mem[t].done = StepsOf(t)

\* Its file shows a stage that it has been at.
FileInv(t) ==
  /\ file[t].finished => mem[t].finished
  /\ file[t].at = "ok" => file[t].done = PlanLength(t)
  /\ Stage(file[t]) <= Stage(mem[t])

\* A device plan keeps the lock of the records once it has it; with a destroy it
\* waits for its own lock when it is to save them.
LockInv(t) ==
  /\ kind[t] = "device" /\ Step(t) \in {"run", "agent", "failed", "record", "save"} => storeLock = t
  /\ kind[t] = "destroy" /\ Step(t) = "save" => storeLock = t
  /\ storeLock = t => pc[t] # "idle"

\* A plan at work, a destroy that changes the records, and a plan that is polled
\* have their key.
KeyInv(t) ==
  /\ AtWork(t) => held[key[t]] = t
  /\ kind[t] = "destroy" /\ Step(t) \in {"record", "save"} => held[key[t]] = t
  /\ t \in polls => held[key[t]] = t /\ kind[t] = "device"

TxInv(t) == ProgressInv(t) /\ FileInv(t) /\ LockInv(t) /\ KeyInv(t)

PoolInv == PoolTypeOK /\ \A t \in Txs : TxInv(t)

------------------------------------------------------------------------------
\* A step of one transaction does nothing to another that it could tell.
LEMMA OtherTx ==
  ASSUME NEW u \in Txs, TxInv(u),
         UNCHANGED <<kind[u], key[u], pc[u], next[u], mem[u], file[u], u \in polls, storeLock = u>>,
         held[key[u]] = u => held'[key[u]] = u
  PROVE  TxInv(u)'
BY DEF TxInv, ProgressInv, FileInv, LockInv, KeyInv, Step, StepsOf, PlanLength, AtWork, Stage

\* What SaveTx does to its transaction.
LEMMA Saved ==
  ASSUME PoolTypeOK, NEW t \in Txs, NEW x \in Progress, NEW step \in {"acquire"} \cup Executing \cup Ends,
         SaveTx(t, x, step)
  PROVE  /\ mem' \in [Txs -> Progress]
         /\ pc' \in [Txs -> {"idle", "write", "rename", "acquire"} \cup Executing \cup Ends]
         /\ next' \in [Txs -> {"acquire"} \cup Executing \cup Ends]
         /\ mem'[t] = x /\ pc'[t] = "write" /\ next'[t] = step /\ Step(t)' = step
         /\ \A u \in Txs \ {t} : UNCHANGED <<mem[u], pc[u], next[u]>>
BY DEF SaveTx, Goto, PoolTypeOK, Step

\* The stages are numbers.
LEMMA Stages ==
  ASSUME NEW x \in Progress
  PROVE  /\ Stage(x) \in Nat
         /\ x.at = "pending" => Stage(x) = 3 * x.done
         /\ x.at = "running" => Stage(x) = 3 * x.done + 1
         /\ x.at \in {"error", "ok"} => Stage(x) = 3 * x.done + 2
BY DEF Progress, Stage

\* What a goroutine loads has nothing done yet, whether or not its file is there.
LEMMA LoadedTx ==
  ASSUME PoolInv, NEW t \in Txs, Step(t) \in {"acquire", "lock"}, Load(t)
  PROVE  /\ mem' \in [Txs -> Progress]
         /\ mem'[t].at = "pending" /\ ~mem'[t].finished /\ mem'[t].done = 0
         /\ Stage(file[t]) <= Stage(mem'[t])
         /\ \A u \in Txs \ {t} : mem'[u] = mem[u]
<1>1. /\ mem[t] \in Progress /\ file[t] \in Progress /\ mem[t].at = "pending"
      /\ ~mem[t].finished /\ mem[t].done = 0 /\ Stage(file[t]) <= Stage(mem[t])
      /\ ~file[t].finished
  BY DEF PoolInv, PoolTypeOK, TxInv, ProgressInv, FileInv
<1>2. Blank \in Progress /\ Blank.at = "pending" /\ ~Blank.finished /\ Blank.done = 0
  BY DEF Blank, Fresh, Progress
<1>3. Stage(mem[t]) = 0 /\ Stage(Blank) = 0 /\ Stage(file[t]) \in Nat
  BY <1>1, <1>2, Stages
<1>4. Stage(file[t]) = 0
  BY <1>1, <1>3
<1>5. file[t].at = "pending" /\ file[t].done = 0
  <2>1. /\ file[t].at = "pending" => Stage(file[t]) = 3 * file[t].done
        /\ file[t].at = "running" => Stage(file[t]) = 3 * file[t].done + 1
        /\ file[t].at \in {"error", "ok"} => Stage(file[t]) = 3 * file[t].done + 2
    BY <1>1, Stages
  <2>2. file[t].done \in Nat /\ file[t].at \in {"pending", "running", "error", "ok"}
    BY <1>1 DEF Progress
  <2> QED
    BY <1>4, <2>1, <2>2
<1>6. PICK x \in {file[t], Blank} : mem' = [mem EXCEPT ![t] = x]
  BY DEF Load
<1>7. mem'[t] = x /\ mem' \in [Txs -> Progress] /\ \A u \in Txs \ {t} : mem'[u] = mem[u]
  BY <1>1, <1>2, <1>6 DEF PoolInv, PoolTypeOK
<1>8. x \in Progress /\ x.at = "pending" /\ ~x.finished /\ x.done = 0 /\ Stage(x) = 0
  BY <1>1, <1>2, <1>3, <1>4, <1>5, <1>6
<1> QED
  BY <1>4, <1>7, <1>8

------------------------------------------------------------------------------
LEMMA IInit == PoolInit => PoolInv
<1> SUFFICES ASSUME PoolInit
             PROVE  PoolInv
  OBVIOUS
<1>1. Blank \in Progress /\ Blank.at = "pending" /\ ~Blank.finished /\ Blank.done = 0
  BY DEF Blank, Fresh, Progress
<1>2. PoolTypeOK
  BY <1>1 DEF PoolInit, PoolTypeOK, Keys, Kinds, Stores, Executing, Ends
<1>3. ASSUME NEW t \in Txs
      PROVE  TxInv(t)
  <2>1. /\ pc[t] = "idle" /\ mem[t] = Blank /\ file[t] = Blank /\ kind[t] = "none"
        /\ polls = {} /\ storeLock # t
    BY DEF PoolInit
  <2>2. Step(t) = "idle" /\ ~AtWork(t)
    BY <2>1 DEF Step, AtWork
  <2>3. Stage(Blank) <= Stage(Blank)
    BY <1>1, Stages
  <2> QED
    BY <1>1, <2>1, <2>2, <2>3 DEF TxInv, ProgressInv, FileInv, LockInv, KeyInv
<1> QED
  BY <1>2, <1>3 DEF PoolInv

\* The busy check lets a request begin, or options and imports go their way.
LEMMA BeginStep ==
  ASSUME PoolInv, NEW t \in Txs, Begin(t)
  PROVE  PoolInv'
<1> USE DEF txFiles, records
<1>1. PICK k \in Keys : \/ \E what \in {"create", "device", "destroy"} : Request(t, what, k)
                        \/ Options(t, k) \/ Import(t, k)
  BY DEF Begin
<1>2. /\ pc[t] = "idle" /\ t \notin polls /\ storeLock # t /\ mem[t] = Blank /\ file[t] = Blank
  BY <1>1 DEF Request, Options, Import, PoolInv, TxInv, ProgressInv, LockInv
<1>3. /\ Fresh \in Progress /\ Fresh.at = "pending" /\ ~Fresh.finished /\ Fresh.done = 0
      /\ Blank.at = "pending" /\ ~Blank.finished /\ Blank.done = 0
      /\ Stage(Blank) <= Stage(Fresh) /\ Stage(Blank) <= Stage(Blank)
  <2>1. /\ Fresh \in Progress /\ Fresh.at = "pending" /\ ~Fresh.finished /\ Fresh.done = 0
        /\ Blank \in Progress /\ Blank.at = "pending" /\ ~Blank.finished /\ Blank.done = 0
    BY DEF Fresh, Blank, Progress
  <2>2. Stage(Fresh) = 0 /\ Stage(Blank) = 0
    BY <2>1, Stages
  <2> QED
    BY <2>1, <2>2
<1>4. ASSUME NEW what \in {"create", "device", "destroy"}, Request(t, what, k)
      PROVE  PoolInv'
  <2>1. SaveTx(t, Fresh, "acquire")
    BY <1>4 DEF Request
  <2>2. /\ mem' \in [Txs -> Progress]
        /\ pc' \in [Txs -> {"idle", "write", "rename", "acquire"} \cup Executing \cup Ends]
        /\ next' \in [Txs -> {"acquire"} \cup Executing \cup Ends]
        /\ mem'[t] = Fresh /\ pc'[t] = "write" /\ Step(t)' = "acquire"
        /\ \A u \in Txs \ {t} : UNCHANGED <<mem[u], pc[u], next[u]>>
    BY <1>3, <2>1, Saved DEF PoolInv
  <2>3. PoolTypeOK'
    BY <1>4, <2>2 DEF Request, PoolInv, PoolTypeOK, Kinds
  <2>4. TxInv(t)'
    BY <1>2, <1>3, <1>4, <2>2 DEF Request, TxInv, ProgressInv, FileInv, LockInv, KeyInv, AtWork
  <2>5. \A u \in Txs \ {t} : UNCHANGED <<kind[u], key[u]>>
    BY <1>4 DEF Request, PoolInv, PoolTypeOK
  <2>6. \A u \in Txs \ {t} : TxInv(u)'
    BY <1>4, <2>2, <2>5, OtherTx DEF Request, PoolInv
  <2> QED
    BY <1>2, <1>3, <1>4, <2>2, <2>3, <2>4, <2>6 DEF Request, PoolInv
<1>5. CASE Options(t, k) \/ Import(t, k)
  <2>1. /\ kind'[t] \in {"options", "import"} /\ pc'[t] \in {"save", "record"}
        /\ \A u \in Txs \ {t} : UNCHANGED <<kind[u], key[u], pc[u]>>
        /\ UNCHANGED <<held, next, mem, tmp, file, polls, storeLock, store>>
    BY <1>5 DEF Options, Import, Goto, PoolInv, PoolTypeOK
  <2>2. PoolTypeOK'
    <3>1. CASE Options(t, k)
      <4>1. [form |-> "records", of |-> Known("records") \cup {k}] \in Stores
        BY DEF Stores, Known, PoolInv, PoolTypeOK
      <4> QED
        BY <3>1, <4>1 DEF Options, Goto, PoolInv, PoolTypeOK, Kinds, Executing
    <3>2. CASE Import(t, k)
      BY <3>2 DEF Import, Goto, PoolInv, PoolTypeOK, Kinds, Executing
    <3> QED
      BY <1>5, <3>1, <3>2
  <2>3. Step(t)' \in {"save", "record"}
    BY <2>1 DEF Step
  <2>4. TxInv(t)'
    BY <1>2, <1>3, <2>1, <2>3 DEF TxInv, ProgressInv, FileInv, LockInv, KeyInv, AtWork
  <2>5. \A u \in Txs \ {t} : TxInv(u)'
    BY <2>1, OtherTx DEF PoolInv
  <2> QED
    BY <1>2, <1>3, <2>1, <2>2, <2>4, <2>5 DEF PoolInv
<1> QED
  BY <1>1, <1>4, <1>5

\* A plan that goes on from one of its steps to the next, through saveTx.
LEMMA SaveStep ==
  ASSUME PoolInv, NEW t \in Txs, NEW x \in Progress, NEW step \in {"run", "agent", "failed", "record"},
         pc[t] \in {"run", "agent"}, SaveTx(t, x, step),
         Stage(mem[t]) <= Stage(x), x.named = mem[t].named,
         step = "run" => x.at = "pending" /\ ~x.finished,
         step = "agent" => x.at = "running" /\ ~x.finished /\ x.done < StepsOf(t),
         x.at = "ok" => x.done = StepsOf(t),
         fstab' \subseteq Keys, UNCHANGED <<held, kind, key, txFiles, polls, records>>
  PROVE  PoolInv'
<1> USE DEF txFiles, records
<1>1. /\ mem' \in [Txs -> Progress]
      /\ pc' \in [Txs -> {"idle", "write", "rename", "acquire"} \cup Executing \cup Ends]
      /\ next' \in [Txs -> {"acquire"} \cup Executing \cup Ends]
      /\ mem'[t] = x /\ pc'[t] = "write" /\ Step(t)' = step
      /\ \A u \in Txs \ {t} : UNCHANGED <<mem[u], pc[u], next[u]>>
  BY Saved DEF Executing, PoolInv
<1>2. Step(t) = pc[t] /\ Step(t) \in {"run", "agent"} /\ ~mem[t].finished
  BY DEF Step, PoolInv, TxInv, ProgressInv
<1>3. PoolTypeOK'
  BY <1>1 DEF PoolInv, PoolTypeOK
<1>4. ProgressInv(t)' /\ LockInv(t)'
  BY <1>1, <1>2 DEF PoolInv, TxInv, ProgressInv, LockInv, StepsOf, PlanLength
<1>5. KeyInv(t)'
  BY <1>1, <1>2 DEF PoolInv, TxInv, KeyInv, AtWork
<1>6. FileInv(t)'
  <2>1. Stage(file[t]) \in Nat /\ Stage(mem[t]) \in Nat /\ Stage(x) \in Nat
    BY Stages DEF PoolInv, PoolTypeOK
  <2>2. Stage(mem[t])' = Stage(x) /\ Stage(file[t])' = Stage(file[t])
    BY <1>1 DEF Stage
  <2> QED
    BY <1>1, <1>2, <2>1, <2>2 DEF PoolInv, TxInv, FileInv, PlanLength
<1>7. \A u \in Txs \ {t} : TxInv(u)'
  BY <1>1, OtherTx DEF PoolInv
<1> QED
  BY <1>3, <1>4, <1>5, <1>6, <1>7 DEF PoolInv, TxInv

LEMMA PlanStep ==
  ASSUME PoolInv, NEW t \in Txs, StepStarts(t) \/ StepEnds(t) \/ StepFails(t) \/ PlanDone(t)
  PROVE  PoolInv'
<1> USE DEF txFiles, records
<1>1. mem[t] \in Progress /\ StepsOf(t) \in 0..Steps /\ fstab \subseteq Keys /\ Create \in Keys
  BY DEF PoolInv, PoolTypeOK, StepsOf, PlanLength, Keys
<1>2. /\ mem[t].done \in 0..Steps /\ Stage(mem[t]) \in Nat
      /\ mem[t].at = "pending" => Stage(mem[t]) = 3 * mem[t].done
      /\ mem[t].at = "running" => Stage(mem[t]) = 3 * mem[t].done + 1
  BY <1>1, Stages DEF Progress
<1>3. pc[t] \in {"run", "agent"} => Step(t) = pc[t]
  BY DEF Step
<1>4. CASE StepStarts(t)
  <2> DEFINE x == [mem[t] EXCEPT !.at = "running"]
  <2>1. mem[t].at = "pending" /\ ~mem[t].finished /\ mem[t].done < StepsOf(t) /\ pc[t] = "run"
    BY <1>3, <1>4 DEF StepStarts, PoolInv, TxInv, ProgressInv
  <2>2. x \in Progress /\ x.at = "running" /\ x.done = mem[t].done /\ x.finished = mem[t].finished /\ x.named = mem[t].named
    BY <1>1 DEF Progress
  <2>3. Stage(x) = 3 * x.done + 1
    BY <2>2, Stages
  <2>4. Stage(mem[t]) <= Stage(x)
    BY <1>2, <2>1, <2>2, <2>3
  <2>5. SaveTx(t, x, "agent")
    BY <1>4 DEF StepStarts
  <2> HIDE DEF x
  <2> QED
    BY <1>1, <1>4, <2>1, <2>2, <2>4, <2>5, SaveStep DEF StepStarts
<1>5. CASE StepEnds(t)
  <2> DEFINE x == [mem[t] EXCEPT !.done = @ + 1, !.at = "pending"]
  <2>1. mem[t].at = "running" /\ ~mem[t].finished /\ mem[t].done < StepsOf(t) /\ pc[t] = "agent"
    BY <1>3, <1>5 DEF StepEnds, PoolInv, TxInv, ProgressInv
  <2>2. /\ x \in Progress /\ x.at = "pending" /\ x.done = mem[t].done + 1 /\ x.finished = mem[t].finished
        /\ x.named = mem[t].named
    <3>1. mem[t].done + 1 \in 0..Steps
      BY <1>1, <1>2, <2>1
    <3> QED
      BY <1>1, <3>1 DEF Progress
  <2>3. Stage(x) = 3 * x.done
    BY <2>2, Stages
  <2>4. Stage(mem[t]) <= Stage(x)
    BY <1>2, <2>1, <2>2, <2>3
  <2>5. SaveTx(t, x, "run")
    BY <1>5 DEF StepEnds
  <2> HIDE DEF x
  <2> QED
    BY <1>1, <1>5, <2>1, <2>2, <2>4, <2>5, SaveStep DEF StepEnds
<1>6. CASE StepFails(t)
  <2> DEFINE x == [mem[t] EXCEPT !.at = "error", !.finished = kind[t] = "device"]
  <2>1. mem[t].at = "running" /\ pc[t] = "agent"
    BY <1>3, <1>6 DEF StepFails, PoolInv, TxInv, ProgressInv
  <2>2. x \in Progress /\ x.at = "error" /\ x.done = mem[t].done /\ x.named = mem[t].named
    BY <1>1 DEF Progress
  <2>3. Stage(x) = 3 * x.done + 2
    BY <2>2, Stages
  <2>4. Stage(mem[t]) <= Stage(x)
    BY <1>2, <2>1, <2>2, <2>3
  <2>5. SaveTx(t, x, "failed")
    BY <1>6 DEF StepFails
  <2> HIDE DEF x
  <2> QED
    BY <1>1, <1>6, <2>1, <2>2, <2>4, <2>5, SaveStep DEF StepFails
<1>7. CASE PlanDone(t)
  <2> DEFINE x == [mem[t] EXCEPT !.at = "ok", !.finished = TRUE]
  <2>1. mem[t].at = "pending" /\ mem[t].done = StepsOf(t) /\ pc[t] = "run"
    BY <1>3, <1>7 DEF PlanDone, PoolInv, TxInv, ProgressInv
  <2>2. x \in Progress /\ x.at = "ok" /\ x.done = mem[t].done /\ x.named = mem[t].named
    BY <1>1 DEF Progress
  <2>3. Stage(x) = 3 * x.done + 2
    BY <2>2, Stages
  <2>4. Stage(mem[t]) <= Stage(x)
    BY <1>2, <2>1, <2>2, <2>3
  <2>5. SaveTx(t, x, "record") /\ fstab' \subseteq Keys
    BY <1>1, <1>7 DEF PlanDone
  <2> HIDE DEF x
  <2> QED
    BY <1>1, <1>7, <2>1, <2>2, <2>4, <2>5, SaveStep DEF PlanDone
<1> QED
  BY <1>4, <1>5, <1>6, <1>7

\* saveTx writes and renames; a reader may have removed what was written.
LEMMA FileStep ==
  ASSUME PoolInv, NEW t \in Txs, SaveWrites(t) \/ SaveRenames(t) \/ Status(t)
  PROVE  PoolInv'
<1> USE DEF flow, records
<1>1. CASE SaveWrites(t)
  <2>1. /\ pc[t] = "write" /\ pc'[t] = "rename" /\ tmp' \in [Txs -> BOOLEAN]
        /\ \A u \in Txs \ {t} : pc'[u] = pc[u]
    BY <1>1 DEF SaveWrites, Goto, PoolInv, PoolTypeOK
  <2>2. Step(t)' = Step(t)
    BY <1>1, <2>1 DEF SaveWrites, Step
  <2>3. PoolTypeOK'
    BY <1>1, <2>1 DEF SaveWrites, Goto, PoolInv, PoolTypeOK
  <2>4. TxInv(t)'
    BY <1>1, <2>1, <2>2 DEF SaveWrites, PoolInv, TxInv, ProgressInv, FileInv, LockInv, KeyInv, AtWork, StepsOf, PlanLength, Stage
  <2>5. \A u \in Txs \ {t} : TxInv(u)'
    BY <1>1, <2>1, OtherTx DEF SaveWrites, PoolInv
  <2> QED
    BY <2>3, <2>4, <2>5 DEF PoolInv
<1>2. CASE SaveRenames(t)
  <2>1. /\ pc[t] = "rename" /\ pc'[t] = next[t] /\ next'[t] = next[t]
        /\ file'[t] = file[t] \/ (file'[t] = mem[t] /\ mem[t].named)
        /\ \A u \in Txs \ {t} : pc'[u] = pc[u] /\ file'[u] = file[u]
    BY <1>2 DEF SaveRenames, Goto, PoolInv, PoolTypeOK
  <2>2. next[t] \in {"acquire"} \cup Executing \cup Ends
    BY DEF PoolInv, PoolTypeOK
  <2>3. Step(t)' = Step(t) /\ pc'[t] # "idle"
    BY <2>1, <2>2 DEF Step, Executing, Ends
  <2>4. PoolTypeOK'
    <3>1. pc' \in [Txs -> {"idle", "write", "rename", "acquire"} \cup Executing \cup Ends]
      BY <1>2, <2>2 DEF SaveRenames, Goto, PoolInv, PoolTypeOK
    <3>2. file' \in [Txs -> Progress] /\ tmp' \in [Txs -> BOOLEAN]
      BY <1>2 DEF SaveRenames, PoolInv, PoolTypeOK
    <3> QED
      BY <1>2, <3>1, <3>2 DEF SaveRenames, PoolInv, PoolTypeOK
  <2>5. FileInv(t)'
    <3>1. Stage(mem[t]) <= Stage(mem[t])
      BY Stages DEF PoolInv, PoolTypeOK
    <3> QED
      BY <1>2, <2>1, <3>1 DEF SaveRenames, PoolInv, TxInv, ProgressInv, FileInv, StepsOf, PlanLength, Stage
  <2>6. TxInv(t)'
    BY <1>2, <2>1, <2>3, <2>5 DEF SaveRenames, PoolInv, TxInv, ProgressInv, LockInv, KeyInv, AtWork, StepsOf, PlanLength
  <2>7. \A u \in Txs \ {t} : TxInv(u)'
    BY <1>2, <2>1, OtherTx DEF SaveRenames, PoolInv
  <2> QED
    BY <2>4, <2>6, <2>7 DEF PoolInv
<1>3. CASE Status(t)
  <2>1. PoolTypeOK'
    BY <1>3 DEF Status, PoolInv, PoolTypeOK
  <2> QED
    BY <1>3, <2>1, OtherTx DEF Status, PoolInv
<1> QED
  BY <1>1, <1>2, <1>3

\* The key: taken when free, given back by the poller of the plan that has it.
LEMMA KeyStep ==
  ASSUME PoolInv, NEW t \in Txs, Acquire(t) \/ AcquireFails(t) \/ Poll(t)
  PROVE  PoolInv'
<1> USE DEF txFiles, records, flow
<1>1. CASE Acquire(t)
  <2>1. /\ pc[t] = "acquire" /\ held[key[t]] = NoTx /\ key[t] \in Keys
        /\ pc'[t] = (IF kind[t] = "device" THEN "lock" ELSE "run")
        /\ \A u \in Txs \ {t} : pc'[u] = pc[u]
        /\ \A k \in Keys : held'[k] = IF k = key[t] THEN t ELSE held[k]
    BY <1>1 DEF Acquire, Goto, PoolInv, PoolTypeOK
  <2>0. Step(t) = "acquire" /\ Step(t)' = pc'[t]
    BY <2>1 DEF Step
  <2>3. /\ mem' \in [Txs -> Progress]
        /\ mem'[t].at = "pending" /\ ~mem'[t].finished /\ mem'[t].done = 0
        /\ Stage(file[t]) <= Stage(mem'[t])
        /\ \A u \in Txs \ {t} : mem'[u] = mem[u]
    <3>1. CASE Load(t)
      BY <2>0, <3>1, LoadedTx
    <3>2. CASE UNCHANGED mem
      BY <2>0, <3>2 DEF PoolInv, PoolTypeOK, TxInv, ProgressInv, FileInv
    <3> QED
      BY <1>1, <3>1, <3>2 DEF Acquire
  <2>2. PoolTypeOK'
    <3>1. fstab' \subseteq Keys /\ polls' \subseteq Txs
      BY <1>1 DEF Acquire, PoolInv, PoolTypeOK
    <3>2. held' \in [Keys -> Txs \cup {NoTx}]
      BY <1>1 DEF Acquire, PoolInv, PoolTypeOK
    <3>3. pc' \in [Txs -> {"idle", "write", "rename", "acquire"} \cup Executing \cup Ends]
      BY <1>1 DEF Acquire, Goto, PoolInv, PoolTypeOK, Executing
    <3> QED
      BY <1>1, <2>3, <3>1, <3>2, <3>3 DEF Acquire, PoolInv, PoolTypeOK
  <2>4. TxInv(t)'
    <3>1. ProgressInv(t)' /\ FileInv(t)'
      <4>1. UNCHANGED <<kind, key, file>> /\ Step(t)' \in {"lock", "run"} /\ pc'[t] # "idle"
        BY <1>1, <2>0, <2>1 DEF Acquire
      <4>2. ProgressInv(t)'
        BY <2>3, <4>1 DEF ProgressInv
      <4>3. Stage(file[t])' <= Stage(mem[t])' /\ ~file'[t].finished
        BY <2>0, <2>3, <4>1 DEF PoolInv, TxInv, ProgressInv, FileInv, Stage
      <4>4. FileInv(t)'
        BY <4>1, <4>3 DEF PoolInv, TxInv, FileInv, PlanLength
      <4> QED
        BY <4>2, <4>4
    <3>2. LockInv(t)'
      BY <1>1, <2>0, <2>1 DEF Acquire, PoolInv, TxInv, LockInv
    <3>3. KeyInv(t)'
      <4>1. held'[key'[t]] = t /\ kind'[t] = kind[t]
        BY <1>1, <2>1 DEF Acquire
      <4>2. t \in polls' => kind[t] = "device"
        BY <1>1 DEF Acquire, PoolInv, TxInv, KeyInv
      <4> QED
        BY <4>1, <4>2 DEF KeyInv
    <3> QED
      BY <3>1, <3>2, <3>3 DEF TxInv
  <2>5. ASSUME NEW u \in Txs \ {t}
        PROVE  TxInv(u)'
    <3>1. key[u] \in Keys /\ (held[key[u]] = u => held'[key[u]] = u)
      BY <2>1 DEF PoolInv, PoolTypeOK
    <3> QED
      BY <1>1, <2>1, <2>3, <3>1, OtherTx DEF Acquire, PoolInv
  <2> QED
    BY <2>2, <2>4, <2>5 DEF PoolInv
<1>2. CASE AcquireFails(t)
  <2>1. /\ pc[t] = "acquire" /\ pc'[t] = "refused"
        /\ \A u \in Txs \ {t} : pc'[u] = pc[u]
    BY <1>2 DEF AcquireFails, Goto, PoolInv, PoolTypeOK
  <2>2. PoolTypeOK'
    BY <1>2 DEF AcquireFails, Goto, PoolInv, PoolTypeOK, Ends
  <2>3. Step(t) = "acquire" /\ Step(t)' = "refused"
    BY <2>1 DEF Step
  <2>4. TxInv(t)'
    BY <1>2, <2>1, <2>3 DEF AcquireFails, PoolInv, TxInv, ProgressInv, FileInv, LockInv, KeyInv, AtWork, StepsOf, PlanLength, Stage
  <2>5. \A u \in Txs \ {t} : TxInv(u)'
    BY <1>2, <2>1, OtherTx DEF AcquireFails, PoolInv
  <2> QED
    BY <2>2, <2>4, <2>5 DEF PoolInv
<1>3. CASE Poll(t)
  <2>1. PoolTypeOK'
    BY <1>3 DEF Poll, PoolInv, PoolTypeOK
  <2>2. CASE ~file[t].finished
    BY <1>3, <2>1, <2>2, OtherTx DEF Poll, PoolInv
  <2>3. CASE file[t].finished
    <3>1. mem[t].finished /\ ~AtWork(t) /\ held[key[t]] = t /\ key[t] \in Keys
      BY <1>3, <2>3 DEF Poll, PoolInv, PoolTypeOK, TxInv, ProgressInv, FileInv, KeyInv, AtWork
    <3>2. /\ polls' = polls \ {t}
          /\ \A k \in Keys : held'[k] = IF k = key[t] THEN NoTx ELSE held[k]
      BY <1>3, <2>3, <3>1 DEF Poll, PoolInv, PoolTypeOK
    <3>3. TxInv(t)'
      BY <1>3, <3>1, <3>2 DEF Poll, PoolInv, TxInv, ProgressInv, FileInv, LockInv, KeyInv, AtWork, Step, StepsOf, PlanLength, Stage
    <3>4. ASSUME NEW u \in Txs \ {t}
          PROVE  TxInv(u)'
      <4>1. key[u] \in Keys /\ (held[key[u]] = u => held'[key[u]] = u) /\ (u \in polls)' = (u \in polls)
        BY <3>1, <3>2 DEF PoolInv, PoolTypeOK
      <4> QED
        BY <1>3, <4>1, OtherTx DEF Poll, PoolInv
    <3> QED
      BY <2>1, <3>3, <3>4 DEF PoolInv
  <2> QED
    BY <2>2, <2>3
<1> QED
  BY <1>1, <1>2, <1>3

\* A step among the records and their lock.
LEMMA MoveStep ==
  ASSUME PoolInv, PoolTypeOK', NEW t \in Txs, NEW y \in {"run", "save", "over"},
         pc[t] \in {"lock", "failed", "record", "save"},
         y = "run" => pc[t] = "lock" /\ Load(t), pc[t] = "failed" => UNCHANGED held,
         y = "save" => pc[t] = "record",
         pc' = [pc EXCEPT ![t] = y],
         y \in {"run", "save"} /\ kind[t] \in {"device", "destroy"} => storeLock' = t,
         \A u \in Txs \ {t} : (storeLock' = u) = (storeLock = u),
         mem' = mem \/ (pc[t] = "lock" /\ Load(t)),
         held' = held \/ (y = "over" /\ kind[t] = "destroy" /\ held' = [held EXCEPT ![key[t]] = NoTx]),
         UNCHANGED <<kind, key, next, file, polls>>
  PROVE  PoolInv'
<1>1. pc'[t] = y /\ \A u \in Txs \ {t} : pc'[u] = pc[u]
  BY DEF PoolInv, PoolTypeOK
<1>2. Step(t) = pc[t] /\ Step(t)' = y
  BY <1>1 DEF Step
<1>3. /\ Stage(file[t]) <= Stage(mem'[t]) /\ (file[t].finished => mem'[t].finished)
      /\ \A u \in Txs \ {t} : mem'[u] = mem[u]
      /\ mem' # mem => mem'[t].at = "pending" /\ ~mem'[t].finished
      /\ y = "run" => mem'[t].at = "pending" /\ ~mem'[t].finished
  BY <1>2, LoadedTx DEF PoolInv, TxInv, ProgressInv, FileInv
<1>4. ProgressInv(t)' /\ FileInv(t)' /\ LockInv(t)'
  <2>1. ProgressInv(t)'
    BY <1>1, <1>2, <1>3 DEF PoolInv, TxInv, ProgressInv, StepsOf, PlanLength
  <2>2. FileInv(t)'
    BY <1>3 DEF PoolInv, TxInv, FileInv, PlanLength, Stage
  <2>3. LockInv(t)'
    BY <1>1, <1>2 DEF PoolInv, TxInv, LockInv
  <2> QED
    BY <2>1, <2>2, <2>3
<1>5. KeyInv(t)'
  <2>1. t \in polls => kind[t] # "destroy"
    BY DEF PoolInv, TxInv, KeyInv
  <2> QED
    BY <1>1, <1>2, <2>1 DEF PoolInv, TxInv, KeyInv, AtWork
<1>6. ASSUME NEW u \in Txs \ {t}
      PROVE  TxInv(u)'
  <2>1. held[key[u]] = u => held'[key[u]] = u
    <3>1. CASE held' = held
      BY <3>1
    <3>2. CASE kind[t] = "destroy" /\ held' = [held EXCEPT ![key[t]] = NoTx]
      \* the key is the destroy's own, so it is not the other's
      <4>1. CASE pc[t] \in {"record", "save"}
        <5>1. held[key[t]] = t /\ key[t] \in Keys /\ key[u] \in Keys
          BY <1>2, <3>2, <4>1 DEF PoolInv, PoolTypeOK, TxInv, KeyInv
        <5> QED
          BY <3>2, <5>1 DEF PoolInv, PoolTypeOK
      <4>2. CASE pc[t] = "lock"
        <5>1. held[key[t]] = t /\ key[t] \in Keys /\ key[u] \in Keys
          BY <1>2, <3>2, <4>2 DEF PoolInv, PoolTypeOK, TxInv, KeyInv, AtWork
        <5> QED
          BY <3>2, <5>1 DEF PoolInv, PoolTypeOK
      <4>3. CASE pc[t] = "failed" /\ UNCHANGED held
        BY <4>3
      <4> QED
        BY <3>2, <4>1, <4>2, <4>3
    <3> QED
      BY <3>1, <3>2
  <2> QED
    BY <1>1, <1>3, <2>1, OtherTx DEF PoolInv
<1> QED
  BY <1>4, <1>5, <1>6 DEF PoolInv, TxInv

LEMMA RecordStep ==
  ASSUME PoolInv, NEW t \in Txs,
         LockStore(t) \/ LockFails(t) \/ CleanUp(t) \/ AppendRecord(t) \/ ReadRecords(t) \/ SaveRecords(t)
  PROVE  PoolInv'
<1> USE DEF txFiles, records, Goto
<1>1. pc[t] \in {"record", "save", "failed"} => Step(t) = pc[t]
  BY DEF Step
<1>2. CASE LockStore(t)
  <2>1. PoolTypeOK'
    <3>1. mem' \in [Txs -> Progress]
      BY <1>2, LoadedTx DEF LockStore, Step
    <3> QED
      BY <1>2, <3>1 DEF LockStore, PoolInv, PoolTypeOK, Executing
  <2>2. /\ pc[t] = "lock" /\ pc' = [pc EXCEPT ![t] = "run"] /\ storeLock' = t /\ Load(t)
        /\ \A u \in Txs \ {t} : (storeLock' = u) = (storeLock = u)
        /\ UNCHANGED <<held, kind, key, next, file, polls>>
    BY <1>2, PoolAssumption DEF LockStore
  <2> QED
    BY <2>1, <2>2, MoveStep
<1>7. CASE LockFails(t)
  <2>1. PoolTypeOK'
    BY <1>7 DEF LockFails, PoolInv, PoolTypeOK, Ends
  <2>2. \A u \in Txs \ {t} : (storeLock' = u) = (storeLock = u)
    BY <1>7, PoolAssumption DEF LockFails
  <2> QED
    BY <1>7, <2>1, <2>2, MoveStep DEF LockFails
<1>3. CASE CleanUp(t)
  <2>1. PoolTypeOK'
    BY <1>3 DEF CleanUp, PoolInv, PoolTypeOK, Ends
  <2>2. \A u \in Txs \ {t} : (storeLock' = u) = (storeLock = u)
    BY <1>3 DEF CleanUp
  <2> QED
    BY <1>3, <2>1, <2>2, MoveStep DEF CleanUp
<1>4. CASE AppendRecord(t)
  <2>1. [form |-> "list", of |-> Known("list") \cup {key[t]}] \in Stores
    BY DEF Stores, Known, PoolInv, PoolTypeOK
  <2>2. PoolTypeOK'
    BY <1>4, <2>1 DEF AppendRecord, PoolInv, PoolTypeOK, Ends
  <2> QED
    BY <1>4, <2>2, MoveStep DEF AppendRecord
<1>5. CASE ReadRecords(t)
  <2>1. view' \in [Txs -> Stores]
    <3>1. /\ [form |-> "records", of |-> Known("records") \cup {key[t]}] \in Stores
          /\ [form |-> "records", of |-> Known("records") \ {key[t]}] \in Stores
      BY DEF Stores, Known, PoolInv, PoolTypeOK
    <3> QED
      BY <1>5, <3>1 DEF ReadRecords, PoolInv, PoolTypeOK
  <2>2. PoolTypeOK'
    BY <1>5, <2>1 DEF ReadRecords, PoolInv, PoolTypeOK, Executing
  <2>3. storeLock \in {t, NoTx}
    BY <1>1, <1>5 DEF ReadRecords, PoolInv, TxInv, LockInv
  <2>4. storeLock' = t
    BY <1>5 DEF ReadRecords
  <2>5. \A u \in Txs \ {t} : (storeLock' = u) = (storeLock = u)
    BY <2>3, <2>4, PoolAssumption
  <2>6. /\ pc[t] = "record" /\ pc' = [pc EXCEPT ![t] = "save"]
        /\ UNCHANGED <<held, kind, key, next, mem, file, polls>>
    BY <1>5 DEF ReadRecords
  <2> QED
    BY <2>2, <2>4, <2>5, <2>6, MoveStep
<1>6. CASE SaveRecords(t)
  <2>1. kind[t] \notin {"device", "destroy"}
    BY <1>1, <1>6 DEF SaveRecords, PoolInv, TxInv, LockInv
  <2>2. UNCHANGED held
    BY <1>6, <2>1 DEF SaveRecords
  <2>3. PoolTypeOK'
    BY <1>6, <2>2 DEF SaveRecords, PoolInv, PoolTypeOK, Ends
  <2> QED
    BY <1>6, <2>2, <2>3, MoveStep DEF SaveRecords
<1> QED
  BY <1>2, <1>3, <1>4, <1>5, <1>6, <1>7

\* nosd stops: nothing is at work, and what was is dead.
LEMMA RestartStep ==
  ASSUME PoolInv, PoolRestart
  PROVE  PoolInv'
<1> USE DEF txFiles
<1>1. PoolTypeOK'
  BY DEF PoolRestart, PoolInv, PoolTypeOK, Ends
<1>2. ASSUME NEW t \in Txs
      PROVE  TxInv(t)'
  <2>1. /\ pc'[t] \in {"idle"} \cup Ends /\ (pc'[t] = "idle" <=> pc[t] = "idle")
        /\ polls' = {} /\ storeLock' # t
        /\ UNCHANGED <<kind, key, mem, file>>
    BY DEF PoolRestart, Ends
  <2>2. Step(t)' = pc'[t] /\ (pc[t] = "idle" => Step(t) = "idle")
    BY <2>1 DEF Step, Ends
  <2>3. ProgressInv(t)' /\ FileInv(t)'
    BY <2>1, <2>2 DEF PoolInv, TxInv, ProgressInv, FileInv, StepsOf, PlanLength, Stage, Ends
  <2>4. LockInv(t)' /\ KeyInv(t)'
    BY <2>1, <2>2 DEF LockInv, KeyInv, AtWork, Ends
  <2> QED
    BY <2>3, <2>4 DEF TxInv
<1> QED
  BY <1>1, <1>2 DEF PoolInv

LEMMA IStep == PoolInv /\ [PoolNext]_poolVars => PoolInv'
<1> SUFFICES ASSUME PoolInv, [PoolNext]_poolVars
             PROVE  PoolInv'
  OBVIOUS
<1>1. CASE UNCHANGED poolVars
  <2>1. PoolTypeOK'
    BY <1>1 DEF poolVars, flow, txFiles, records, PoolInv, PoolTypeOK
  <2> QED
    BY <1>1, <2>1, OtherTx DEF poolVars, flow, txFiles, records, PoolInv
<1> QED
  BY <1>1, BeginStep, PlanStep, FileStep, KeyStep, RecordStep, RestartStep DEF PoolNext, Work

------------------------------------------------------------------------------
\* Every reachable state of keys, transactions, files and records is well typed.
THEOREM PoolTypeCorrect == PoolSpec => []PoolTypeOK
<1>1. PoolInv => PoolTypeOK
  BY DEF PoolInv
<1> QED
  BY <1>1, IInit, IStep, PTL DEF PoolSpec

\* Of the plans with one key at most one is at work, for any requests and pools
\* (tryAcquirePoolLock, the poller of apply-device, handleApplyDestroy).
THEOREM MutualExclusion == PoolSpec => []OneAtWork
<1>1. PoolInv => OneAtWork
  <2> SUFFICES ASSUME PoolInv, NEW t \in Txs, NEW u \in Txs, AtWork(t), AtWork(u), key[t] = key[u]
               PROVE  t = u
    BY DEF OneAtWork
  <2> QED
    BY DEF PoolInv, TxInv, KeyInv
<1> QED
  BY <1>1, IInit, IStep, PTL DEF PoolSpec

\* A transaction file says OK only of a plan all of whose steps succeeded, for
\* plans of any length (executePlan).
THEOREM OkIsWhole == PoolSpec => []OkMeansAll
<1>1. PoolInv => OkMeansAll
  BY DEF PoolInv, TxInv, FileInv, OkMeansAll, PlanLength
<1> QED
  BY <1>1, IInit, IStep, PTL DEF PoolSpec

\* The stage a transaction file shows never goes back and never runs ahead,
\* whichever saves its readers undo (saveTx, LoadJSON).
THEOREM FilesFollow == PoolSpec => FileFollows
<1>1. PoolInv /\ PoolInv' /\ [PoolNext]_poolVars =>
        [\A t \in Txs : /\ Stage(file[t]) <= Stage(file'[t])
                        /\ Stage(file'[t]) <= Stage(mem'[t])]_poolVars
  <2> SUFFICES ASSUME PoolInv, PoolInv', [PoolNext]_poolVars, NEW t \in Txs
               PROVE  Stage(file[t]) <= Stage(file'[t]) /\ Stage(file'[t]) <= Stage(mem'[t])
    OBVIOUS
  <2>1. file[t] \in Progress /\ mem[t] \in Progress /\ Stage(file[t]) <= Stage(mem[t])
    BY DEF PoolInv, PoolTypeOK, TxInv, FileInv
  <2>2. Stage(file'[t]) <= Stage(mem'[t])
    BY DEF PoolInv, TxInv, FileInv, Stage
  <2>3. file' = file \/ \E u \in Txs : SaveRenames(u)
    BY ZenonT(30) DEF PoolNext, Begin, Work, Request, Options, Import, SaveWrites, Acquire, AcquireFails, LockStore,
       LockFails, Load, StepStarts, StepEnds, StepFails, CleanUp, PlanDone, AppendRecord, ReadRecords, SaveRecords, Poll,
       Status, PoolRestart, poolVars, txFiles
  <2>4. file'[t] \in {file[t], mem[t]}
    BY <2>3 DEF SaveRenames, PoolInv, PoolTypeOK
  <2>5. Stage(file[t]) <= Stage(file[t])
    BY <2>1, Stages
  <2> QED
    BY <2>1, <2>2, <2>4, <2>5
<1> QED
  BY <1>1, IInit, IStep, PTL DEF PoolSpec, FileFollows
===============================================================================
