--------------------------- MODULE FirewallManager ---------------------------
(***************************************************************************)
(* backend/nosd/pkg/net/firewall.go: nftables changes under a confirmation *)
(* timer.  Every method holds fm.mu from start to end, so each is one      *)
(* step; a timer that has fired is a goroutine that still waits for fm.mu. *)
(*                                                                         *)
(* A ruleset is the set of rule batches that were loaded: Base is what ran *)
(* before nosd, a plan stands for the batch its script defines.  nft and   *)
(* the file writes may fail whenever they are called.                      *)
(***************************************************************************)
CONSTANTS Plans,   \* plan IDs; generateID never repeats one
          Timers,  \* the timers that may be live at once (bound)
          Base,    \* the batch loaded before the first plan
          NoPlan, NoTimer, NoBackup, Torn, Loaded

ASSUME DistinctAssumption ==
  /\ NoPlan \notin Plans /\ Base \notin Plans /\ Torn \notin Plans /\ Loaded \notin Plans
  /\ NoPlan # Loaded
  /\ NoTimer \notin Timers
  /\ \A S \in SUBSET (Plans \cup {Base}) : NoBackup # S

VARIABLES
  status,      \* currentState.Status, "none" while currentState is nil
  reported,    \* what currentState describes: a plan, or Loaded from nft
  pendingPlan, \* fm.pendingPlan
  expired,     \* pendingPlan.ExpiresAt has passed
  timer,       \* each timer: idle, armed, or fired and waiting for fm.mu
  tracked,     \* fm.rollbackTimer (and fm.rollbackCancel, set and cleared with it)
  kernel,      \* the batches nft has loaded
  config,      \* /etc/nithronos/firewall.nft
  backup,      \* /etc/nithronos/firewall.backup.nft
  issued,      \* history: plans CreatePlan has returned
  confirmed,   \* history: plans ConfirmPlan has confirmed
  standing,    \* history: what was loaded at the start or at the last confirmation
  outcome,     \* history: "open" once a plan was loaded, until it is confirmed or undone
  overwritten  \* history: a backup was written or emptied while the outcome was open

vars == <<status, reported, pendingPlan, expired, timer, tracked, kernel,
          config, backup, issued, confirmed, standing, outcome, overwritten>>

\* What an action that loads no rules leaves alone.
rules == <<kernel, config, backup, standing, outcome, overwritten>>

Batches == Plans \cup {Base}

TypeOK ==
  /\ status \in {"none", "active", "pending_confirm", "rolling_back"}
  /\ reported \in Plans \cup {NoPlan, Loaded}
  /\ pendingPlan \in Plans \cup {NoPlan}
  /\ expired \in BOOLEAN
  /\ timer \in [Timers -> {"idle", "armed", "fired"}]
  /\ tracked \in Timers \cup {NoTimer}
  /\ kernel \in SUBSET Batches
  /\ config \in Batches \cup {Torn}
  /\ backup \in {NoBackup} \cup SUBSET Batches
  /\ issued \in SUBSET Plans
  /\ confirmed \in SUBSET Plans
  /\ standing \in SUBSET Batches
  /\ outcome \in {"settled", "open"}
  /\ overwritten \in BOOLEAN

Init ==
  /\ status = "none"
  /\ reported = NoPlan
  /\ pendingPlan = NoPlan
  /\ expired = FALSE
  /\ timer = [t \in Timers |-> "idle"]
  /\ tracked = NoTimer
  /\ kernel = {Base}
  /\ config = Base
  /\ backup = NoBackup
  /\ issued = {}
  /\ confirmed = {}
  /\ standing = {Base}
  /\ outcome = "settled"
  /\ overwritten = FALSE

------------------------------------------------------------------------------
\* GetState: the first call after a start describes what nft has loaded.
GetState ==
  /\ status = "none"
  /\ status' = "active"
  /\ reported' = Loaded
  /\ UNCHANGED <<pendingPlan, expired, timer, tracked, rules, issued, confirmed>>

\* CreatePlan replaces whatever plan was pending.
CreatePlan(p) ==
  /\ p \notin issued
  /\ issued' = issued \cup {p}
  /\ pendingPlan' = p
  /\ expired' = FALSE
  /\ UNCHANGED <<status, reported, timer, tracked, rules, confirmed>>

\* Five minutes pass after CreatePlan.
PlanExpires ==
  /\ pendingPlan # NoPlan
  /\ expired' = TRUE
  /\ UNCHANGED <<status, reported, pendingPlan, timer, tracked, rules, issued,
                 confirmed>>

\* Timer.Stop takes back an armed timer; it cannot take back one that fired.
Stop(tm, t) == IF t \in Timers /\ tm[t] = "armed" THEN [tm EXCEPT ![t] = "idle"] ELSE tm

\* rollbackToBackup, called with ruleset k, backup b, status s and timers tm;
\* o is the outcome that is left when it fails.
\* The backup is the output of "nft list ruleset" and has no "flush ruleset"
\* line, so "nft -f" adds its batches to those already loaded.
RollbackToBackup(k, b, s, tm, o) ==
  \/ \* no backup file, or nft refuses it
     /\ kernel' = k
     /\ status' = s
     /\ timer' = tm
     /\ outcome' = o
     /\ UNCHANGED tracked
  \/ /\ b # NoBackup
     /\ kernel' = k \cup b
     /\ status' = IF s = "none" THEN "none" ELSE "active"
     /\ timer' = Stop(tm, tracked)
     /\ tracked' = NoTimer
     /\ outcome' = "settled"

\* Every ApplyPlan that gets past its two checks.
CanApply == pendingPlan # NoPlan /\ ~expired

\* The only backup there is gets replaced.
Overwrite == overwritten' = (overwritten \/ outcome = "open")

\* backupCurrentConfig fails: nft cannot list, or WriteFile stops after it
\* truncated the old backup.
ApplyBackupFails ==
  /\ CanApply
  /\ \/ UNCHANGED <<backup, overwritten>>
     \/ backup' = {} /\ Overwrite
  /\ UNCHANGED <<status, reported, pendingPlan, expired, timer, tracked, kernel,
                 config, issued, confirmed, standing, outcome>>

\* The new script is refused by nft, which changes nothing.
ApplyRefused ==
  /\ CanApply
  /\ backup' = kernel
  /\ Overwrite
  /\ RollbackToBackup(kernel, kernel, status, timer, outcome)
  /\ UNCHANGED <<reported, pendingPlan, expired, config, issued, confirmed, standing>>

\* The script (which starts with "flush ruleset") is loaded, but WriteFile
\* fails on the config file, perhaps after truncating it.
ApplyNotSaved ==
  /\ CanApply
  /\ backup' = kernel
  /\ Overwrite
  /\ config' \in {config, Torn}
  /\ RollbackToBackup({pendingPlan}, kernel, status, timer, "open")
  /\ UNCHANGED <<reported, pendingPlan, expired, issued, confirmed, standing>>

\* Mutant: the backup is taken when the script has been loaded.
ApplySucceeds_BacksUpLate(t) ==
  /\ CanApply
  /\ timer[t] = "idle"
  /\ backup' = {pendingPlan}
  /\ Overwrite
  /\ outcome' = "open"
  /\ kernel' = {pendingPlan}
  /\ config' = pendingPlan
  /\ status' = "pending_confirm"
  /\ reported' = pendingPlan
  /\ timer' = [timer EXCEPT ![t] = "armed"]
  /\ tracked' = t
  /\ UNCHANGED <<pendingPlan, expired, issued, confirmed, standing>>

\* The plan is in force and a new timer replaces the tracked one, which is
\* neither stopped nor forgotten by the runtime.
ApplySucceeds(t) ==
  /\ CanApply
  /\ timer[t] = "idle"
  /\ backup' = kernel
  /\ Overwrite
  /\ outcome' = "open"
  /\ kernel' = {pendingPlan}
  /\ config' = pendingPlan
  /\ status' = "pending_confirm"
  /\ reported' = pendingPlan
  /\ timer' = [timer EXCEPT ![t] = "armed"]
  /\ tracked' = t
  /\ UNCHANGED <<pendingPlan, expired, issued, confirmed, standing>>

\* Mutant: fm.pendingPlan is not cleared.
ConfirmPlan_KeepsPlan ==
  /\ status = "pending_confirm"
  /\ status' = "active"
  /\ timer' = Stop(timer, tracked)
  /\ tracked' = NoTimer
  /\ backup' = NoBackup
  /\ confirmed' = confirmed \cup {reported}
  /\ standing' = kernel
  /\ outcome' = "settled"
  /\ overwritten' = FALSE
  /\ UNCHANGED <<reported, pendingPlan, expired, kernel, config, issued>>

ConfirmPlan ==
  /\ status = "pending_confirm"
  /\ status' = "active"
  /\ timer' = Stop(timer, tracked)
  /\ tracked' = NoTimer
  /\ pendingPlan' = NoPlan
  /\ backup' = NoBackup
  /\ confirmed' = confirmed \cup {reported}
  /\ standing' = kernel
  /\ outcome' = "settled"
  /\ overwritten' = FALSE
  /\ UNCHANGED <<reported, expired, kernel, config, issued>>

\* The administrator's Rollback: possible while a backup file exists.
Rollback ==
  /\ RollbackToBackup(kernel, backup, status, timer, outcome)
  /\ UNCHANGED <<reported, pendingPlan, expired, config, backup, issued, confirmed,
                 standing, overwritten>>

TimerFires(t) ==
  /\ timer[t] = "armed"
  /\ timer' = [timer EXCEPT ![t] = "fired"]
  /\ UNCHANGED <<status, reported, pendingPlan, expired, tracked, rules, issued,
                 confirmed>>

\* Mutant: the status is not set to rolling_back before the rollback is tried.
AutoRollback_KeepsPending(t) ==
  /\ timer[t] = "fired"
  /\ LET done == [timer EXCEPT ![t] = "idle"]
     IN \/ /\ status = "pending_confirm"
           /\ RollbackToBackup(kernel, backup, status, done, outcome)
        \/ /\ status # "pending_confirm"
           /\ timer' = done
           /\ UNCHANGED <<status, kernel, tracked, outcome>>
  /\ UNCHANGED <<reported, pendingPlan, expired, config, backup, issued, confirmed,
                 standing, overwritten>>

\* The goroutine of a fired timer gets fm.mu; it does not know which apply
\* it belongs to.
AutoRollback(t) ==
  /\ timer[t] = "fired"
  /\ LET done == [timer EXCEPT ![t] = "idle"]
     IN \/ /\ status = "pending_confirm"
           /\ RollbackToBackup(kernel, backup, "rolling_back", done, outcome)
        \/ /\ status # "pending_confirm"
           /\ timer' = done
           /\ UNCHANGED <<status, kernel, tracked, outcome>>
  /\ UNCHANGED <<reported, pendingPlan, expired, config, backup, issued, confirmed,
                 standing, overwritten>>

\* nosd restarts: everything but the kernel's rules and the files is lost.
Restart ==
  /\ status' = "none"
  /\ reported' = NoPlan
  /\ pendingPlan' = NoPlan
  /\ expired' = FALSE
  /\ timer' = [t \in Timers |-> "idle"]
  /\ tracked' = NoTimer
  /\ UNCHANGED <<rules, issued, confirmed>>

Next ==
  \/ GetState
  \/ \E p \in Plans : CreatePlan(p)
  \/ PlanExpires
  \/ ApplyBackupFails
  \/ ApplyRefused
  \/ ApplyNotSaved
  \/ \E t \in Timers : ApplySucceeds(t)
  \/ ConfirmPlan
  \/ Rollback
  \/ \E t \in Timers : TimerFires(t)
  \/ \E t \in Timers : AutoRollback(t)
  \/ Restart

Spec == Init /\ [][Next]_vars

\* The runtime fires armed timers and a goroutine waiting for fm.mu gets it.
Fairness == \A t \in Timers : WF_vars(TimerFires(t)) /\ WF_vars(AutoRollback(t))

FairSpec == Spec /\ Fairness

------------------------------------------------------------------------------
\* What waits for its confirmation has a timer that runs or is about to take
\* fm.mu, and the rules it replaced are not lost: they are all in the backup
\* while a plan is neither confirmed nor undone, and all in force otherwise,
\* also after failed loads and rollbacks, stale timers and restarts.  Two
\* things are not claimed.  An apply on top of a plan still open (one that is
\* on trial, whose rollback failed, or that a restart forgot) replaces or
\* empties the only backup: `overwritten` names that until the next
\* confirmation.  And an undo brings the rules back beside those of the plan,
\* which stay loaded: the backup holds no "flush ruleset".
PendingIsRevocable ==
  /\ status = "pending_confirm" =>
       /\ outcome = "open"
       /\ tracked # NoTimer
       /\ timer[tracked] \in {"armed", "fired"}
  /\ ~overwritten =>
       IF outcome = "open" THEN backup # NoBackup /\ standing \subseteq backup
                         ELSE standing \subseteq kernel

\* The manager implements CommitConfirm: what is on trial is the plan that
\* is reported while the status is pending_confirm.
onTrial == IF status = "pending_confirm" THEN reported ELSE NoPlan

Trial == INSTANCE CommitConfirm WITH trial <- onTrial, accepted <- confirmed

\* A plan is confirmed only out of its own pending_confirm, and once
\* confirmed no stale pendingPlan puts it under a timer again.
RefinesCommitConfirm == Trial!Spec

\* The strengthening RefinesCommitConfirm needs: neither the plan waiting to
\* be applied nor the one waiting to be confirmed was confirmed before.
UnconfirmedInv ==
  /\ confirmed \subseteq issued
  /\ pendingPlan # NoPlan => pendingPlan \in issued \ confirmed
  /\ status = "pending_confirm" => reported \in issued \ confirmed

\* The inductive invariant: its parts are preserved only together.
IInv == TypeOK /\ UnconfirmedInv /\ PendingIsRevocable

\* No plan stays pending_confirm for ever, whichever applies, failed
\* rollbacks and stale timers get in between.
TrialEnds == \A p \in Plans : (onTrial = p) ~> (onTrial # p)
==============================================================================
