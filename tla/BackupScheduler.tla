--------------------------- MODULE BackupScheduler ---------------------------
(***************************************************************************)
(* The backup scheduler (pkg/backup/scheduler.go, job_manager.go):         *)
(* schedules and their cron entries, snapshot jobs, retention, and the     *)
(* state file, which any of them may be saving at the same time.           *)
(*                                                                         *)
(* Requests that change schedules and that delete a snapshot save while    *)
(* they hold the write lock, and saveState asks for the read lock of the   *)
(* same mutex: they never return and nobody gets the lock after them.      *)
(* saveState lets go of the read lock before it reads the maps it copied   *)
(* by reference, so that it saves what is there by then.                   *)
(*                                                                         *)
(* The agent may fail in all that it is asked, and it may do it and the    *)
(* answer be lost.  The state file may not be written, which no job and no *)
(* sweep looks at.  Paths of snapshots are taken to be unique.  Stop saves *)
(* and ends as an hourly sweep does.                                       *)
(***************************************************************************)
EXTENDS Retention

CONSTANTS Schedules,
          Covers,       \* the subvolumes of each schedule, a sequence
          Policy,       \* the retention policy of the schedules
          Manual,       \* the subvolumes of a manual snapshot
          DayOf,        \* the day each snapshot is made, in order; it is that day until the next (bound)
          Configured,   \* the schedules in the file that nosd first starts with
          Earlier,      \* what the snapshots are of that are recorded in it
          MaxJobs,      \* jobs (bound)
          MaxSnapshots, \* snapshots ever made (bound)
          MaxSweeps,    \* hourly sweeps (bound)
          MaxRestarts   \* (bound)

User == "user"
Subvolumes == Range(Manual) \cup UNION {Range(Covers[s]) : s \in Schedules}

NoSchedule == [enabled |-> FALSE, kind |-> "none"]

\* The expression of a schedule: five fields, as for all the frequencies, or one
\* like @daily, which a schedule of type "cron" may have.
Settings == [enabled : {TRUE}, kind : {"fields", "descriptor"}] \cup {[enabled |-> FALSE, kind |-> "fields"]}

Owners == Schedules \cup {User}
Snapshots == [subvol : Subvolumes, by : Owners]

\* A schedule and a request name at least one subvolume, or are refused.
ASSUME BackupAssumption ==
  /\ User \notin Schedules
  /\ Manual \in Seq(Subvolumes) \ {<<>>}
  /\ Covers \in [Schedules -> Seq(Subvolumes) \ {<<>>}]
  /\ MaxJobs \in Nat /\ MaxSnapshots \in Nat /\ MaxRestarts \in Nat

\* nosd first starts with a file that is there, and with the snapshots it names.
ASSUME StartAssumption ==
  /\ Configured \in [Schedules -> Settings \cup {NoSchedule}]
  /\ Earlier \in Seq(Snapshots) /\ Len(Earlier) <= MaxSnapshots

\* The clock does not go back; of a policy only MinKeep is checked, not to be below zero.
ASSUME RetentionAssumption ==
  /\ Policy \in [minKeep : Nat, days : Int, weeks : Int, months : Int, years : Int]
  /\ DayOf \in [0..MaxSnapshots -> Nat]
  /\ \A m, n \in 0..MaxSnapshots : m <= n => DayOf[m] <= DayOf[n]

VARIABLES
  lock,      \* Scheduler.mu: "free", or "stuck" with a writer that waits for itself
  schedules, \* schedules
  cron,      \* cronEntries
  snapshots, \* numbers of the snapshots recorded
  disk,      \* numbers of the snapshots there are
  made,      \* what each snapshot ever made is of
  jobs,      \* the jobs of this run of nosd, and how far each is
  saver,     \* for each job and the hourly sweep, how far its saveState is
  tmp, file, \* the temporary file and the state file
  restarts,
  sweeps,    \* hourly sweeps so far
  adrift,    \* history: snapshots made or deleted of which the answer was lost, or a restart the record
  unsaved,   \* history: changes that the code does not save, or could not
  raced      \* history: two saves at a time

vars == <<lock, schedules, cron, snapshots, disk, made, jobs, saver, tmp, file, restarts, sweeps, adrift, unsaved, raced>>

Sweep == 0
JobIds == 1..MaxJobs
Threads == JobIds \cup {Sweep}
\* The schedules that get a cron entry.
Entries(settings) == {s \in Schedules : settings[s].enabled /\ settings[s].kind = "descriptor"}

NoFile == [is |-> "none", schedules |-> [s \in Schedules |-> NoSchedule], snapshots |-> {}]
Torn == [NoFile EXCEPT !.is = "torn"]
Memory == [is |-> "whole", schedules |-> schedules, snapshots |-> snapshots]
Idle == [at |-> "idle", data |-> NoFile, fd |-> "none"]

NoJob == [state |-> "none", by |-> User, at |-> "none", todo |-> <<>>, took |-> {}]
Ended == {"succeeded", "failed"}

Contents == [is : {"none", "torn", "whole"}, schedules : [Schedules -> Settings \cup {NoSchedule}],
             snapshots : SUBSET DOMAIN made]
Jobs == [state : {"none", "pending", "running", "canceled", "gone"} \cup Ended, by : Owners,
         at : {"none", "start", "take", "record", "retain", "save", "note", "save again", "done"},
         todo : Seq(Subvolumes), took : SUBSET DOMAIN made]
Savers == [at : {"idle", "save", "read", "write", "rename"}, data : Contents, fd : {"none", "tmp", "file", "lost"}]

TypeOK ==
  /\ lock \in {"free", "stuck"}
  /\ schedules \in [Schedules -> Settings \cup {NoSchedule}]
  /\ cron \subseteq Schedules
  /\ lock = "free" => \A s \in cron : schedules[s].enabled
  /\ made \in Seq(Snapshots) /\ Len(made) <= MaxSnapshots
  /\ disk \subseteq DOMAIN made /\ snapshots \subseteq DOMAIN made /\ adrift \subseteq DOMAIN made
  /\ jobs \in [JobIds -> Jobs] /\ saver \in [Threads -> Savers]
  /\ tmp \in Contents /\ file \in Contents
  /\ restarts \in 0..MaxRestarts

Init ==
  /\ lock = "free"
  /\ schedules = Configured /\ cron = Entries(Configured)
  /\ made = Earlier /\ snapshots = DOMAIN Earlier /\ disk = DOMAIN Earlier
  /\ jobs = [j \in JobIds |-> NoJob]
  /\ saver = [t \in Threads |-> Idle]
  /\ tmp = NoFile /\ file = Memory
  /\ restarts = 0 /\ sweeps = 0 /\ adrift = {} /\ unsaved = FALSE /\ raced = FALSE

Today == DayOf[Len(made)]
plan == <<schedules, cron>>
store == <<snapshots, disk, made, adrift>>
files == <<tmp, file, raced>>
rest == <<restarts, sweeps>>

------------------------------------------------------------------------------
(* Schedules.  Once stored, a schedule that is enabled gets a cron entry; the  *)
(* cron is one that wants six fields or a descriptor, so that five are refused *)
(* and the request ends with an error, before it has saved.                    *)

Enter(s, setting) ==
  /\ lock = "free"
  /\ schedules' = [schedules EXCEPT ![s] = setting]
  /\ IF setting.enabled /\ setting.kind = "fields"
       THEN unsaved' = TRUE /\ UNCHANGED lock
       ELSE lock' = "stuck" /\ UNCHANGED unsaved
  /\ UNCHANGED <<store, jobs, saver, files, rest>>


\* CreateSchedule: the client may name the schedule, even as one that there is.
CreateSchedule(s, setting) ==
  /\ Enter(s, setting)
  /\ cron' = cron \cup (Entries(schedules') \cap {s})

UpdateSchedule(s, setting) ==
  /\ schedules[s] # NoSchedule
  /\ Enter(s, setting)
  /\ cron' = (cron \ {s}) \cup (Entries(schedules') \cap {s})

DeleteSchedule(s) ==
  /\ lock = "free" /\ schedules[s] # NoSchedule
  /\ cron' = cron \ {s}
  /\ schedules' = [schedules EXCEPT ![s] = NoSchedule]
  /\ lock' = "stuck"
  /\ UNCHANGED <<store, jobs, saver, files, rest, unsaved>>

\* The agent deletes it; the record stays if its answer is lost.
DeleteSnapshot(n) ==
  /\ lock = "free" /\ n \in snapshots \cap disk
  /\ disk' = disk \ {n}
  /\ \/ snapshots' = snapshots \ {n} /\ lock' = "stuck" /\ UNCHANGED adrift
     \/ adrift' = adrift \cup {n} /\ UNCHANGED <<snapshots, lock>>
  /\ UNCHANGED <<plan, made, jobs, saver, files, rest, unsaved>>

------------------------------------------------------------------------------
(* Jobs.                                                                       *)

Submit(by, todo) ==
  \E j \in JobIds :
    /\ jobs[j] = NoJob /\ \A i \in 1..j - 1 : jobs[i] # NoJob
    /\ jobs' = [jobs EXCEPT ![j] = [@ EXCEPT !.state = "pending", !.by = by, !.at = "start", !.todo = todo]]
    /\ UNCHANGED <<lock, plan, store, saver, files, rest, unsaved>>

CreateSnapshot == Submit(User, Manual)

\* A cron entry is due: runScheduledBackup.
Fire(s) ==
  /\ s \in cron /\ lock = "free"
  /\ Submit(s, Covers[s])

CancelJob(j) ==
  /\ jobs[j].state \in {"pending", "running"}
  /\ jobs' = [jobs EXCEPT ![j].state = "canceled"]
  /\ UNCHANGED <<lock, plan, store, saver, files, rest, unsaved>>

\* A job of a schedule that has failed is still noted in the schedule, and saved; of
\* a manual one, what it has made is in memory alone.
Failed(job) ==
  [NoJob EXCEPT !.state = "failed", !.by = job.by, !.at = IF job.by = User THEN "done" ELSE "note"]

FailJob(j) ==
  /\ jobs' = [jobs EXCEPT ![j] = Failed(@)]
  /\ unsaved' = (unsaved \/ (jobs[j].by = User /\ jobs[j].took # {}))
  /\ UNCHANGED <<lock, plan, snapshots, saver, files, rest>>

\* The hooks are run: that of a schedule may fail.
Start(j) ==
  /\ jobs[j].at = "start"
  /\ \/ /\ jobs' = [jobs EXCEPT ![j] = [@ EXCEPT !.state = "running", !.at = "take"]]
        /\ UNCHANGED <<lock, plan, store, saver, files, rest, unsaved>>
     \/ jobs[j].by # User /\ FailJob(j) /\ UNCHANGED store

Make(j) ==
  /\ Len(made) < MaxSnapshots
  /\ made' = Append(made, [subvol |-> Head(jobs[j].todo), by |-> jobs[j].by])
  /\ disk' = disk \cup {Len(made')}

Made(j) ==
  /\ Make(j)
  /\ jobs' = [jobs EXCEPT ![j] = [@ EXCEPT !.at = "record", !.took = jobs[j].took \cup {Len(made')}]]
  /\ UNCHANGED <<lock, plan, snapshots, adrift, saver, files, rest, unsaved>>

\* Mutant: a snapshot that cannot be made is passed over.
Take_Skips(j) ==
  /\ jobs[j].at = "take"
  /\ \/ Made(j)
     \/ /\ jobs' = [jobs EXCEPT ![j] = [@ EXCEPT !.at = IF Len(jobs[j].todo) > 1 THEN "take" ELSE "retain",
                                                 !.todo = Tail(jobs[j].todo)]]
        /\ UNCHANGED <<lock, plan, store, saver, files, rest, unsaved>>

\* The agent makes the snapshot of the next subvolume, or fails, or makes it and the
\* answer is lost.
Take(j) ==
  /\ jobs[j].at = "take"
  /\ \/ Made(j)
     \/ FailJob(j) /\ UNCHANGED store
     \/ FailJob(j) /\ Make(j) /\ adrift' = adrift \cup {Len(made')}

Record(j) ==
  /\ jobs[j].at = "record" /\ lock = "free"
  /\ snapshots' = snapshots \cup {Max(jobs[j].took)}
  /\ jobs' = [jobs EXCEPT ![j] = [@ EXCEPT !.at = IF Len(jobs[j].todo) > 1 THEN "take" ELSE "retain",
                                           !.todo = Tail(jobs[j].todo)]]
  /\ UNCHANGED <<lock, plan, disk, made, adrift, saver, files, rest, unsaved>>

\* Mutant: all of the subvolume, whoever made them.
OfSchedule_Any(s, v) == {n \in snapshots : made[n].subvol = v}

\* Snapshots that are recorded for the schedule and the subvolume, the newest first.
OfSchedule(s, v) == {n \in snapshots : made[n].by = s /\ made[n].subvol = v}

NewestFirst(S) ==
  LET nth(i) == CHOOSE n \in S : Cardinality({m \in S : m >= n}) = i
  IN  [i \in 1..Cardinality(S) |-> [n |-> nth(i), day |-> DayOf[nth(i)]]]

Surplus(s, v) ==
  LET all == OfSchedule(s, v)
  IN  all \ {k.n : k \in Selected(NewestFirst(all), Policy, Today)}

AllSurplus(S) == UNION {UNION {Surplus(s, v) : v \in Range(Covers[s])} : s \in S}

\* Mutant: a record goes with the snapshot or without it.
ApplyRetention_Forgets(S) ==
  /\ lock = "free"
  /\ \E gone \in SUBSET (AllSurplus(S) \cap disk) :
       disk' = disk \ gone /\ snapshots' = snapshots \ AllSurplus(S) /\ UNCHANGED adrift

\* applyRetention, with the lock held: the agent deletes some, and cannot delete
\* others, as those that are gone already; of what it has deleted, a record stays if
\* the answer is lost.
ApplyRetention(S) ==
  /\ lock = "free"
  /\ \E gone \in SUBSET (AllSurplus(S) \cap disk) : \E lost \in SUBSET gone :
       disk' = disk \ gone /\ snapshots' = snapshots \ (gone \ lost) /\ adrift' = adrift \cup lost

\* Retention, for a job of a schedule, and the end.
Retain(j) ==
  /\ jobs[j].at = "retain"
  /\ IF jobs[j].by = User THEN UNCHANGED <<disk, snapshots, adrift>> ELSE ApplyRetention({jobs[j].by})
  /\ jobs' = [jobs EXCEPT ![j] = [@ EXCEPT !.state = "succeeded", !.at = "save"]]
  /\ UNCHANGED <<lock, plan, made, saver, files, rest, unsaved>>

\* runScheduledBackup, after the job.
Note(j) ==
  /\ jobs[j].at = "note" /\ lock = "free"
  /\ jobs' = [jobs EXCEPT ![j].at = "save again"]
  /\ UNCHANGED <<lock, plan, store, saver, files, rest, unsaved>>

\* The hourly sweep goes through the schedules that are enabled.
SweepRetains ==
  /\ saver[Sweep] = Idle
  /\ sweeps < MaxSweeps /\ sweeps' = sweeps + 1
  /\ ApplyRetention({s \in Schedules : schedules[s].enabled})
  /\ saver' = [saver EXCEPT ![Sweep].at = "save"]
  /\ UNCHANGED <<lock, plan, made, jobs, files, restarts, unsaved>>

------------------------------------------------------------------------------
(* saveState.                                                                  *)

Saving(t) == saver[t].at \in {"read", "write", "rename"}
Wants(t) == IF t = Sweep THEN saver[t].at = "save" ELSE jobs[t].at \in {"save", "save again"} /\ saver[t] = Idle

ReadLock(t) ==
  /\ Wants(t) /\ lock = "free"
  /\ saver' = [saver EXCEPT ![t].at = "read"]
  /\ raced' = \E u \in Threads : Saving(u)
  /\ UNCHANGED <<lock, plan, store, jobs, tmp, file, rest, unsaved>>

\* WriteFile opens and empties the file, then writes it.
Open(t) ==
  /\ saver[t].at = "read"
  /\ saver' = [saver EXCEPT ![t] = [at |-> "write", data |-> Memory, fd |-> "tmp"]]
  /\ tmp' = Torn
  /\ unsaved' = FALSE
  /\ UNCHANGED <<lock, plan, store, jobs, file, raced, rest>>

Write(t) ==
  /\ saver[t].at = "write"
  /\ tmp' = IF saver[t].fd = "tmp" THEN saver[t].data ELSE tmp
  /\ file' = IF saver[t].fd = "file" THEN saver[t].data ELSE file
  /\ saver' = [saver EXCEPT ![t] = [at |-> "rename", data |-> NoFile, fd |-> "lost"]]
  /\ UNCHANGED <<lock, plan, store, jobs, raced, rest, unsaved>>

\* Mutant: every save of a scheduled job is noted.
AfterSave_Again(t) ==
  IF t = Sweep THEN UNCHANGED jobs
  ELSE jobs' = [jobs EXCEPT ![t].at = IF jobs[t].by # User THEN "note" ELSE "done"]

AfterSave(t) ==
  IF t = Sweep THEN UNCHANGED jobs
  ELSE jobs' = [jobs EXCEPT ![t].at =
                  IF @ = "save" /\ jobs[t].by # User THEN "note" ELSE "done"]

\* The file that others write to moves along; if there is none left, nothing happens.
Moved(fd) == IF tmp = NoFile THEN fd
             ELSE CASE fd = "tmp" -> "file" [] fd = "file" -> "lost" [] OTHER -> fd

Rename(t) ==
  /\ saver[t].at = "rename"
  /\ IF tmp = NoFile THEN UNCHANGED <<tmp, file>> ELSE file' = tmp /\ tmp' = NoFile
  /\ saver' = [u \in Threads |-> IF u = t THEN Idle ELSE [saver[u] EXCEPT !.fd = Moved(@)]]
  /\ AfterSave(t)
  /\ UNCHANGED <<lock, plan, store, raced, rest, unsaved>>

\* The file cannot be opened, or not be written to its end: the error goes unseen.
FailSave(t) ==
  /\ saver[t].at \in {"read", "write"}
  /\ tmp' = IF saver[t].at = "write" /\ saver[t].fd = "tmp" THEN Torn ELSE tmp
  /\ file' = IF saver[t].at = "write" /\ saver[t].fd = "file" THEN Torn ELSE file
  /\ saver' = [saver EXCEPT ![t] = Idle]
  /\ AfterSave(t)
  /\ unsaved' = TRUE
  /\ UNCHANGED <<lock, plan, store, raced, rest>>

\* No job and no save is under way.
AllIdle ==
  /\ \A t \in Threads : saver[t] = Idle
  /\ \A j \in JobIds : jobs[j].at \in {"none", "done"}

------------------------------------------------------------------------------
\* nosd stops and starts: Start of what loadState finds.
Restart ==
  /\ restarts < MaxRestarts /\ restarts' = restarts + 1
  /\ lock' = "free"
  /\ schedules' = file.schedules /\ snapshots' = file.snapshots
  /\ cron' = Entries(file.schedules)
  /\ unsaved' = (file.is = "torn")
  /\ jobs' = [j \in JobIds |-> IF jobs[j] = NoJob THEN NoJob ELSE [NoJob EXCEPT !.state = "gone"]]
  /\ saver' = [t \in Threads |-> Idle]
  /\ raced' = FALSE
  /\ adrift' = adrift \cup (file.snapshots \ disk) \cup (disk \ file.snapshots)
  /\ UNCHANGED <<disk, made, tmp, file, sweeps>>

Save(t) == ReadLock(t) \/ Open(t) \/ Write(t) \/ Rename(t) \/ FailSave(t)
Run(j) == Start(j) \/ Take(j) \/ Record(j) \/ Retain(j) \/ Note(j) \/ Save(j)

Next ==
  \/ \E s \in Schedules : DeleteSchedule(s) \/ Fire(s)
  \/ \E s \in Schedules, setting \in Settings : CreateSchedule(s, setting) \/ UpdateSchedule(s, setting)
  \/ \E n \in DOMAIN made : DeleteSnapshot(n)
  \/ CreateSnapshot \/ SweepRetains \/ Save(Sweep) \/ Restart
  \/ \E j \in JobIds : Run(j) \/ CancelJob(j)

Spec == Init /\ [][Next]_vars

\* Every job is a goroutine that nothing holds up but the lock.
FairSpec == Spec /\ \A j \in JobIds : WF_vars(Run(j))

------------------------------------------------------------------------------
\* A job that is shown as succeeded has made a snapshot of all its subvolumes,
\* whatever failed on the way and whether it was cancelled or not.
SucceededIsComplete ==
  \A j \in JobIds : jobs[j].state = "succeeded" =>
    {made[n].subvol : n \in jobs[j].took}
      = Range(IF jobs[j].by = User THEN Manual ELSE Covers[jobs[j].by])

\* Every snapshot is on the disk just if it is recorded, or a job has just made it:
\* but for those of which an answer of the agent was lost, and those that a file of
\* another day has, or lacks, when nosd starts with it.
RecordsFollowDisk ==
  disk \ adrift =
    (snapshots \cup {n \in disk : \E j \in JobIds : jobs[j].at = "record" /\ n = Max(jobs[j].took)}) \ adrift

\* Retention takes only snapshots of schedules, and, with a MinKeep of one or more, not
\* the latest that the schedule has of a subvolume.
Latest(s, v) ==
  LET all == {n \in snapshots : made[n].by = s /\ made[n].subvol = v}
  IN  IF all = {} THEN {} ELSE {Max(all)}
UsersSpared == \A n \in snapshots \ snapshots' : made[n].by # User
LatestSpared == \A s \in Schedules : \A v \in Range(Covers[s]) : Latest(s, v) \subseteq snapshots'
RetentionSpares ==
  [][lock' = "free" /\ restarts' = restarts =>
       UsersSpared /\ (Policy.minKeep > 0 => LatestSpared)]_vars

\* Of the snapshots of a schedule and a subvolume: the newest of each of the latest
\* periods, unless it is too old.
NewestOfEach(S, within, limit, Period) ==
  {n \in S : /\ Today - DayOf[n] < within
             /\ \A m \in S : m > n => Period[DayOf[m]] # Period[DayOf[n]]
             /\ Cardinality({Period[DayOf[m]] : m \in {k \in S : k >= n}}) <= limit}

\* What the documentation promises to keep: the last of Policy.days days, one of each
\* of the last months and one of each of the last years.  What it says of weeks and of
\* MinKeep is not so.
Promised(S) ==
  {n \in S : Today - DayOf[n] < Policy.days /\ Cardinality({m \in S : m >= n}) <= Policy.days}
    \cup NewestOfEach(S, 30 * Policy.months, Policy.months, Month)
    \cup NewestOfEach(S, 365 * Policy.years, Policy.years, Year)

\* Retention, as often as it comes and whatever it could not delete before, leaves of
\* every schedule and subvolume what is promised.
PromiseKept ==
  [][lock' = "free" /\ restarts' = restarts =>
       \A s \in Schedules : \A v \in Range(Covers[s]) : Promised(OfSchedule(s, v)) \subseteq snapshots']_vars

HasMemory(content) ==
  content.is # "torn" /\ content.schedules = schedules /\ content.snapshots = snapshots

\* When all is quiet the state file has what is recorded, unless two saves ran into
\* each other, the last change was of the kind that is not saved, or no save has
\* succeeded since one failed.
QuietIsSaved ==
  lock = "free" /\ AllIdle /\ ~unsaved /\ ~raced => HasMemory(file)

\* What is recorded is what is on the disk and, when all is quiet, in the state file.
RecordsAreTrue == TypeOK /\ RecordsFollowDisk /\ QuietIsSaved

\* A job comes to its end, unless a request has got stuck with the lock.
JobsEnd ==
  \A j \in JobIds : jobs[j].state = "pending" ~> lock = "stuck" \/ jobs[j].at \in {"done", "none"}
=============================================================================
