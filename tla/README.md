# NithronOS: models, checks and proofs

TLA+ specifications of the concurrent and failure-prone parts of NithronOS, a
NAS operating system: `nosd` (the Go daemon behind the HTTP API), the
privileged agent it talks to over a Unix socket, and the sync, backup, update
and application machinery inside `nosd`. Each module is translated from the code
it names; `PROJECT.json` maps every definition to its lines.

    tlc -workers 2 -config Firewall.cfg MCFirewallManager.tla
    tlapm NosdChanges_proofs.tla

## 1. Inventory

Paths are under `src/backend/nosd/` unless they begin otherwise.

| Component | State it keeps | Operations | Status |
|---|---|---|---|
| Firewall manager, `pkg/net/firewall.go` | pending plan, current state, rollback timer; rules in the kernel, config and backup file | GetState, CreatePlan, ApplyPlan, ConfirmPlan, Rollback, timer | modelled: `FirewallManager` |
| Updates with snapshots, `router.go`, `pkg/snapdb`, agent snapshot handlers | transaction index under a lock file, snapshots on each target | apply, rollback, prune | modelled: `UpdateTx` |
| Pool transactions, `internal/server/pools_*.go` | keys held, transaction files, pool records, fstab | create, destroy, add/remove/replace a device, import, options; poll, status | modelled: `PoolTx` |
| Files on demand, `pkg/sync/smartsync` | placeholders, pins, download queue, total size, state file | request, cancel, pin, unpin, give up, sweep, worker | modelled: `SmartSync` |
| Atomic files, `internal/fsatomic` | a file with `.tmp` and `.lock` beside it | SaveJSON, LoadJSON, WithLock | modelled: `AtomicFile` (used by `Accounts`) |
| Realtime hub, `pkg/sync/realtime` | clients, subscriptions, presence, file locks, three channels, one Send buffer per client | Run loop, connect, subscribe, lock, unlock, relay, unregister, shutdown | partly: `RealtimeHub` |
| Offline queue and manager, `pkg/sync/offline` | operation queue, local file states, mode | track, queue, merge, dequeue, complete, cancel, clear, sync, pin | partly: `OfflineSync` |
| Sync encryption keys, `pkg/sync/crypto` | master key in memory, master.key, recovery.key, a file per share | initialize, unlock, lock, recover, change password, new recovery key, share key | partly: `EncryptionKeys` |
| Change tracking, `pkg/sync` | nothing on the server; a cursor and a mirror on the device | scan, compare, cut off, answer | partly: `SyncChanges` |
| Backup scheduler and jobs, `pkg/backup` | schedules, cron entries, snapshots, jobs, state file | create/update/delete a schedule, run, cancel, retention, save | partly: `Retention`, `BackupScheduler` |
| Accounts, `internal/auth/store`, `internal/server/users_handler.go`, `router.go` | users in memory and in users.json | first setup, login with lockout, create, update, delete, roles, enable, recovery reset | partly: `Accounts` |
| Apps lifecycle, `pkg/apps` | record, parameters, compose file, data, snapshots, unit | install, upgrade, start, stop, restart, delete, roll back | partly: `Apps` |
| Agent host operations, `src/agent` | none of its own | runs commands | partly: the snapshot handlers, in `UpdateTx` |
| A/B updater, session manager, first boot and rate limits, activity and collaboration, alerts and notifications, shares, WireGuard/HTTPS/TOTP, desktop sync core, web frontend and installer | | | not modelled, see 6 |

How they interact:

- HTTP handlers run on one goroutine per request and call the managers
  directly. Nothing serialises requests but the mutex or lock file of the manager
  they reach.
- `nosd` calls the agent over HTTP on a Unix socket. A call may fail after the
  agent has done its work. The agent keeps no state between calls; snapshots,
  fstab and mounts are its memory.
- The hub and its connections talk over Go channels (`register`, `unregister`,
  `broadcast`) and share tables under `h.mu`.
- Timers (`time.AfterFunc`, tickers, cron, pollers) enter the managers by their
  mutex.
- Every manager persists its state as JSON, some through `fsatomic`, some with
  `os.WriteFile`, some with a temporary file of their own; a restart reads it back.
  Between an operation and its save others come in wherever the mutex was given
  up.

What is hard, and what makes each part correct:

| Component | Hard behaviour | Correctness |
|---|---|---|
| Firewall | timers that fired before they were stopped; a second apply on top of an unconfirmed one; nft or a file write that fails half-way; a restart | while a configuration is pending, the rules it replaced are in the backup or in force; it ends, and is confirmed only from its own trial |
| Hub | departures racing registrations; full channels; closing a channel others send on; a mutex taken twice | tables agree, known clients are open, locks pass through free, senders get through |
| Updates | concurrent appends; a snapshot or restore that fails; a stop between snapshot and record | no record lost, success only when everything succeeded, requests end |
| Pools | busy check, key and save in three steps; readers that remove the temporary file of a save; a lock asked for by its holder | one plan per key, honest transaction files, keys given back |
| Offline | merging into what is already taken; two syncs at once; a stop between the local state and the queue | one worker per operation, no newest change forgotten but in named ways, the queue is worked off |
| Encryption keys | a failed attempt changes the key in memory; files written in place; two recovery keys | only the master key gets into files, it is not lost, the recovery key answered works |
| Changes | files written during a scan; lost and cut-off answers | the mirror is the cursor; it converges |
| Files on demand | cancelling and pinning while the worker downloads; restart in the middle | the accounting is exact, everything shown as downloading is, urgent requests are served |
| Backup | overlapping saves with one temporary file; work of the agent whose answer is lost; retention | success means complete, records follow the disk, retention keeps what is promised |
| Accounts | save after the lock was given up, undo of a failed save, stale copies | answered is saved, setup stays closed, an administrator stays, a lockout lasts |
| Apps | requests on one application in any order; failure at any command | settled statuses, true answers, a failed upgrade leaves what was there |

`PROJECT.json` lists each hazard at its line, with the properties that cover it.

## 2. Modules

    CommitConfirm <--implements-- FirewallManager \
                                  PoolTx          <-- NosdChanges_proofs
    FileLease     <--implements-- RealtimeHub     \
                                  EncryptionKeys  <-- SyncServices_proofs
                                  UpdateTx        <-- UpdateTx_proofs
                                  OfflineSync     <-- OfflineSync_proofs
                                  SyncChanges     \
                                  SmartSync       <-- SyncedFiles_proofs
    Retention  <--extended by--   BackupScheduler <-- BackupScheduler_proofs
    AtomicFile <--extended by--   Accounts        <-- Accounts_proofs
                                  Apps            <-- Apps_proofs
    MCx: the instance of x for TLC

Where one module of proofs extends two specifications, the names of one of them that
every module has begin with the part (`PoolSpec`, `ChangesTypeOK`, `HubSpec`).

The definitions named `X_Something` next to an `X`, with a comment that begins
"Mutant:", are X with a plausible bug. No specification uses them. Each shows
that one property notices that bug.

Histories (variables that no guard but a bound reads) let a property name its
exceptions: what the code really can lose is an event in `events`, `lost`, `cut`,
`slips`, `raced` or the like, and the property holds without it.

### FirewallManager

Every method of `FirewallManager` holds `fm.mu` throughout, so each is one
action. `ApplyPlan` is four, one per way it can end: `ApplyBackupFails`,
`ApplyRefused` (nft refuses the script), `ApplyNotSaved` (nft takes it and the
config write fails) and `ApplySucceeds`. `RollbackToBackup` is the shared helper,
with the state its caller has reached as parameters. A timer is idle, armed, or
fired and waiting for `fm.mu`; `TimerFires` and `AutoRollback` are the two
halves of `autoRollback`, because `Timer.Stop` cannot recall a timer that has
fired. `Restart` keeps the kernel's rules and the files and loses the rest.

Rules are abstracted to batches: `Base` is what ran before nosd, a plan stands
for the batch that its script loads. The generated scripts begin with "flush
ruleset" and so replace the kernel's batches; a backup is the output of
`nft list ruleset` without that line and so adds to them. Three history variables
say what an undo is worth: `standing` is what was loaded at the start or at the last
confirmation, `outcome` is open from the moment a plan is loaded until it is
confirmed or undone, and `overwritten` remembers that the backup was replaced or
emptied in between.

`CommitConfirm` is the promise: trials, acceptance only from a trial, no second
trial of an accepted plan. The mapping is `trial <- onTrial` (the reported plan
while the status is pending_confirm) and `accepted <- confirmed`.

### RealtimeHub

One action per handler of `websocket.go` and per case of the select in
`Hub.Run`. A section under `h.mu` is one step. `unregisterClient` is the
exception: it asks for `h.mu` again while it holds it, so the hub goes to
"leaving", where `MuFree` is false and every operation on the hub waits. A
handler sends its reply (`Reply`) and its broadcasts (`Notify`) in later steps,
without the mutex, so other goroutines come in between. A send on a closed
`client.Send` panics: on the read goroutine that ends nosd (`down`), on the HTTP
goroutine net/http recovers it. `h.clients`, `h.userClients` and `h.presence`
change together and are one variable. Message contents, cursors, idle marking
and the messages left in a Send buffer are not modelled; a full Send buffer
drops and never blocks. The goroutines of `realtime_handler.go` add nothing but
the call of `ServeHTTP`.

`FileLease` is the promise to users: a file passes from one user to another
only by being free in between. The mapping takes the holder to be the user of a
lock that has not run out.

### UpdateTx

A request is one HTTP goroutine and the transaction it records. The lock file
of the index splits `snapdb.Append` in `AppendReads` and `AppendWrites`; what
the writer puts back is what it read. `BeginApply`, `Snapshot`, `SnapshotFails`,
`SnapshotsDone` and `Update` follow the apply handler, `BeginRollback`,
`Restore`, `RestoreFails` and `RollbackDone` the rollback handler; each call to
the agent is a step of its own, with the failures the agent or the connection
can produce (also work done whose answer is lost). `Record` leads to an Append
and remembers where the handler goes on, since it ignores Append's error.
`BeginApply` sets out with the roots that AllowedRoots answers with: the two it
always has, and any of the pools, since it drops pools silently when lsblk fails.
`archive` holds who made the snapshot of each target and ID, an ID being the
second it was made in; `lost` remembers those that a prune took or a namesake
replaced. `Prune` acts on one target; `Crash` stops nosd at any
moment, and a new one takes new requests. File contents are left out: a restore
is recorded by the snapshot it restored.

Left out deliberately: the order in which one apply visits the roots (any order
is allowed, the code's among them), the services stopped around a snapshot,
`/etc`-level package state, a tar archive that is read while it is written, and
the name clash of two restores in one second.

### PoolTx

A request and the transaction it records are one. `Request` is the arrival with its
busy check; `Acquire` takes the key later, so two may pass the check. A plan runs
step by step (`StepStarts`, `StepEnds`, `StepFails`, `PlanDone`), saving the
transaction before and after each step. `saveTx` is two steps, `SaveWrites` of the
temporary file and `SaveRenames`, because `Poll` and `Status` remove that file when
they load the transaction; either may fail, and nobody looks. `Load` is the start of
a plan's goroutine, which works with the saved transaction, or with the zero one
(`Blank`: no steps, no name, so its saves go to ".json") when there is none to load.
`LockFails` is a lock file that cannot be opened: `WithLock` then skips what it
should have run and its callers go on. A device plan holds the lock of the pool records while
it executes and asks for it again at its end: it then waits for itself for good. A
destroy takes the lock twice, one after the other. `PoolRestart` forgets the keys and
leaves files and records. What commands do to disks is left out.

### OfflineSync

One action per call of the manager and the queue; `Track` and `Enqueue` are the two
halves of `TrackFileChange`, which unlocks in between, so that two calls for a path may
get to the queue in the opposite order; where the older one is then merged over the
newer, the path is `buried`. `triggerSync` is a goroutine
(`Trigger`, `Dequeue`, `Complete`, `SyncEnds`), of which `SetMode` can start a
second. An operation's content is the number of the change it carries, and the local state
is the number of the newest change; versions are left out, since nothing reads them.
Nothing in
the repository reports a failed operation, a conflict or a network change, so `Retry`
and the conflict states are never reached.

### EncryptionKeys

The manager's mutex covers each of its operations; a request looks at `isUnlocked`
before and sets it after. A request of Initialize is `GenerateMaster` or
`LoadMaster`, then `MakeRecovery`, then `OpenUp`. In memory the master key is nil,
the key, or what the password was turned into: `decryptAESGCM` assigns its result to
the field whether it failed or not, and a generation that cannot be saved leaves the
derived key there. `os.WriteFile` truncates first, so a write that fails leaves the
old file, a torn one or the new one.

### SyncChanges

The server keeps nothing: a request is `StartScan`, one `ScanFile` or `SkipFile` per
path while others write (`Edit`, `Finish`), then `Respond`, which compares with the
cursor (`ComputeChanges`) and cuts off at the limit, and `Receive` or `Lose` of the
answer. The cursor of a cut-off answer holds everything
(the history `cut`).

### SmartSync

Placeholders with their state and size, pins, the queue in priority order, and the
worker's two halves (`Take`, `Complete` or `Fail`) around the download. `Pin`,
`PinAsks` and `PinSaves` are `PinFile`, which lets go of the lock. A save cut off by
a stop leaves a torn state file; one that fails leaves that or the old one, and its
callers go on (`written`). When a file was last used matters, and is kept, only while it
is here (`aged`). `slips` counts the cancellations and registrations
that reset a file which is here or on its way; the accounting is off from then on.

### Retention and BackupScheduler

`Retention` is `selectGFSSnapshots` on lists of snapshots with the day they were
made, as folds. `BackupScheduler` is schedules with their cron entries, jobs
(`Start`, `Take`, `Record`, `Retain`), the hourly sweep (`SweepRetains`), and the
save in steps (`ReadLock`, `Open`, `Write`, `Rename`): what it copies by reference is read
again when it is written, and all saves share one temporary file. A request that changes
a schedule or deletes a snapshot does so in memory and never returns from its save
(`lock = "stuck"`). The agent may fail, and it may do its work and the answer be lost:
`Take`, `ApplyRetention` and `DeleteSnapshot` then leave a snapshot without a record, or a
record without a snapshot (the history `adrift`). A write of the temporary file may fail
and nobody look (`FailSave`; `unsaved`). nosd first starts with a file that has schedules
and snapshots of earlier days (`Configured`, `Earlier`), so retention finds some of an
earlier month.

`Promised` is what docs/backup.md:82-85 promise a schedule: the snapshots of the last days,
the newest of each of the last months and of each of the last years. It is stated on sets of
snapshots, without the selection's loops and tables. What the document says of weeks, and
types.go of MinKeep, does not hold and is in section 5.

### AtomicFile and Accounts

`AtomicFile` is `SaveJSON` in steps (create, fill, rename) under the advisory lock,
and `LoadJSON`, which removes `path.tmp` without it. `Accounts` extends it with the
user store: every request copies a user, changes the copy, puts it back with
`UpsertUser` (`Put`), and saves later the list taken then. When that fails, also after
the rename (`RenameFails`), `Undo` puts the old user back over whatever others did; it
is an event when another request is under way or the memory is no longer the list that
was to be saved, since then the change undone may be in the file, or that of another.
A login, a password reset and a reset of the second factor ignore the error of their save and
are answered with success all the same (`Ignoring`); what they changed is then undone. The
setup gate and login load the file anew. `events` remembers what the code cannot exclude: two saves that crossed,
an undo under another's change, a stale copy put back, two role changes at once.

### Apps

One application. A request is a program of steps (`Check`, `Make`, `Write`, `Snap`,
`Start`, `Mark`, `Render`, `Pull`, `Restart`, `Health`, `Undo`, `Drop`, ...), each
either on the host, where it may fail in one place, or in the store, which locks each of its
operations only. `Leave` is the client that goes, which kills the command of its
request and those after it but for the ones on the background context. The data is
the version that wrote to it; `AppWrites` is the application that does so. The
record's parameters are a map shared between copies (`maps`).

The ID of an upgrade's snapshot is the last part of the path in the first line of the
script's output that names the snapshots' directory. Where the data is a Btrfs subvolume
that line is btrfs's own, and what is taken from it is the ID of no snapshot (0): the
rollback then finds nothing to restore. `HelperPulls` says whether nos-app-helper.sh knows
compose-pull. The one in packaging does not, and every upgrade fails at its pull; the run
assumes one that does, since the steps after the pull are then reached, and the theorems
hold for both. A start that fails may leave containers behind (`Halfway`). The history `was`
is the host as a request found it. An upgrade may ask for a version other than that of the
catalog entry it renders, or for one of no entry.

Left out: that systemd starts a failed unit again by itself.

## 3. Runs

Every component has one run for all its properties; TLC reports the first one
that fails by name.

| Run | What it asks | Distinct states |
|---|---|---|
| `firewall` | a pending configuration has its timer, and the rules it replaced are in the backup or in force; the manager implements CommitConfirm; every trial ends | 79 thousand |
| `hub` | the tables of the hub agree; locks are leases; goroutines blocked on a full channel get through | 46 thousand |
| `update` | success names a snapshot of every root it asked for, which is there, and restored each; no record is lost; requests end | 497 thousand |
| `pool` | one plan at work per key; OK means all steps; transaction files follow; keys come back | 201 thousand |
| `offline` | one worker per operation; the newest change is kept; the queue is worked off | 791 thousand |
| `encryption` | only the master key gets into files; a password keeps opening it; the recovery key answered last recovers | 1.5 million |
| `changes` | the mirror is the cursor; what stood still is seen; the device converges | 486 thousand |
| `smart` | the total and the state file are what is here; what is shown as downloading is; the sweep frees enough and no more; urgent requests are served | 393 thousand |
| `backup` | success is complete; records are what is on the disk and in the file; retention spares users' and the latest, and keeps the days, months and years that the documentation promises; jobs end | 729 thousand |
| `accounts` | memory and file keep the users; setup stays closed; an administrator stays; answered is saved; a lockout lasts | 1.3 million |
| `apps` | statuses settle; answers are true; a failed upgrade restores; store, file and host agree | 2.3 million |
| `accounts_delete` | "Delete user - we'll remove them from the store" (users_handler.go:300) | violated: the other users are upserted, 204 is answered, and the user stays entirely as it was |

The type invariant `TypeOK` is part of `SpaceIsKnown`, `RecordsAreTrue`,
`UsersAreKept` and `StoreIsTrue`; in the seven other runs it is left to its theorem.
`OneToMerge` and `UnlockedHasKey` are in no run either: they are theorems.

Bounds, and why they are enough:

- Firewall: two timers that are live at once are what an apply needs to lose
  track of the earlier one; three plans let a stale timer meet a plan created
  after a confirmation.
- Hub: a connection of each of two users compete for a file; channels of one
  place are full at every turn; the tables relate one client and one channel, so
  one channel shows every interleaving. A lease of two ticks can be extended and run
  out between any two steps. The proofs do the rest for any number.
- Updates: two requests meet as two applies, an apply and its rollback, or a
  rollback of a rollback; a tar and a btrfs target; two seconds and Keep = 1 let
  a prune remove a recorded snapshot and let two requests share a second. Keep is
  at least 1 because the handlers turn anything lower into 5.
- Pools: two requests compete for one key, or one of them has the key of all
  creations; a plan of two steps has a middle to fail in. Restarts are not bounded.
- Offline: three changes of one path of two types: two may merge and the third
  passes them; two goroutines are as many as `SetMode` brings about in one sync.
- Encryption: two requests, two passwords, three recovery keys so that a second one
  replaces the first while another is made, one failed write, two restarts so that a
  file torn before one is met after it.
- Changes: a limit of one change and two edits cut an answer off; one fault is a
  file not read or an answer lost.
- Files on demand: two files, one under and one over the limit; two priorities; one
  restart; one reset or one write that fails, for the next that succeeds writes all.
- Backup: a schedule with a snapshot of last month and one of this month, and two more
  to make, so that retention has to choose between days and months; a policy that keeps
  one day and two months. One job, which overlaps with one sweep, with requests and with
  saves of its own; one restart. Several jobs are left to the theorems, which hold for any
  number, and so are policies, calendars and longer lists.
- Accounts: two users that are blank or given, two requests at a time, three in
  all, a limit of two failed logins, one failed write, one tick of a quarter of an
  hour, one restart.
- Apps: two requests at once or one after the other, two versions, one fault; a helper
  that pulls, without which no upgrade passes its second command.

Symmetry is used for requests, passwords and users only where the run checks no
liveness.

Fairness, and why the code justifies it:

- Firewall: the Go runtime fires armed timers, and a goroutine that waits for a
  mutex gets it. No user action is fair.
- Hub: weak fairness of each select case, since Go's select chooses at random
  among those that are ready; strong fairness of the senders, since a Go channel
  serves blocked senders first-come first-served. No peer is made to connect, speak
  or leave. `SendersGoOn` promises nothing once the hub is stuck in
  `unregisterClient` or has been shut down.
- Updates: calls to the agent and the file system return, so the handlers are
  weakly fair.
- Pools: the goroutine of a transaction goes on and pollers tick (weak); flock
  serves those who wait for the records (strong). `KeyComesBack` names the three ways in
  which the code does lose a key. That a lock file cannot be opened is nowhere fair.
- Offline: the ticker of `syncLoop` comes round while the mode is online, and the
  goroutines of a sync go on.
- Changes: the device asks again, and a request that is not lost is answered.
- Files on demand: the worker looks at the queue every second and downloads end.
  Requests of lower priority may wait for ever and are promised nothing.
- Backup: jobs are goroutines that nothing but the lock holds up.

Clock, prune, crash, restarts and the arrival of requests are nowhere fair.
Deadlock is checked where the system never stops; the runs of systems in which
requests, changes or faults are finite in number say CHECK_DEADLOCK FALSE.

## 4. Proofs

All are checked by TLAPS for every value of the constants that satisfies the
named assumption of the module (special values distinct; capacities and bounds
natural numbers; Keep, Limit and Steps positive; schedules of at least one
subvolume, which the code requires). `RetentionAssumption` says that later snapshots
were not made on earlier days, and puts no bound on the four classes of a policy;
`SmartAssumption` that files and names are finite in number; `StartAssumption` that nosd first starts with a file
and with the snapshots it names; `GivenAssumption` of `Accounts`
that the daemon starts without users or with an administrator among them, as every
finished setup leaves it; that of `Apps` that what is installed at first has its
compose file and its data, with a settled status, and that nothing else runs. Nothing bounds the number of plans, timers,
clients, channels, files, requests, pools, syncs, paths, passwords, jobs or schedules.

| Module | Theorem | Statement |
|---|---|---|
| NosdChanges_proofs | TypeCorrect | `Spec => []TypeOK` |
| | PendingRevocable | `Spec => []PendingIsRevocable` |
| | ImplementsCommitConfirm | `Spec => RefinesCommitConfirm` |
| | PoolTypeCorrect | `PoolSpec => []PoolTypeOK` |
| | MutualExclusion | `PoolSpec => []OneAtWork` |
| | OkIsWhole | `PoolSpec => []OkMeansAll` |
| | FilesFollow | `PoolSpec => FileFollows` |
| SyncServices_proofs | HubTypeCorrect | `HubSpec => []HubTypeOK`, with it the bound of the broadcast queue |
| | HubTablesAgree | `HubSpec => []TablesAgree` |
| | LocksAreLeases | `HubSpec => ImplementsFileLease` |
| | TypeCorrect | `Spec => []TypeOK` (of EncryptionKeys) |
| | MasterOnly | `Spec => []OnlyMaster` |
| | KeysInReach | `Spec => []UnlockedHasKey` |
| | PasswordsKeep | `Spec => []PasswordKeepsKey` |
| | AnswersRecover | `Spec => []AnsweredKeyRecovers` |
| UpdateTx_proofs | TypeCorrect | `Spec => []TypeOK` |
| | IndexGrows | `Spec => IndexOnlyGrows` |
| | SuccessesAreWhole | `Spec => []SuccessIsWhole` |
| OfflineSync_proofs | TypeCorrect | `Spec => []TypeOK` |
| | OneWorkerEach | `Spec => []OneWorker` |
| | MergesAreUnique | `Spec => []OneToMerge` |
| | NewestKeptAlways | `Spec => []NewestIsKept` |
| SyncedFiles_proofs | ChangesTypeCorrect | `ChangesSpec => []ChangesTypeOK` |
| | MirrorsCursor | `ChangesSpec => []MirrorIsCursor` |
| | SeesSteady | `ChangesSpec => []SteadyIsSeen` |
| | SpaceStaysKnown | `Spec => []SpaceIsKnown` (of SmartSync) |
| | HydratingStaysServed | `Spec => []HydratingIsServed` |
| | SweepsFreeEnough | `Spec => SweepFreesEnough` |
| BackupScheduler_proofs | TypeCorrect | `Spec => []TypeOK` |
| | SuccessIsComplete | `Spec => []SucceededIsComplete` |
| | DiskIsRecorded | `Spec => []RecordsFollowDisk` |
| | RecordsStayTrue | `Spec => []RecordsAreTrue` |
| | RetentionSparesThem | `Spec => RetentionSpares` |
| | PromisesAreKept | `Spec => PromiseKept` |
| Accounts_proofs | UsersStay | `Spec => []UsersAreKept` |
| | SetupStaysClosed | `Spec => []SetupCloses` |
| | AnAdminStays | `Spec => []AdminStays` |
| | AnswersAreSaved | `Spec => AnsweredIsSaved` |
| | LocksHold | `Spec => LockHolds` |
| Apps_proofs | AppsInv | `Spec => []IInv`, the types and the seven parts named below |
| | SettledIsKept | `Spec => []QuietIsSettled` |
| | AnswersAreTrue | `Spec => []AnsweredIsTrue` |
| | FailuresRestore | `Spec => []FailedUpgradeRestores` |
| | StoreIsKept | `Spec => []StoreIsTrue` |

- Firewall. `PendingIsRevocable` says for open and for settled outcomes where the
  rules are, and is inductive with the types: a failed rollback leaves them in the
  backup, a successful one puts them back, and a new backup is taken of what is in
  force. `IInv` adds `UnconfirmedInv`: the
  pending plan and the plan on trial were issued and never confirmed. Without it
  the refinement fails at `ApplySucceeds`, where nothing local says that the plan
  was not accepted before; that invariant needs `ConfirmPlan` to clear
  `pendingPlan`. Each action then maps to a step of CommitConfirm or to a stutter.
- Hub. `SubscriptionsAgree` and `KnownAreOpen` are not inductive alone: a
  registration would add a client whose Send is closed or whose subscriptions
  are left over. `NewAreFresh` says that a connection that is new or queued has
  left no trace. `LocksAreLeases` needs the types only: every action either
  leaves the holder of a file, frees it, or takes a free one.
- Updates. `LockInv` says that the request about to write is the holder of the
  lock and that what it read is the index still; then the write extends it. A
  crash drops lock and writer together. `OutcomeInv` carries the outcomes: at
  each step, and while it is in Append, a request's recorded targets and the roots
  still to do make up Targets (`ApplyInv`), its restored marks and those still to
  do make up what it began with (`RestoreInv`); and a record is in the index only
  once its request has begun and no longer restores, so that nothing said of a
  record can become false after it was written (`StaysSettled`). `HasArchives` goes along: the snapshots a record names are there,
  or a prune or a namesake took them and `lost` says so.
- Pools. `KeyInv` ties the key to the plan at work and to its poller;
  `ProgressInv` relates a transaction to where its goroutine is, also while it is
  within `saveTx` (`Step`); `FileInv` keeps the file behind the memory; `LockInv`
  says that a device plan never gives up the lock of the records once it has it, so
  that no other step of it comes late. A step of one transaction cannot be told from
  another (`OtherTx`), which leaves one case per action.
- Offline. `CountInv` bounds the operations by the changes that are queued, with
  the cardinality of what is tracked but not yet queued, so that each change finds a
  number; `NewestInv` adds that a newest change on its way belongs to its path, and that
  the file is not ahead of the memory, for the stops. Queueing the newest change covers
  its path; queueing an older one hides nothing newer, or the path is buried.
- Encryption keys. `NothingYet` says that a derived key is in memory only while no
  request is past its first look and encryption is locked, and that without
  master.key nothing else was ever made; `InUse` that whoever is past it finds the key
  or a wrong one was tried. `LastMade` says that of recovery keys made one at a time
  the last is on disk, also before it is answered.
- Backup. `JobInv` says that what a job has made and what it has still to do are what
  it was asked for, so that nothing is left out when todo is empty. `FollowInv` says
  that jobs about to record have each a snapshot of its own, on the disk, in
  no record and not adrift: retention, which takes recorded ones only, cannot take it, and to record
  one cannot hide another. `SaverInv` keeps the end of a save from moving a job
  that is elsewhere.
  Which snapshots are selected plays no part in that. `SavedInv` is for the state file:
  unless two saves have raced, one thread at most is between copying and renaming, and
  when none is about to save, the file has what is in memory; a thread that will save
  stands for every change that is not there yet. The loops of `selectGFSSnapshots` are
  recursive functions on the length of the list: `Thinned` is shown to be the newest of
  each of the first periods, by induction on subsets of the positions, for lists and
  limits of any length and for limits below zero (`SelectedIsReference`). From that the
  latest snapshot is kept whatever the policy, if MinKeep is at least one
  (`LatestIsKept`); and what is promised is selected (`PromisedIsSelected`): a set of
  snapshots and the list that the code sorts them into agree on who is the newest of a
  period and on how many periods are later (`NewestFirstList`), and the days, months and
  years that are promised are among the periods that the selection keeps.
- Changes. `AnswerInv` and `ScanInv` say what an answer may be made of and what the
  scan has seen so far.
- Files on demand. A save is put as what it may leave in the file (`Wrote`).
  `SmartInv` is the three properties, what a saved state may say of pins, and `Waiting`: while no request has slipped, whoever hydrates is in the queue or
  with the worker. The total is a sum over a set; what one file adds to it or takes from
  it (`SizeOf`) is proved by induction on finite sets, and that the sweep stops in time
  by induction on the files it has gone through.
- Accounts. `Sound` says what a request is about at each of its steps: its copy, its new
  record and what may differ between them. `LockInv` says that whoever is at work on
  `path.tmp` holds the lock, and that the file it has open is `path.tmp` as it left it or
  one that a load has removed, so that the rename moves its own list or fails. While no
  saves cross, `AloneInv` has the memory be the list of the one that saves, and `QuietInv`
  has the file be what the memory was before it. `SetupInv` and `AdminInv` say the same of
  every table there is, in memory, in the file, to be saved and to go back to: it is
  empty or has an administrator (`TablesKept`); and of a role change that has been allowed,
  that an administrator other than its own is left (`Counted`). A step is early or late in
  a request, with one fact for each (`EarlyFacts`, `PutFacts`, `GoesOn`, `Succeeds`,
  `Undoes`), so that the parts do not go through all the handlers again.
- Apps. Each step is first put as what it comes to: a command done or failed, the
  record written back, an answer. The parts then reason from those facts (the lemmas
  whose names end in `Does`). `AllSound` says what a request is about at each of its
  steps; `AloneInv` that a request counted as alone has no other at work; `SettledInv`
  that a status that must not stay has a request that will end it (`Closes`);
  `SavedInv` that the file of records is behind the memory only while an upgrade that
  merged parameters has still to save. `AnswersInv` says what a lone request has come to at
  each step (`HasDone`), which its answer then reports: the unit is the one the request
  found, where it was active, or runs what the compose file says. `RestoresInv` says of an upgrade
  that nothing disturbed that the compose file, the data and the snapshot it would go back to
  are still there (`CanRestore`), or that its snapshot's ID is of none, and then who has
  written to the data since. `StoreInv` covers the same for the store: while no
  command failed and no requests overlapped (`Calm`), whoever installs or deletes is the only one at work,
  and when nobody is, record, compose file, data and unit match; a rollback between
  removing the data and putting them back still has its snapshot.

What proving has changed. `SetupCloses` was false beyond the bounds of its run: an upsert
undone after others had put and finished took the administrator out of the memory, and
the next save out of the file; the event "undone" now covers it. The exception of `LockHolds`
was wider than needed. `RetentionSpares` needs days that do not go back.

Only model-checked: the liveness properties (`TrialEnds`, `SendersGoOn`,
`RequestsEnd`, `KeyComesBack`, `PendingIsTaken`, `Converges`, `UrgentIsServed`,
`JobsEnd`), since ENABLED and fairness are beyond the prover's reach. Every invariant and
action property of the runs, and both refinements, are proved.

## 5. Known disagreements without a run

Found while reading the same code; the models follow the code. Where a property
would fail because of one, it names it as an exception.

Firewall (`firewall.go`)
- The plan is in the config file as soon as nft loaded it, and no rollback restores
  it (496; docs/networking.md:88 "Confirmation required to persist changes").
- `rollbackToBackup` feeds the output of "nft list ruleset", without "flush
  ruleset", so the rejected plan stays loaded (526; docs/networking.md:101).
- `ApplyPlan` replaces `fm.rollbackTimer` without stopping an earlier timer, and
  `autoRollback` does not ask whose it is (139; docs/networking.md:119).
- After a rollback `currentState` describes the rejected plan (532); `ConfirmPlan`
  removes the backup (171); an apply on top of an unconfirmed one overwrites the only
  backup (105); a restart loses the timer (34).

Realtime hub (`hub.go`, `websocket.go`)
- `unregisterClient` holds `h.mu` when `broadcastPresenceLeave` asks for it: the hub
  blocks for ever (hub.go:313).
- `releaseClientLocks` looks the client up after it was deleted and releases nothing
  (302). A departure taken before the registration leaves the client registered (202,
  225). An extension shorter than what is left ends a lock early (494). Notices of
  two locks may be broadcast in the opposite order (websocket.go:482).

Updates
- A snapshot ID is a second and a slug: two applies in one second share an archive
  (agent snapshot.go:86; docs/requirements/snapshots-updates.md:26).
- Snapshots of an update are in memory until its last Append; a stop loses them
  (router.go:1629). Errors of Append are ignored (1648). Prune removes snapshots that
  the index names (snapshot_prune.go:77).
- AllowedRoots drops the pools silently when lsblk fails (roots.go:18, discovery.go:19),
  so an update may succeed without a snapshot of any pool. And findBtrfsMounts takes the
  word "mountpoint" of lsblk's output for the mount (discovery.go:43), which is no
  directory.

Pools
- The key of a create is never given back (pools_apply_create.go:110); a stop leaves
  a running transaction for good; options are read before the lock and written over
  others' (pools_options.go:187); records in the other form are read as nothing.
- A device plan whose lock file cannot be opened never runs, and its key is held for
  good (pools_device.go:332); one whose first save failed runs no step, and saves
  success under no name (pools_device.go:194, tx_store.go:24).

Offline queue and changes
- Two calls of TrackFileChange for one path may queue in the opposite order, and the
  older hash is then merged over the newer one (manager.go:207, queue.go:158).
- Priorities put a later delete before an earlier create (queue.go:194); an operation
  in progress at a stop is never dequeued again, and a torn queue file loads as empty
  (queue.go:206).
- The cursor of a cut-off answer holds everything: changes past the limit are never
  sent (change_tracker.go:155; docs/sync/api.md:488).

Files on demand (`placeholder.go`)
- Cancelling, or registering anew, a file that is local or being downloaded leaves its
  size in the total (299, 173); a file saved as being downloaded stays so after a
  restart (666). CompleteHydration and the sweep ignore that state.json was not
  written (433, 643).

Encryption keys (`encryption.go`)
- A wrong password or recovery key sets the key in memory to nil while encryption
  stays unlocked (210); `ChangePassword` then saves an empty key, and the master key is
  left in recovery.key only, or nowhere when encryption was unlocked without
  Initialize, which makes no recovery key.
- `Lock` keeps the keys in memory; Initialize of an existing key replaces the recovery
  key; a file torn by a cut-off write makes every later Initialize fail; a recovery
  does not let a new password be set.

Backup (`scheduler.go`)
- Create, update and delete of a schedule and delete of a snapshot wait in
  `saveState` for the lock they hold (822). `cron.WithSeconds` refuses expressions of
  five fields (docs/backup.md). MinKeep is compared with a table of several entries per
  snapshot; "2006-W01" keys weeks by month (docs/backup.md:82). The end of a job
  overwrites its cancellation (docs/backup.md:253). Days
  is a limit on snapshots as well as on their age (683): of an hourly schedule seven "days"
  are seven hours (docs/backup.md:82 "7 (last week)"), and `Promised` promises no more.
- A snapshot that the agent made, but of which the answer was lost, is in no record and never
  deleted (540); one that it deleted without the answer arriving stays in the records (659).
  The failed write of the temporary file is ignored by every caller of `saveState`
  (504, 617, 785, 839).

Accounts
- `ChangePassword` panics, for nothing sets its context key (users_handler.go:351).
  An update of the name leaves the old record. The check for the last administrator
  races, and `UpdateUser` has none. A load removes `path.tmp` under a writer, whose
  save fails and is undone over the changes of others. A recovery reset is unknown to
  the running daemon until a restart. Login ignores that the user was not saved and answers
  ok (router.go:716, 723, 736), and so do the resets of a password (350) and of the
  second factor (372): a failed one has changed nothing.

Apps (`lifecycle.go`)
- Of two installs the refused one stops the application and removes its directory
  (172). A client that disconnects during an upgrade's restart or health check is told
  "rolled back" of a rollback that never started. A refused upgrade has changed the
  parameters already, and the application is marked "error" though it runs. An upgrade
  with parameters of an application installed without any panics.
- On a Btrfs subvolume the ID taken of a snapshot is the end of btrfs's own line
  (489-498, nos-app-snapshot.sh:111), which the rollback's pattern does not match
  (nos-app-snapshot.sh:161): the data is not restored after an upgrade that failed. Nor are
  the containers that a failed start leaves put on the restored data.
- nos-app-helper.sh has no compose-pull (packaging, 188-233), so every upgrade fails there.
  The version of the request is recorded (320) whatever the entry that was rendered (246).
  Install and start do nothing to a unit that is active, as a delete that could not stop it
  leaves it, with the compose file of the application that was deleted.
  `DeleteApp` makes no snapshot (docs/apps/catalog.md:168 "Pre-delete").

Parts that are not modelled
- Sessions: two stores and main.go's copy write one file with different fields
  (router.go:222, main.go:61); a failed save makes a retry look like a reuse
  (manager.go:168).
- Updater: `CheckForUpdates` resets a running update to idle (updater.go:186); the
  file lock is held during the call only; an interrupted update is marked failed at
  every start instead of rolled back (590; docs/updates.md).
- Devices: `ListDevicesByUser("")` filters on an empty user, so the full scan for a
  token finds nothing (device_manager.go:199).
- Notifications: reads of a channel replace its stored configuration by the
  sanitized one.

## 6. Not modelled, and the plan

- A/B updater: nothing in the running daemon constructs it, so which of its calls
  can meet is not settled by the source.
- Session manager: three writers of one file with different fields, whose content is
  settled by who came last; see 5.
- First boot code, rate limits, activity, collaboration, shares: one table or
  counter under one mutex each, no protocol between actors beyond the lock.
- Alerts, monitoring, notifications, webhooks: evaluation of thresholds and
  delivery; `Send` has no caller.
- WireGuard, HTTPS, TOTP, agent host operations other than snapshots: files and
  external tools, little state of their own.
- Desktop sync core: the module does not compile at this commit. Web frontend and
  installer: user interface and packaging.
- Within modelled parts: message contents and presence in the hub; what commands do to
  disks; conflict copies and block deltas, which transform one file each; replication
  and restore jobs; the catalog, ports, proxy and health polling of applications; file
  and device keys, which nothing makes yet.

What would come next: replication jobs in `BackupScheduler`; an abstract transaction log that both `UpdateTx` and `PoolTx`
implement.
