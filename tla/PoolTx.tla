------------------------------- MODULE PoolTx -------------------------------
(***************************************************************************)
(* Pool transactions of nosd (internal/server/pools_*.go): the busy check  *)
(* and the lock of a pool key, the goroutine that executes a plan step by  *)
(* step and saves its progress, the poller that gives a key back, and the  *)
(* pool records under their file lock.                                     *)
(*                                                                         *)
(* A request and the transaction it records are one name, being given a    *)
(* fresh UUID.  A key is the {id} of a URL: nothing tells that two of them *)
(* mean one pool, and Create stands for all the pools that are created.    *)
(***************************************************************************)
EXTENDS Naturals

CONSTANTS Txs,       \* requests (bound)
          Pools,     \* the ids that requests name
          Create,    \* the key of every create request
          Steps,     \* the steps of a plan (bound)
          NoTx

ASSUME PoolAssumption == /\ Steps \in Nat \ {0}
                         /\ Create \notin Pools
                         /\ NoTx \notin Txs

VARIABLES
  held,      \* poolHeldByTx, in memory
  kind, key, \* what a request is and the key it names
  pc, next,  \* where it is, and where it goes after saveTx
  mem,       \* its transaction as the goroutine has it
  tmp, file, \* <tx>.json.tmp is there; what <tx>.json holds, Blank when there is none
  polls,     \* the transactions whose poller runs
  storeLock, \* who holds pools.json.lock
  store,     \* pools.json: its form, and the pools with a record
  view,      \* what a request has read of it, with its change
  fstab      \* the pools with a well-formed line in /etc/fstab

txFiles == <<tmp, file>>
records == <<storeLock, store, view>>
flow == <<kind, key, pc, next, mem>>
poolVars == <<held, flow, txFiles, polls, records, fstab>>

Keys == Pools \cup {Create}
Kinds == {"none", "create", "device", "destroy", "import", "options"}
Stores == [form : {"list", "records"}, of : SUBSET Keys]

\* A transaction: whether it has its ID and its steps, the steps done, the
\* status of the next one ("ok": of the whole), and whether FinishedAt is set.
Progress == [named : BOOLEAN, done : 0..Steps,
             at : {"pending", "running", "error", "ok"}, finished : BOOLEAN]
Fresh == [named |-> TRUE, done |-> 0, at |-> "pending", finished |-> FALSE]

\* The zero Tx: what LoadJSON leaves of a file that is not there.
Blank == [named |-> FALSE, done |-> 0, at |-> "pending", finished |-> FALSE]

\* A request that waits, executes, or will do nothing any more.
Executing == {"lock", "run", "agent", "failed", "record", "save"}
Ends == {"refused", "over", "dead"}

PoolTypeOK ==
  /\ held \in [Keys -> Txs \cup {NoTx}]
  /\ kind \in [Txs -> Kinds] /\ key \in [Txs -> Keys]
  /\ pc \in [Txs -> {"idle", "write", "rename", "acquire"} \cup Executing \cup Ends]
  /\ next \in [Txs -> {"acquire"} \cup Executing \cup Ends]
  /\ mem \in [Txs -> Progress] /\ file \in [Txs -> Progress]
  /\ tmp \in [Txs -> BOOLEAN]
  /\ polls \subseteq Txs
  /\ storeLock \in Txs \cup {NoTx}
  /\ store \in Stores /\ view \in [Txs -> Stores]
  /\ fstab \subseteq Keys

PoolInit ==
  /\ held = [k \in Keys |-> NoTx]
  /\ kind = [t \in Txs |-> "none"] /\ key = [t \in Txs |-> Create]
  /\ pc = [t \in Txs |-> "idle"] /\ next = [t \in Txs |-> "over"]
  /\ mem = [t \in Txs |-> Blank] /\ file = [t \in Txs |-> Blank]
  /\ tmp = [t \in Txs |-> FALSE]
  /\ polls = {}
  /\ storeLock = NoTx
  /\ store = [form |-> "list", of |-> {}]
  /\ view = [t \in Txs |-> store]
  /\ fstab = Pools

Goto(t, step) == pc' = [pc EXCEPT ![t] = step]

------------------------------------------------------------------------------
(* saveTx and LoadJSON: a file is written beside and renamed into place,   *)
(* and whoever loads it removes what is beside it first.  Errors of saveTx *)
(* are ignored; a transaction without an ID goes to the file ".json", which *)
(* nobody asks for.                                                        *)

SaveTx(t, x, step) ==
  /\ mem' = [mem EXCEPT ![t] = x]
  /\ next' = [next EXCEPT ![t] = step]
  /\ Goto(t, "write")

\* A write that fails takes away what it has written.
SaveWrites(t) ==
  /\ pc[t] = "write"
  /\ \E written \in BOOLEAN : tmp' = [tmp EXCEPT ![t] = written]
  /\ Goto(t, "rename")
  /\ UNCHANGED <<held, kind, key, next, mem, file, polls, records, fstab>>

SaveRenames(t) ==
  /\ pc[t] = "rename"
  /\ file' = IF tmp[t] /\ mem[t].named THEN [file EXCEPT ![t] = mem[t]] ELSE file
  /\ tmp' = [tmp EXCEPT ![t] = FALSE]
  /\ Goto(t, next[t])
  /\ UNCHANGED <<held, kind, key, next, mem, polls, records, fstab>>

\* GET /api/v1/pools/tx/{id}/status.
Status(t) ==
  /\ tmp[t]
  /\ tmp' = [tmp EXCEPT ![t] = FALSE]
  /\ UNCHANGED <<held, flow, file, polls, records, fstab>>

------------------------------------------------------------------------------
(* The handlers up to the key.                                             *)

\* POST apply-create, {id}/apply-device, {id}/apply-destroy: the busy check
\* (a busy key is answered 409, and nothing changes) and the first saveTx.
Request(t, what, k) ==
  /\ pc[t] = "idle"
  /\ what = "create" <=> k = Create
  /\ held[k] = NoTx
  /\ kind' = [kind EXCEPT ![t] = what] /\ key' = [key EXCEPT ![t] = k]
  /\ SaveTx(t, Fresh, "acquire")
  /\ UNCHANGED <<held, txFiles, polls, records, fstab>>

\* What the goroutine of a plan works with: the transaction as it is saved, or
\* nothing when that file is missing or cannot be read.
Load(t) == mem' \in {[mem EXCEPT ![t] = x] : x \in {file[t], Blank}}

\* Mutant: the key is taken because the busy check has found it free.
Acquire_Unchecked(t) ==
  /\ pc[t] = "acquire"
  /\ held' = [held EXCEPT ![key[t]] = t]
  /\ Goto(t, IF kind[t] = "device" THEN "lock" ELSE "run")
  /\ polls' = IF kind[t] = "device" THEN polls \cup {t} ELSE polls
  /\ fstab' = IF kind[t] = "destroy" THEN {} ELSE fstab
  /\ IF kind[t] = "create" THEN Load(t) ELSE UNCHANGED mem
  /\ UNCHANGED <<kind, key, next, txFiles, records>>

\* tryAcquirePoolLock, and the start of the goroutines.  apply-destroy removes
\* its lines by saving what remains as a JSON string, which is one line.
Acquire(t) ==
  /\ pc[t] = "acquire"
  /\ held[key[t]] = NoTx
  /\ held' = [held EXCEPT ![key[t]] = t]
  /\ Goto(t, IF kind[t] = "device" THEN "lock" ELSE "run")
  /\ polls' = IF kind[t] = "device" THEN polls \cup {t} ELSE polls
  /\ fstab' = IF kind[t] = "destroy" THEN {} ELSE fstab
  /\ IF kind[t] = "create" THEN Load(t) ELSE UNCHANGED mem
  /\ UNCHANGED <<kind, key, next, txFiles, records>>

\* Another request was faster.  The transaction stays in its file.
AcquireFails(t) ==
  /\ pc[t] = "acquire"
  /\ held[key[t]] # NoTx
  /\ Goto(t, "refused")
  /\ UNCHANGED <<held, kind, key, next, mem, txFiles, polls, records, fstab>>

------------------------------------------------------------------------------
(* The execution of a plan.                                                *)

\* A device plan runs under the lock of the pool records.
LockStore(t) ==
  /\ pc[t] = "lock"
  /\ storeLock = NoTx
  /\ storeLock' = t
  /\ Load(t)
  /\ Goto(t, "run")
  /\ UNCHANGED <<held, kind, key, next, txFiles, polls, store, view, fstab>>

\* WithLock returns without calling fn when it cannot open the lock file, and
\* its callers go on.  A destroy gives its key back then, a device plan does
\* not: its poller waits for the end of what never ran.
LockFails(t) ==
  /\ pc[t] \in {"lock", "save"} \/ (pc[t] = "record" /\ kind[t] # "device")
  /\ storeLock' = IF storeLock = t THEN NoTx ELSE storeLock
  /\ held' = IF kind[t] = "destroy" THEN [held EXCEPT ![key[t]] = NoTx] ELSE held
  /\ Goto(t, "over")
  /\ UNCHANGED <<kind, key, next, mem, txFiles, polls, store, view, fstab>>

PlanLength(t) == IF kind[t] = "destroy" THEN 0 ELSE Steps
StepsOf(t) == IF mem[t].named THEN PlanLength(t) ELSE 0

\* Mutant: the record is made anew from the plan.
StepStarts_Anew(t) ==
  /\ pc[t] = "run"
  /\ mem[t].done < StepsOf(t)
  /\ SaveTx(t, [Fresh EXCEPT !.at = "running"], "agent")
  /\ UNCHANGED <<held, kind, key, txFiles, polls, records, fstab>>

StepStarts(t) ==
  /\ pc[t] = "run"
  /\ mem[t].done < StepsOf(t)
  /\ SaveTx(t, [mem[t] EXCEPT !.at = "running"], "agent")
  /\ UNCHANGED <<held, kind, key, txFiles, polls, records, fstab>>

StepEnds(t) ==
  /\ pc[t] = "agent"
  /\ SaveTx(t, [mem[t] EXCEPT !.done = @ + 1, !.at = "pending"], "run")
  /\ UNCHANGED <<held, kind, key, txFiles, polls, records, fstab>>

\* Mutant: no failure sets FinishedAt.
StepFails_Unfinished(t) ==
  /\ pc[t] = "agent"
  /\ SaveTx(t, [mem[t] EXCEPT !.at = "error"], "failed")
  /\ UNCHANGED <<held, kind, key, txFiles, polls, records, fstab>>

\* A command fails, or the agent gives no answer.  Only a device plan is given
\* a FinishedAt.
StepFails(t) ==
  /\ pc[t] = "agent"
  /\ SaveTx(t, [mem[t] EXCEPT !.at = "error", !.finished = kind[t] = "device"], "failed")
  /\ UNCHANGED <<held, kind, key, txFiles, polls, records, fstab>>

\* A create takes its lines out of fstab; a device plan unlocks the records.
CleanUp(t) ==
  /\ pc[t] = "failed"
  /\ Goto(t, "over")
  /\ fstab' = IF kind[t] = "create" THEN fstab \ {Create} ELSE fstab
  /\ storeLock' = IF storeLock = t THEN NoTx ELSE storeLock
  /\ UNCHANGED <<held, kind, key, next, mem, txFiles, polls, store, view>>

\* Mutant: the plan is over when a step is over.
PlanDone_Early(t) ==
  /\ pc[t] = "run"
  /\ mem[t].done > 0 \/ StepsOf(t) = 0
  /\ SaveTx(t, [mem[t] EXCEPT !.at = "ok", !.finished = TRUE], "record")
  /\ UNCHANGED <<held, kind, key, txFiles, polls, records, fstab>>

PlanDone(t) ==
  /\ pc[t] = "run"
  /\ mem[t].done = StepsOf(t)
  /\ SaveTx(t, [mem[t] EXCEPT !.at = "ok", !.finished = TRUE], "record")
  /\ fstab' = IF kind[t] = "create" THEN fstab \cup {Create} ELSE fstab
  /\ UNCHANGED <<held, kind, key, txFiles, polls, records>>

\* The poller of apply-device loads the transaction file every half second.
Poll(t) ==
  /\ t \in polls
  /\ tmp' = [tmp EXCEPT ![t] = FALSE]
  /\ IF file[t].finished
     THEN polls' = polls \ {t} /\ held' = [held EXCEPT ![key[t]] = NoTx]
     ELSE UNCHANGED <<polls, held>>
  /\ UNCHANGED <<flow, file, records, fstab>>

------------------------------------------------------------------------------
(* The pool records.  A create or an import keeps them as a list, the rest *)
(* as an object: what is there in the other form is read as nothing.       *)

Known(form) == IF store.form = form THEN store.of ELSE {}

\* A create or an import appends its record; a reader of the file may have
\* removed what was written.
AppendRecord(t) ==
  /\ pc[t] = "record"
  /\ kind[t] \in {"create", "import"}
  /\ storeLock = NoTx
  /\ store' \in {store, [form |-> "list", of |-> Known("list") \cup {key[t]}]}
  /\ Goto(t, "over")
  /\ UNCHANGED <<held, kind, key, next, mem, txFiles, polls, storeLock, view, fstab>>

\* A device plan, which holds the lock already, or a destroy, which takes it,
\* reads the records it is to change.
ReadRecords(t) ==
  /\ pc[t] = "record"
  /\ \/ kind[t] = "device" /\ view' = [view EXCEPT ![t] =
          [form |-> "records", of |-> Known("records") \cup {key[t]}]]
     \/ kind[t] = "destroy" /\ storeLock = NoTx /\ view' = [view EXCEPT ![t] =
          [form |-> "records", of |-> Known("records") \ {key[t]}]]
  /\ storeLock' = t
  /\ Goto(t, "save")
  /\ UNCHANGED <<held, kind, key, next, mem, txFiles, polls, store, fstab>>

\* savePoolOptions: WithLock opens the lock file anew, so it waits for every
\* holder, be it the caller.  A destroy would give its key back after it.
SaveRecords(t) ==
  /\ pc[t] = "save"
  /\ storeLock = NoTx
  /\ store' \in {store, view[t]}
  /\ held' = IF kind[t] = "destroy" THEN [held EXCEPT ![key[t]] = NoTx] ELSE held
  /\ Goto(t, "over")
  /\ UNCHANGED <<kind, key, next, mem, txFiles, polls, storeLock, view, fstab>>

\* POST {id}/options: reads before it takes the lock.  When the remount fails
\* its line in fstab is replaced.
Options(t, k) ==
  /\ pc[t] = "idle"
  /\ kind' = [kind EXCEPT ![t] = "options"] /\ key' = [key EXCEPT ![t] = k]
  /\ view' = [view EXCEPT ![t] = [form |-> "records", of |-> Known("records") \cup {k}]]
  /\ fstab' \in {fstab, fstab \cup {k}}
  /\ Goto(t, "save")
  /\ UNCHANGED <<held, next, mem, txFiles, polls, storeLock, store>>

\* POST import: looks at the key and does not take it.
Import(t, k) ==
  /\ pc[t] = "idle"
  /\ held[k] = NoTx
  /\ kind' = [kind EXCEPT ![t] = "import"] /\ key' = [key EXCEPT ![t] = k]
  /\ fstab' = fstab \cup {k}
  /\ Goto(t, "record")
  /\ UNCHANGED <<held, next, mem, txFiles, polls, records>>

------------------------------------------------------------------------------
\* nosd stops: locks, goroutines and pollers go with it, files stay, and
\* nothing takes a transaction up again.
PoolRestart ==
  /\ pc' = [t \in Txs |-> IF pc[t] \in {"idle"} \cup Ends THEN pc[t] ELSE "dead"]
  /\ held' = [k \in Keys |-> NoTx]
  /\ polls' = {}
  /\ storeLock' = NoTx
  /\ UNCHANGED <<kind, key, next, mem, txFiles, store, view, fstab>>

Begin(t) == \E k \in Keys : \/ \E what \in {"create", "device", "destroy"} : Request(t, what, k)
                            \/ k \in Pools /\ (Options(t, k) \/ Import(t, k))

Work(t) == \/ SaveWrites(t) \/ SaveRenames(t) \/ Acquire(t) \/ AcquireFails(t)
           \/ LockStore(t) \/ StepStarts(t) \/ StepEnds(t) \/ StepFails(t)
           \/ CleanUp(t) \/ PlanDone(t)
           \/ AppendRecord(t) \/ ReadRecords(t) \/ SaveRecords(t)

PoolNext ==
  \/ \E t \in Txs : Begin(t) \/ Work(t) \/ LockFails(t) \/ Poll(t) \/ Status(t)
  \/ PoolRestart

PoolSpec == PoolInit /\ [][PoolNext]_poolVars

\* The agent answers, pollers poll, and flock serves all who wait.
PoolFairSpec ==
  PoolSpec /\ \A t \in Txs : WF_poolVars(Work(t)) /\ SF_poolVars(LockStore(t)) /\ WF_poolVars(Poll(t))

------------------------------------------------------------------------------
\* Where a request goes on once its transaction is saved.
Step(t) == IF pc[t] \in {"write", "rename"} THEN next[t] ELSE pc[t]

AtWork(t) == /\ kind[t] \in {"create", "device", "destroy"}
             /\ Step(t) \in {"lock", "run", "agent"}

\* The mutual exclusion that the busy check and the poller are there for: of
\* the transactions with one key at most one runs commands or is still to run
\* some, whoever asks while a key is being given back.
OneAtWork == \A t, u \in Txs : AtWork(t) /\ AtWork(u) /\ key[t] = key[u] => t = u

\* The stage a transaction file shows never goes back, whichever saves the
\* readers of the file undo, and is never ahead of the execution.
Stage(x) == 3 * x.done + (CASE x.at = "pending" -> 0 [] x.at = "running" -> 1 [] OTHER -> 2)

FileFollows == [][\A t \in Txs : /\ Stage(file[t]) <= Stage(file'[t])
                                 /\ Stage(file'[t]) <= Stage(mem'[t])]_poolVars

\* A transaction file says OK only when every step of the plan has succeeded.
OkMeansAll == \A t \in Txs : file[t].at = "ok" => file[t].done = PlanLength(t)

\* The key of a device plan is given back, except in the three ways the code
\* can lose it: the plan waits for records whose holder waits for itself; it
\* never ran, because the lock file of the records could not be opened; or its
\* end is not in its file, which the save did not reach or was undone by a
\* reader, or which it has no name for, because its first save failed.
WaitsForEver(t) == /\ Step(t) = "lock"
                   /\ storeLock # NoTx /\ pc[storeLock] = "save"
NeverRan(t) == kind[t] = "device" /\ pc[t] = "over" /\ mem[t] = Fresh
EndLost(t) == mem[t].finished /\ ~file[t].finished /\ pc[t] \in {"failed", "over", "record", "save"}

KeyComesBack == \A t \in Txs : (t \in polls) ~> (t \notin polls \/ WaitsForEver(t) \/ NeverRan(t) \/ EndLost(t))
=============================================================================
