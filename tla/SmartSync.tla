------------------------------ MODULE SmartSync ------------------------------
(***************************************************************************)
(* Files on demand (pkg/sync/smartsync): placeholders whose content is     *)
(* downloaded on request and given up again, the queue of downloads with   *)
(* its worker, the sweep that frees space, and the requests of             *)
(* internal/server/smartsync_handler.go.                                   *)
(*                                                                         *)
(* Every operation holds the lock from end to end, but PinFile, which lets *)
(* go of it to ask for the download, and the worker.  The daemon provides  *)
(* no download function yet; here there is one, and it may fail.  Progress *)
(* and callbacks are left out.                                             *)
(***************************************************************************)
EXTENDS FiniteSetsExt, Functions, Integers, SequencesExt

CONSTANTS Files,       \* share and path
          Sizes,       \* the size of each file
          Priorities,  \* priorities of requests
          High,        \* the priority of a pin: PriorityHigh
          Maxima,      \* values of MaxLocalSize in use; one of them the default
          DefaultMax,
          MaxRestarts, \* stops of nosd (bound)
          MaxMisses    \* writes of state.json that fail, and operations on a file
                       \* that is not where they take it to be (bound)

Off == -1
Nobody == "nobody"

ASSUME SmartAssumption ==
  /\ IsFiniteSet(Files) /\ Nobody \notin Files
  /\ Sizes \in [Files -> Nat]
  /\ Priorities \subseteq Nat /\ High \in Priorities
  /\ Maxima \subseteq Nat /\ DefaultMax \in Maxima
  /\ MaxRestarts \in Nat /\ MaxMisses \in Nat

VARIABLES
  state,     \* PlaceholderFile.State
  pinned,    \* files with IsPinned
  aged,      \* files that are here and not used for longer than MaxFileAge
  queue,     \* hydrationQueue
  loading,   \* what the worker downloads
  total,     \* totalLocalSize
  pinning,   \* how far a PinFile of each file is that let go of the lock
  policy,    \* MaxLocalSize, or Off
  saved,     \* state.json: the state of each file, and the pinned ones
  restarts,
  misses,    \* writes that failed so far
  written,   \* history: what became of the last write of state.json
  slips,     \* history: operations that the total does not follow
  orphans    \* history: files that were loaded as being downloaded

vars == <<state, pinned, aged, queue, loading, total, pinning, policy, saved, written, restarts, misses, slips, orphans>>
manager == <<policy, restarts>>
stateFile == <<saved, written, misses>>

States == {"none", "cloud", "hydrating", "local", "pinned"}
Here == {"local", "pinned"}
Requests == [file : Files, priority : Priorities]

SizeOf(S) == MapThenSumSet(LAMBDA f : Sizes[f], S)
LocalFiles(st) == {f \in Files : st[f] \in Here}
Known(f) == state[f] # "none"
Queued == {queue[i].file : i \in DOMAIN queue}

TypeOK ==
  /\ state \in [Files -> States]
  /\ pinned \subseteq Files /\ aged \subseteq Files
  /\ queue \in Seq(Requests)
  /\ loading \in Files \cup {Nobody}
  /\ total \in Int
  /\ pinning \in [Files -> {"no", "ask", "save"}]
  /\ policy \in Maxima \cup {Off}
  /\ saved \in [state : [Files -> States], pinned : SUBSET Files]
  /\ written \in {"whole", "failed"}
  /\ restarts \in 0..MaxRestarts /\ misses \in 0..MaxMisses /\ slips \in 0..MaxMisses
  /\ orphans \subseteq Files
  /\ \A f \in Files : state[f] = "local" => f \notin pinned

Unknown == [state |-> [f \in Files |-> "none"], pinned |-> {}]

Init ==
  /\ state = Unknown.state /\ pinned = {} /\ aged = {}
  /\ queue = <<>> /\ loading = Nobody
  /\ total = 0
  /\ pinning = [f \in Files |-> "no"]
  /\ policy = DefaultMax
  /\ saved = Unknown /\ written = "whole"
  /\ restarts = 0 /\ misses = 0 /\ slips = 0 /\ orphans = {}

\* save writes all there is to state.json.  Not everyone looks at its error: the
\* write may fail before it has emptied the file, or after.
Save ==
  \/ saved' = [state |-> state', pinned |-> pinned'] /\ written' = "whole" /\ UNCHANGED misses
  \/ /\ slips' + misses < MaxMisses /\ misses' = misses + 1
     /\ saved' \in {saved, Unknown} /\ written' = "failed"

\* An operation that treats f as waiting for nothing, though it is here or on its
\* way: the total no longer is that of the files.
Slip(f, does) ==
  IF does THEN slips + misses < MaxMisses /\ slips' = slips + 1 ELSE slips' = slips

------------------------------------------------------------------------------
(* Placeholders.                                                           *)

\* RegisterPlaceholder: a placeholder of that path is replaced.
Register(f) ==
  /\ state' = [state EXCEPT ![f] = "cloud"]
  /\ pinned' = pinned \ {f}
  /\ Slip(f, state[f] \in Here \/ f = loading \/ f \in Queued)
  /\ orphans' = orphans \ {f}
  /\ aged' = aged \ {f}
  /\ UNCHANGED <<queue, loading, total, pinning, manager>>
  /\ Save

\* Mutant: the latest request is the first to be served.
Insert_Newest(request) == <<request>> \o queue

\* Before all entries of a lower priority, behind all others.
Insert(request) ==
  LET n == Cardinality({i \in DOMAIN queue : queue[i].priority >= request.priority})
  IN  SubSeq(queue, 1, n) \o <<request>> \o SubSeq(queue, n + 1, Len(queue))

\* RequestHydration, which does nothing for a file that is here or on its way.
Hydrate(f, priority) ==
  /\ state[f] = "cloud"
  /\ state' = [state EXCEPT ![f] = "hydrating"]
  /\ queue' = Insert([file |-> f, priority |-> priority])

Request(f, priority) ==
  /\ Hydrate(f, priority)
  /\ UNCHANGED <<pinned, aged, loading, total, pinning, manager, stateFile, slips, orphans>>

First(f) == {i \in DOMAIN queue : queue[i].file = f /\ \A j \in 1..i - 1 : queue[j].file # f}

\* CancelHydration: whatever the state of the file is.
Cancel(f) ==
  /\ Known(f)
  /\ queue' = IF First(f) = {} THEN queue ELSE RemoveAt(queue, CHOOSE i \in First(f) : TRUE)
  /\ state' = [state EXCEPT ![f] = "cloud"]
  /\ Slip(f, state[f] \in Here \/ f = loading)
  /\ orphans' = orphans \ {f}
  /\ aged' = aged \ {f}
  /\ UNCHANGED <<pinned, loading, total, pinning, manager, stateFile>>

\* PinFile, up to where it lets go of the lock.
Pin(f) ==
  /\ Known(f) /\ pinning[f] = "no"
  /\ pinned' = pinned \cup {f}
  /\ state' = [state EXCEPT ![f] = IF @ = "local" THEN "pinned" ELSE @]
  /\ UNCHANGED <<aged, queue, loading, total, manager, slips, orphans>>
  /\ IF state[f] = "cloud"
       THEN pinning' = [pinning EXCEPT ![f] = "ask"] /\ UNCHANGED stateFile
       ELSE Save /\ UNCHANGED pinning

PinAsks(f) ==
  /\ pinning[f] = "ask"
  /\ \/ Hydrate(f, High)
     \/ state[f] # "cloud" /\ UNCHANGED <<state, queue>>
  /\ pinning' = [pinning EXCEPT ![f] = "save"]
  /\ UNCHANGED <<pinned, aged, loading, total, manager, stateFile, slips, orphans>>

PinSaves(f) ==
  /\ pinning[f] = "save"
  /\ pinning' = [pinning EXCEPT ![f] = "no"]
  /\ UNCHANGED <<state, pinned, aged, queue, loading, total, manager, slips, orphans>>
  /\ Save

Unpin(f) ==
  /\ Known(f)
  /\ pinned' = pinned \ {f}
  /\ state' = [state EXCEPT ![f] = IF @ = "pinned" THEN "local" ELSE @]
  /\ UNCHANGED <<aged, queue, loading, total, pinning, manager, slips, orphans>>
  /\ Save

Dehydrate(f) ==
  /\ f \notin pinned /\ state[f] = "local"
  /\ state' = [state EXCEPT ![f] = "cloud"]
  /\ total' = total - Sizes[f]
  /\ aged' = aged \ {f}
  /\ UNCHANGED <<pinned, queue, loading, pinning, manager, slips, orphans>>
  /\ Save

\* Time goes by, and RecordAccess.  Of a file that is not here nobody asks when it
\* was used, and when it comes the time is set anew.
Age(f) ==
  /\ state[f] \in Here /\ f \notin aged /\ aged' = aged \cup {f}
  /\ UNCHANGED <<state, pinned, queue, loading, total, pinning, manager, stateFile, slips, orphans>>

RecordAccess(f) ==
  /\ f \in aged /\ aged' = aged \ {f}
  /\ UNCHANGED <<state, pinned, queue, loading, total, pinning, manager, stateFile, slips, orphans>>

SetPolicy(m) ==
  /\ policy # m /\ policy' = m
  /\ UNCHANGED <<state, pinned, aged, queue, loading, total, pinning, restarts, stateFile, slips, orphans>>

------------------------------------------------------------------------------
(* The worker: processNextHydration and CompleteHydration.                 *)

Take ==
  /\ loading = Nobody /\ queue # <<>>
  /\ loading' = Head(queue).file
  /\ queue' = Tail(queue)
  /\ UNCHANGED <<state, pinned, aged, total, pinning, manager, stateFile, slips, orphans>>

\* Mutant: a failure leaves the file as it is, for another attempt.
Fail_Retries ==
  /\ loading # Nobody /\ loading' = Nobody
  /\ UNCHANGED <<state, pinned, aged, queue, total, pinning, manager, slips, orphans>>
  /\ Save

Fail ==
  /\ loading # Nobody /\ loading' = Nobody
  /\ state' = [state EXCEPT ![loading] = "cloud"]
  /\ UNCHANGED <<pinned, aged, queue, total, pinning, manager, slips, orphans>>
  /\ Save

\* Mutant: a pinned file does not count.
Complete_PinnedIsFree ==
  /\ loading # Nobody /\ loading' = Nobody
  /\ state' = [state EXCEPT ![loading] = IF loading \in pinned THEN "pinned" ELSE "local"]
  /\ total' = IF loading \in pinned THEN total ELSE total + Sizes[loading]
  /\ aged' = aged \ {loading}
  /\ UNCHANGED <<pinned, queue, pinning, manager, slips, orphans>>
  /\ Save

\* Whatever has become of the file meanwhile, it is here now.
Complete ==
  /\ loading # Nobody /\ loading' = Nobody
  /\ state' = [state EXCEPT ![loading] = IF loading \in pinned THEN "pinned" ELSE "local"]
  /\ total' = total + Sizes[loading]
  /\ aged' = aged \ {loading}
  /\ UNCHANGED <<pinned, queue, pinning, manager, slips, orphans>>
  /\ Save

------------------------------------------------------------------------------
(* performDehydration, every five minutes.                                 *)

Candidates == {f \in Files : state[f] = "local"}
NeedToFree == IF total > policy THEN total - policy ELSE 0

\* Mutant: one file more than needed.
Freed_OneMore(order) ==
  LET gone[i \in 0..Len(order)] ==
        IF i = 0 THEN {}
        ELSE IF order[i] \in aged \/ SizeOf(gone[i - 1]) <= NeedToFree
               THEN gone[i - 1] \cup {order[i]} ELSE gone[i - 1]
  IN  gone[Len(order)]

\* The files given up, from the first on: all the aged ones, others as needed.
Freed(order) ==
  LET gone[i \in 0..Len(order)] ==
        IF i = 0 THEN {}
        ELSE IF order[i] \in aged \/ SizeOf(gone[i - 1]) < NeedToFree
               THEN gone[i - 1] \cup {order[i]} ELSE gone[i - 1]
  IN  gone[Len(order)]

\* The least recently used first; which that is among the aged ones and among the
\* others is left open.
Orders == {o \in SetToSeqs(Candidates) :
             \A i, j \in DOMAIN o : o[j] \in aged /\ i < j => o[i] \in aged}

Sweep ==
  /\ policy # Off
  /\ UNCHANGED <<pinned, queue, loading, pinning, manager, slips, orphans>>
  /\ \E order \in Orders :
       /\ Freed(order) # {}
       /\ state' = [f \in Files |-> IF f \in Freed(order) THEN "cloud" ELSE state[f]]
       /\ total' = total - SizeOf(Freed(order))
       /\ aged' = aged \ Freed(order)
       /\ IF SizeOf(Freed(order)) > 0 THEN Save ELSE UNCHANGED stateFile

------------------------------------------------------------------------------
\* nosd stops and starts.  state.json is written in place: a stop in the middle of
\* a write leaves nothing that can be read.
Restart ==
  /\ restarts < MaxRestarts /\ restarts' = restarts + 1
  /\ \E found \in {saved, Unknown} :
       /\ state' = found.state /\ pinned' = found.pinned /\ saved' = found
       /\ total' = SizeOf(LocalFiles(found.state))
       /\ orphans' = {f \in Files : found.state[f] = "hydrating"}
  /\ queue' = <<>> /\ loading' = Nobody
  /\ pinning' = [f \in Files |-> "no"]
  /\ policy' = DefaultMax
  /\ slips' = 0 /\ written' = "whole"
  /\ aged' = aged \cap LocalFiles(state')
  /\ UNCHANGED misses

------------------------------------------------------------------------------
Worker == Take \/ Fail \/ Complete

Next ==
  \/ Worker \/ Sweep \/ Restart
  \/ \E f \in Files :
       \/ Register(f) \/ Cancel(f) \/ Pin(f) \/ PinAsks(f) \/ PinSaves(f) \/ Unpin(f)
       \/ Dehydrate(f) \/ Age(f) \/ RecordAccess(f)
       \/ \E p \in Priorities : Request(f, p)
  \/ \E m \in Maxima \cup {Off} : SetPolicy(m)

Spec == Init /\ [][Next]_vars

\* The worker looks at the queue every second, and a download ends.
FairSpec == Spec /\ WF_vars(Worker)

------------------------------------------------------------------------------
\* totalLocalSize is the size of the files that are here, however downloads, pins,
\* sweeps and restarts follow on each other, as long as nothing is cancelled or
\* registered anew that is here or on its way.
TotalIsSum == slips = 0 => total = SizeOf(LocalFiles(state))

\* state.json knows the files that are here and not empty, so that a restart finds
\* them: but for such a cancellation, which is not saved, and while the last write
\* of the file has failed, which CompleteHydration and the sweep do not look at.
\* The next write that succeeds makes up for those before.
SavedIsHere ==
  slips = 0 /\ written = "whole" => \A f \in Files : Sizes[f] > 0 => (saved.state[f] \in Here <=> state[f] \in Here)

\* What the sweep goes by and what a restart finds are what is here.
SpaceIsKnown == TypeOK /\ TotalIsSum /\ SavedIsHere

\* What is shown as being downloaded is queued or downloaded, but for what was
\* loaded in that state: nothing asks for that again.
HydratingIsServed ==
  \A f \in Files \ orphans : state[f] = "hydrating" => f \in Queued \/ f = loading

\* A sweep brings the files under the limit, or gives up all that is not pinned;
\* and no more than the aged ones and what the limit asks for.
SweepFreesEnough ==
  [][Sweep /\ slips = 0 =>
       LET gone == {f \in Files : state[f] = "local" /\ state'[f] # "local"}
       IN  /\ total' <= policy \/ \A f \in Files : state'[f] # "local"
           /\ gone \subseteq aged \/ \E f \in gone \ aged : total' + Sizes[f] > policy
           /\ \A f \in pinned : state'[f] = state[f]]_vars

\* A request of the highest priority is taken up sooner or later, whatever else is
\* asked for meanwhile, unless it is cancelled; one of a lower priority may be
\* passed over forever.
Highest == CHOOSE p \in Priorities : \A q \in Priorities : q <= p
Waits(f) == \E i \in DOMAIN queue : queue[i] = [file |-> f, priority |-> Highest]
UrgentIsServed ==
  \A f \in Files : slips = 0 /\ Waits(f) ~> slips # 0 \/ loading = f \/ ~Waits(f)
=============================================================================
