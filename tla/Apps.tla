--------------------------------- MODULE Apps ---------------------------------
(***************************************************************************)
(* One application of the catalog: pkg/apps, the requests of               *)
(* apps_handlers.go that install, upgrade, start, stop, restart, delete    *)
(* and roll it back, the record of it in apps.json, and what they make of  *)
(* its directory, its snapshots and its unit.                              *)
(*                                                                         *)
(* The store locks each of its operations; nothing locks an application,   *)
(* so requests run in any order.  Commands are bound to the connection of  *)
(* the client, except where noted: when it goes, the one at work is killed *)
(* and the next ones do not start.  GetApp copies the record but not its   *)
(* map of parameters, which an upgrade writes to before it is checked.     *)
(*                                                                         *)
(* Of the data there is which version has written to it.  Ports, the proxy,*)
(* events and health results are left out.                                 *)
(***************************************************************************)
EXTENDS Naturals, Sequences, FiniteSets

CONSTANTS Requests,    \* goroutines that handle requests
          Versions,    \* of the catalog entry, in their order
          Given,       \* what may be installed at first
          HelperPulls, \* whether nos-app-helper.sh knows compose-pull: the one in packaging does not
          MaxRequests, \* (bound)
          MaxFaults    \* commands and writes that fail, clients that leave, restarts of nosd (bound)

ASSUME AppsAssumption ==
  /\ Versions \in Seq(STRING) /\ Versions # <<>> /\ HelperPulls \in BOOLEAN
  /\ MaxRequests \in Nat /\ MaxFaults \in Nat

VARIABLES
  app,      \* the record in StateStore.state
  saved,    \* apps.json: [rec, pars]
  maps,     \* the maps of parameters: a record has the place of its own
  host,     \* config/, data/, snapshots and unit of the application
  requests,
  count, faults,
  events    \* history: what has happened that properties make an exception for

vars == <<app, saved, maps, host, requests, count, faults, events>>
bounds == <<count, faults>>
store == <<app, saved, maps>>

NoApp == [status |-> "none", version |-> "none", map |-> 0]
NoFile == [version |-> "none", pars |-> 0]
Torn == [version |-> "torn", pars |-> 0]
Down == [active |-> FALSE, up |-> FALSE, of |-> NoFile, attached |-> FALSE]
NoHost == [compose |-> NoFile, backup |-> NoFile, data |-> "none", snaps |-> {}, unit |-> Down]

Known == {Versions[i] : i \in 1..Len(Versions)}
Newest == Versions[Len(Versions)] \* what an upgrade asks for; nobody compares it with the entry
Pars == 0..2 \* 0 is no map at all
Composes == [version : Known, pars : Pars] \cup {NoFile, Torn}
Contents == Known \cup {"none", "empty"}
Statuses == {"starting", "running", "stopping", "stopped", "upgrading", "rollback", "error"}
Ops == {"install", "upgrade", "start", "stop", "restart", "delete", "rollback"}
Steps == {"check", "make", "write", "snap", "start", "add", "stop", "cleanup", "mark", "render", "pull", "restart", "health",
          "undo", "save", "remove", "restore", "again", "finish", "tidy", "files", "drop", "fail", "done", "ok", "failed"}

\* "fell" is where an upgrade went wrong; "was" is the host when a request began (history), "alone"
\* and "clean" whether others were at work and something else went wrong meanwhile (history).
Idle == [op |-> "none", at |-> "idle", copy |-> NoApp, entry |-> "none", pars |-> 0, keep |-> FALSE,
         snap |-> 0, gone |-> FALSE, fell |-> "none", was |-> NoHost, alone |-> FALSE, clean |-> FALSE]

Form(a, m) == [rec |-> a, pars |-> IF a = NoApp THEN 0 ELSE m[a.map]]

Usable(h) == h.compose \notin {NoFile, Torn}
Records(m) == [status : Statuses, version : Known, map : 1..Len(m)] \cup {NoApp}
Units == {u \in [active : BOOLEAN, up : BOOLEAN, of : Composes \ {Torn}, attached : BOOLEAN] :
            /\ u.active => u.up
            /\ u.up => u.of # NoFile}
Hosts ==
  [compose : Composes, backup : Composes, data : Contents, snaps : SUBSET [no : Nat \ {0}, data : Contents \ {"none"}],
   unit : Units]
Requested ==
  [op : Ops \cup {"none"}, at : Steps \cup {"idle"}, copy : Records(maps), entry : Known \cup {"none"}, pars : Pars,
   keep : BOOLEAN, snap : Nat, gone : BOOLEAN, fell : {"none", "pull", "restart", "health"}, was : Hosts,
   alone : BOOLEAN, clean : BOOLEAN]

TypeOK ==
  /\ maps \in Seq(Pars) /\ app \in Records(maps)
  /\ saved.pars \in Pars /\ saved.rec \in [status : Statuses, version : Known, map : Nat] \cup {NoApp}
  /\ host \in Hosts /\ IsFiniteSet(host.snaps) /\ \A s, t \in host.snaps : s.no = t.no => s = t
  /\ requests \in [Requests -> Requested]

\* What may be installed at first is complete, and nothing runs that is not installed.
ASSUME GivenAssumption ==
  /\ Known \cap {"none", "torn", "empty"} = {}
  /\ \A g \in Given :
       /\ g.maps \in Seq(Pars) /\ g.app \in Records(g.maps)
       /\ g.app.status \in {"none", "running", "stopped", "error"}
       /\ g.host \in Hosts /\ IsFiniteSet(g.host.snaps) /\ \A s, t \in g.host.snaps : s.no = t.no => s = t
       /\ g.host.backup # Torn /\ (g.host.unit.up => g.host.unit.active)
       /\ IF g.app = NoApp THEN ~g.host.unit.up ELSE Usable(g.host) /\ g.host.data # "none"

Init ==
  /\ \E g \in Given : app = g.app /\ maps = g.maps /\ host = g.host
  /\ saved = Form(app, maps)
  /\ requests = [r \in Requests |-> Idle]
  /\ count = 0 /\ faults = 0 /\ events = {}

\* The answer is of interest as long as no other request came.
Put(r, q) == requests' = [requests EXCEPT ![r] = IF q.at \in {"ok", "failed"} /\ ~q.alone THEN Idle ELSE q]
Goto(r, at) == Put(r, [requests[r] EXCEPT !.at = at])
Busy == {r \in Requests : requests[r].at # "idle"}
Fault(e) == faults < MaxFaults /\ faults' = faults + 1 /\ events' = events \cup {e} /\ UNCHANGED count
Quietly == UNCHANGED <<bounds, events>>

------------------------------------------------------------------------------
(* Commands and files.  A command does something to the host, or fails.        *)

\* What goes wrong in an upgrade that already went wrong is not undone.
Worse(q, at) == [q EXCEPT !.at = at, !.clean = @ /\ q.fell = "none"]
Did(r, h, at) == host' = h /\ Goto(r, at) /\ Quietly
Fails(r, h, at) == host' = h /\ Put(r, Worse(requests[r], at)) /\ Fault("fault")

Runs(r, done, broken, good, bad) == Did(r, done, good) \/ Fails(r, broken, bad)

\* exec.CommandContext with the context of the request.
Bound(r, done, broken, good, bad) ==
  IF requests[r].gone THEN Did(r, host, bad)
  ELSE \/ Runs(r, done, broken, good, bad)
       \/ \E h \in {host, done} :
            /\ host' = h /\ Fault("fault")
            /\ Put(r, [requests[r] EXCEPT !.at = bad, !.gone = TRUE, !.clean = FALSE])

\* The unit: pre-start makes a data directory that is missing, and "up" leaves containers of the
\* same compose file as they run.
Started(h) ==
  IF h.unit.active THEN h
  ELSE [h EXCEPT !.unit = [active |-> TRUE, up |-> TRUE, of |-> h.compose,
                           attached |-> @.up /\ @.of = h.compose => @.attached],
                 !.data = IF @ = "none" THEN "empty" ELSE @]

\* What a start that fails leaves: what there was, or containers that "up" has started.
Halfway(h) == IF h.unit.active THEN {h} ELSE {h, [Started(h) EXCEPT !.unit.active = FALSE]}

\* "down" needs the compose file, and an inactive unit stops nothing.
Stopped(h) ==
  IF ~h.unit.active THEN h
  ELSE [h EXCEPT !.unit = IF Usable(h) THEN Down ELSE [@ EXCEPT !.active = FALSE]]

NewSnap(h) == CHOOSE n \in 1..Cardinality(h.snaps) + 1 : \A s \in h.snaps : s.no # n
WithSnap(h) == [h EXCEPT !.snaps = @ \cup {[no |-> NewSnap(h), data |-> h.data]}]
RemoveAll(h) == [h EXCEPT !.compose = NoFile, !.backup = NoFile, !.data = "none", !.unit.attached = FALSE]

------------------------------------------------------------------------------
(* The store.  A save that fails leaves the change in memory.                  *)

Persist(r, a, m, good, bad) ==
  /\ app' = a /\ maps' = m
  /\ \/ saved' = Form(a, m) /\ Goto(r, good) /\ Quietly
     \/ UNCHANGED saved /\ Fault("save failed") /\ Put(r, [requests[r] EXCEPT !.at = bad, !.clean = FALSE])

UpdateAppStatus(r, status, good, bad) ==
  IF app = NoApp THEN Goto(r, bad) /\ Quietly /\ UNCHANGED store
  ELSE Persist(r, [app EXCEPT !.status = status], maps, good, bad)

\* Health results, and the requests about other applications, save the file as well.
SaveOther ==
  /\ saved # Form(app, maps) /\ saved' = Form(app, maps)
  /\ UNCHANGED <<app, maps, host, requests, bounds, events>>

------------------------------------------------------------------------------
(* Requests.                                                                   *)

At(r, at) == requests[r].at = at /\ UNCHANGED count
OnHost(r, at) == At(r, at) /\ UNCHANGED store
InStore(r, at) == At(r, at) /\ UNCHANGED host
Op(r) == requests[r].op
First == [install |-> "check", upgrade |-> "check", start |-> "mark", stop |-> "mark", restart |-> "restart",
          delete |-> "stop", rollback |-> "mark"]

\* Whose answer is told by what they found.
Compared == {"install", "upgrade", "start", "rollback"}

\* Parameters that come with a request; an upgrade of an application that has some changes them.
Inputs(op) ==
  CASE op = "install" -> {0, 1}
    [] op = "upgrade" -> IF Form(app, maps).pars = 0 THEN {0, 2} ELSE {2}
    [] OTHER -> {0}

Arrive(r) ==
  /\ requests[r].at = "idle"
  /\ count < MaxRequests /\ count' = count + 1
  /\ \E op \in Ops, p \in Pars, n \in {0} \cup {s.no : s \in host.snaps}, keep \in BOOLEAN :
       /\ p \in Inputs(op)
       /\ n # 0 => op = "rollback"
       /\ keep => op = "delete"
       /\ requests' = [q \in Requests |->
            IF q = r THEN [Idle EXCEPT !.op = op, !.at = First[op], !.pars = p, !.snap = n, !.keep = keep,
                                       !.was = IF op \in Compared /\ Busy = {} THEN host ELSE NoHost,
                                       !.alone = (Busy = {}), !.clean = (op = "upgrade")]
            ELSE [requests[q] EXCEPT !.alone = FALSE, !.was = NoHost, !.clean = FALSE]]
       /\ events' = events \cup
            IF Busy # {} /\ (op \in {"install", "delete"} \/ \E q \in Busy : Op(q) \in {"install", "delete"})
              THEN {"overlap"} ELSE IF op = "restart" /\ app = NoApp THEN {"restart of none"} ELSE {}
  /\ UNCHANGED <<store, host, faults>>

Leave(r) ==
  /\ requests[r].at \notin {"idle", "ok", "failed"} /\ ~requests[r].gone
  /\ Put(r, [requests[r] EXCEPT !.gone = TRUE, !.clean = FALSE])
  /\ Fault("fault")
  /\ UNCHANGED <<store, host>>

Answer(r) ==
  /\ requests[r].at \in {"ok", "failed"} /\ Put(r, Idle)
  /\ UNCHANGED <<store, host, bounds, events>>

\* Mutant: what is installed may be installed again.
Check_Again(r) ==
  /\ InStore(r, "check") /\ UNCHANGED store /\ Quietly
  /\ \/ Goto(r, "failed")
     \/ /\ Op(r) = "install" \/ app # NoApp
        /\ \E v \in Known :
             Put(r, [requests[r] EXCEPT !.at = IF Op(r) = "install" THEN "make" ELSE "snap", !.entry = v, !.copy = app])

\* InstallApp, UpgradeApp: the entry, the parameters of an installation, and whether the
\* application is there.
Check(r) ==
  /\ InStore(r, "check") /\ UNCHANGED store /\ Quietly
  /\ \/ Goto(r, "failed") \* no entry, wrong parameters
     \/ /\ (Op(r) = "install") = (app = NoApp)
        /\ \E v \in Known :
             Put(r, [requests[r] EXCEPT !.at = IF Op(r) = "install" THEN "make" ELSE "snap", !.entry = v, !.copy = app])

Make(r) ==
  /\ OnHost(r, "make")
  /\ LET made == [host EXCEPT !.data = IF @ = "none" THEN "empty" ELSE @]
     IN  Runs(r, made, host, "write", "failed")

Write(r) ==
  /\ OnHost(r, "write")
  /\ Runs(r, [host EXCEPT !.compose = [version |-> requests[r].entry, pars |-> requests[r].pars]], RemoveAll(host), "snap", "failed")

\* createSnapshot: an installation goes on without, an upgrade does not.  Its ID is the end of
\* the first line that names the directory of snapshots: where the data is a Btrfs subvolume
\* that line is btrfs's own, and what is taken from it (0) is the ID of no snapshot.
Snap(r) ==
  /\ OnHost(r, "snap")
  /\ LET without == IF Op(r) = "install" THEN "start" ELSE "failed"
     IN  \/ Fails(r, host, without)
         \/ host.data = "none" /\ Did(r, host, without)
         \/ /\ host.data # "none"
            /\ host' = WithSnap(host) /\ Quietly
            /\ \E id \in {NewSnap(host), 0} :
                 Put(r, [requests[r] EXCEPT !.at = IF Op(r) = "install" THEN "start" ELSE "mark", !.snap = id])

\* Mutant: the status says running whatever systemctl says.
Start_Ignored(r) ==
  /\ OnHost(r, "start")
  /\ LET good == IF Op(r) = "install" THEN "add" ELSE "done"
     IN  IF Usable(host) \/ host.unit.active THEN \E h \in Halfway(host) : Bound(r, Started(host), h, good, good)
         ELSE Did(r, host, good)

Start(r) ==
  /\ OnHost(r, "start")
  /\ LET good == IF Op(r) = "install" THEN "add" ELSE "done"
         bad == IF Op(r) = "install" THEN "cleanup" ELSE "fail"
     IN  IF Usable(host) \/ host.unit.active THEN \E h \in Halfway(host) : Bound(r, Started(host), h, good, bad)
         ELSE Did(r, host, bad)

Add(r) ==
  /\ InStore(r, "add")
  /\ IF app # NoApp THEN Goto(r, "stop") /\ Quietly /\ UNCHANGED store
     ELSE LET m == Append(maps, requests[r].pars)
          IN  Persist(r, [status |-> "running", version |-> requests[r].entry, map |-> Len(m)], m, "ok", "stop")

Stop(r) ==
  /\ OnHost(r, "stop")
  /\ LET next == CASE Op(r) = "install" -> "cleanup" [] Op(r) = "delete" -> "files" [] Op(r) = "stop" -> "done"
     IN  Bound(r, Stopped(host), host, next, IF Op(r) = "stop" THEN "fail" ELSE next)

CleanUp(r) == OnHost(r, "cleanup") /\ Did(r, RemoveAll(host), "failed")

Marks == [start |-> "starting", stop |-> "stopping", rollback |-> "rollback", upgrade |-> "upgrading"]
Marked == [start |-> "start", stop |-> "stop", rollback |-> "save", upgrade |-> "render"]
Mark(r) == InStore(r, "mark") /\ UpdateAppStatus(r, Marks[Op(r)], Marked[Op(r)], "failed")

\* Mutant: a pull that fails leaves the status.
Fail_Pull(r) ==
  /\ InStore(r, "fail")
  /\ IF requests[r].fell = "pull" THEN Goto(r, "failed") /\ Quietly /\ UNCHANGED store
     ELSE UpdateAppStatus(r, "error", "failed", "failed")

Fail(r) == InStore(r, "fail") /\ UpdateAppStatus(r, "error", "failed", "failed")
Done(r) == InStore(r, "done") /\ UpdateAppStatus(r, IF Op(r) = "stop" THEN "stopped" ELSE "running", "ok", "failed")

------------------------------------------------------------------------------
(* Upgrade, restart, rollback and delete.                                      *)

\* Merges the parameters into the map of the record, checks and renders, keeps the old compose
\* file and writes the new one.  Writing to no map panics, and the request is over.
Render(r) ==
  /\ At(r, "render")
  /\ LET q == requests[r]
         m == IF q.pars = 0 THEN maps ELSE [maps EXCEPT ![q.copy.map] = q.pars]
         kept == [host EXCEPT !.backup = host.compose]
         rendered == [kept EXCEPT !.compose = [version |-> q.entry, pars |-> m[q.copy.map]]]
     IN  IF q.pars # 0 /\ maps[q.copy.map] = 0
         THEN Goto(r, "failed") /\ events' = events \cup {"panic"} /\ UNCHANGED <<store, host, bounds>>
         ELSE /\ maps' = m /\ UNCHANGED <<app, saved>>
              /\ \/ Did(r, host, "fail")
                 \/ host.compose # NoFile /\ Did(r, rendered, "pull")
                 \/ host.compose # NoFile /\ host' = [kept EXCEPT !.compose = Torn]
                    /\ Put(r, [requests[r] EXCEPT !.at = "fail", !.clean = FALSE]) /\ Fault("fault")

\* The failures of an upgrade that restore the compose file first.
Fell(r, at) == host' = host /\ Quietly /\ Put(r, [requests[r] EXCEPT !.at = "undo", !.fell = at])
FellMidway(r, h, gone) ==
  /\ host' = h /\ Fault("fault")
  /\ Put(r, [requests[r] EXCEPT !.at = "undo", !.fell = "restart", !.gone = gone, !.clean = @ /\ ~gone])

\* No such command of the helper, no registry or no client.
Pull(r) ==
  /\ OnHost(r, "pull")
  /\ \/ Fell(r, "pull")
     \/ HelperPulls /\ ~requests[r].gone /\ Did(r, host, "restart")

Restarted(h) == IF Usable(h) THEN Started(Stopped(h)) ELSE [h EXCEPT !.unit.active = FALSE]

Restart(r) ==
  /\ OnHost(r, "restart")
  /\ IF Op(r) # "upgrade"
     THEN LET good == IF Op(r) = "restart" THEN "ok" ELSE "done"
              bad == IF Op(r) = "restart" THEN "failed" ELSE "fail"
          IN  IF Usable(host) THEN \E h \in Halfway(Stopped(host)) : Bound(r, Restarted(host), h, good, bad)
              ELSE Did(r, Restarted(host), bad)
     ELSE IF requests[r].gone THEN Fell(r, "restart")
     ELSE \/ Usable(host) /\ Did(r, Restarted(host), "health")
          \/ Usable(host) /\ \E h \in Halfway(Stopped(host)) : FellMidway(r, h, FALSE)
          \/ ~Usable(host) /\ host' = Restarted(host) /\ Quietly /\ Put(r, [requests[r] EXCEPT !.at = "undo", !.fell = "restart"])
          \/ \E h \in {host, Restarted(host)} : FellMidway(r, h, TRUE)

\* waitForHealth
Health(r) ==
  /\ OnHost(r, "health")
  /\ \/ ~requests[r].gone /\ host.unit.up /\ Did(r, host, "finish")
     \/ Fell(r, "health")

\* Mutant: the data stays when the application is not healthy.
Undo_FileOnly(r) ==
  /\ OnHost(r, "undo")
  /\ LET next == CASE requests[r].fell = "health" -> "again" [] requests[r].fell = "restart" -> "save" [] OTHER -> "fail"
     IN  Did(r, IF host.backup = NoFile THEN host ELSE [host EXCEPT !.compose = host.backup], next)

\* copyFile(backupPath, composePath)
Undo(r) ==
  /\ OnHost(r, "undo")
  /\ LET next == IF requests[r].fell = "pull" THEN "fail" ELSE "save"
     IN  IF host.backup = NoFile THEN Did(r, host, next)
         ELSE \/ Did(r, [host EXCEPT !.compose = host.backup], next)
              \/ \E h \in {host, [host EXCEPT !.compose = Torn]} : Fails(r, h, next)

\* nos-app-snapshot.sh rollback: a snapshot of what there is, then the data goes and the snapshot
\* takes its place.  An upgrade goes on when it fails.
Script(r, done, next) ==
  LET after == IF Op(r) = "rollback" THEN "restart" ELSE IF requests[r].fell = "restart" THEN "fail" ELSE "again"
      bad == IF Op(r) = "rollback" THEN "fail" ELSE after
  IN  IF \E s \in host.snaps : s.no = requests[r].snap
      THEN Bound(r, done, host, IF next = "end" THEN after ELSE next, bad)
      ELSE Did(r, host, bad)

SaveData(r) ==
  /\ OnHost(r, "save")
  /\ Script(r, IF host.data = "none" THEN host ELSE WithSnap(host), "remove")

RemoveData(r) == OnHost(r, "remove") /\ Script(r, [host EXCEPT !.data = "none", !.unit.attached = FALSE], "restore")

\* Over a directory that is there again the snapshot is put inside of it.
RestoreData(r) ==
  /\ OnHost(r, "restore")
  /\ LET s == CHOOSE x \in host.snaps : x.no = requests[r].snap
     IN  Script(r, IF host.data = "none" THEN [host EXCEPT !.data = s.data] ELSE host, "end")

\* After an upgrade that was not healthy: the errors are ignored.
Again(r) ==
  /\ OnHost(r, "again")
  /\ IF Usable(host) THEN \E h \in Halfway(Stopped(host)) : Bound(r, Restarted(host), h, "fail", "fail")
     ELSE Did(r, Restarted(host), "fail")

\* UpdateApp puts the copy back that the upgrade began with.
Finish(r) ==
  /\ At(r, "finish")
  /\ IF app = NoApp THEN Goto(r, "failed") /\ Quietly /\ UNCHANGED <<store, host>>
     ELSE /\ Persist(r, [requests[r].copy EXCEPT !.version = Newest, !.status = "running"], maps, "tidy", "failed")
          /\ UNCHANGED host

Tidy(r) == OnHost(r, "tidy") /\ Did(r, [host EXCEPT !.backup = NoFile], "ok")

\* DeleteApp, without a connection to its client: the directory, then the snapshots.
Files(r) ==
  /\ OnHost(r, "files")
  /\ IF requests[r].keep THEN Did(r, host, "drop")
     ELSE \/ Did(r, [RemoveAll(host) EXCEPT !.snaps = {}], "drop")
          \/ \E h \in {host, [host EXCEPT !.compose = NoFile, !.backup = NoFile]} : Fails(r, h, "failed")
          \/ Fails(r, RemoveAll(host), "drop")

Drop(r) ==
  /\ InStore(r, "drop")
  /\ IF app = NoApp THEN Goto(r, "failed") /\ Quietly /\ UNCHANGED store ELSE Persist(r, NoApp, maps, "ok", "failed")

------------------------------------------------------------------------------
(* What goes on by itself.                                                     *)

\* The application writes to its data, as its version.
AppWrites ==
  /\ host.unit.up /\ host.unit.attached /\ host.data \notin {"none", host.unit.of.version}
  /\ host' = [host EXCEPT !.data = host.unit.of.version]
  /\ UNCHANGED <<store, requests, bounds, events>>

\* nosd stops, its commands with it, and starts again with what was saved.
Restarts ==
  /\ Fault("stopped")
  /\ requests' = [r \in Requests |-> Idle]
  /\ IF saved.rec = NoApp THEN app' = NoApp /\ maps' = <<>> ELSE app' = [saved.rec EXCEPT !.map = 1] /\ maps' = <<saved.pars>>
  /\ saved' = Form(app', maps')
  /\ UNCHANGED host

Run(r) ==
  \/ Check(r) \/ Make(r) \/ Write(r) \/ Snap(r) \/ Start(r) \/ Add(r) \/ Stop(r) \/ CleanUp(r)
  \/ Mark(r) \/ Fail(r) \/ Done(r) \/ Answer(r)
  \/ Render(r) \/ Pull(r) \/ Restart(r) \/ Health(r) \/ Undo(r) \/ Again(r) \/ Finish(r) \/ Tidy(r)
  \/ SaveData(r) \/ RemoveData(r) \/ RestoreData(r) \/ Files(r) \/ Drop(r)

Next == (\E r \in Requests : Arrive(r) \/ Leave(r) \/ Run(r)) \/ AppWrites \/ SaveOther \/ Restarts

Spec == Init /\ [][Next]_vars

------------------------------------------------------------------------------
(* Properties.                                                                 *)

QuietWithout(some) == Busy = {} /\ events \cap some = {}

\* When no request is at work, the status is one that stays: start, stop, upgrade and rollback
\* leave the one they began with on every path, in whatever order they run.
QuietIsSettled ==
  QuietWithout({"save failed", "stopped", "panic"}) => app.status \in {"none", "running", "stopped", "error"}

\* What runs is what the compose file says, on the data that is there; but where containers ran
\* without their unit, as a start that failed leaves them, "up" leaves them on the data they had.
Serving(q) ==
  /\ host.unit.up /\ host.unit.of = host.compose
  /\ host.unit.attached \/ (q.was.unit.up /\ ~q.was.unit.active)

\* A request that answers with success, and met no other request, has done what it says.
\* Installing and starting leave a unit alone that is active already, as a delete that could not
\* stop it leaves it.  An upgrade has recorded the version it was asked for and runs the one of the
\* catalog entry, which may be another; with the helper in packaging no upgrade succeeds.
Says(q) ==
  CASE q.op = "install" -> app.status = "running" /\ app.version = q.entry /\ host.compose.version = q.entry
                           /\ host.data # "none" /\ IF q.was.unit.active THEN host.unit = q.was.unit ELSE Serving(q)
    [] q.op = "upgrade" -> app.status = "running" /\ app.version = Newest /\ host.compose.version = q.entry /\ Serving(q)
    [] q.op = "start" -> app.status = "running" /\ IF q.was.unit.active THEN host.unit = q.was.unit ELSE Serving(q)
    [] q.op = "stop" -> app.status = "stopped" /\ ~host.unit.active
    [] q.op = "restart" -> host.unit.up /\ host.unit.of = host.compose
    [] q.op = "rollback" -> app.status = "running" /\ Serving(q)
    [] q.op = "delete" -> app = NoApp /\ (q.keep \/ (host.compose = NoFile /\ host.data = "none"))
AnsweredIsTrue == \A r \in Requests : requests[r].at = "ok" /\ requests[r].alone => Says(requests[r])

\* An upgrade that found its entry and fails, in any one place and with its client there, leaves
\* the version, the compose file, and data to which only versions that ran before it have written;
\* but where the ID of its snapshot is of none, the data may stay as the new version has left it.
FailedUpgradeRestores ==
  \A r \in Requests :
    LET q == requests[r]
    IN  q.at = "failed" /\ q.op = "upgrade" /\ q.entry # "none" /\ q.alone /\ q.clean =>
          /\ app.version = q.copy.version /\ host.compose = q.was.compose
          /\ \/ host.data \in {q.was.data, q.was.unit.of.version, q.was.compose.version}
             \/ q.snap = 0 /\ host.data = q.entry

\* When no request is at work, what is installed has its compose file and its data, and what is not
\* does not run, unless a command or save failed, an install or delete met another request, or a
\* restart, which does not ask the store, was of what is not installed.
StoreMatchesFiles ==
  QuietWithout({"fault", "stopped", "overlap", "save failed", "restart of none"}) =>
    IF app = NoApp THEN ~host.unit.up ELSE Usable(host) /\ host.data # "none"

\* When no request is at work, the file has what the store has, with the parameters, which an
\* upgrade writes without the lock of the store.
QuietIsSaved == QuietWithout({"save failed"}) => saved = Form(app, maps)

\* The store, its file and the host tell of the same application.
StoreIsTrue == TypeOK /\ StoreMatchesFiles /\ QuietIsSaved
=============================================================================
