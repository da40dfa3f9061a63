------------------------------- MODULE Accounts -------------------------------
(***************************************************************************)
(* The accounts of nosd: the user store (internal/auth/store), which has   *)
(* all users in memory and in users.json, and the requests that work on    *)
(* it: first setup, login with its lockout, the user management and the    *)
(* recovery mode (internal/server/router.go, users_handler.go).            *)
(*                                                                         *)
(* Every request copies a user, changes the copy and puts it back.         *)
(* UpsertUser takes the list to save together with the change, but saves   *)
(* it later and in any order; when that fails it undoes the change.  The   *)
(* setup gate and login load the file anew.                                *)
(*                                                                         *)
(* Of a user there is the id, the role, and what login counts.  Passwords, *)
(* tokens and second factors are data: that one is right is a choice.      *)
(* ChangePassword is left out, as it panics before it changes anything.    *)
(***************************************************************************)
EXTENDS AtomicFile, FiniteSets

CONSTANTS Names,       \* usernames
          Given,       \* the users there may be at first
          Limit,       \* failed attempts that lock an account: ten
          MaxRequests, \* (bound)
          MaxFaults,   \* writes that fail (bound)
          MaxTime,     \* times a quarter of an hour passes (bound)
          MaxRestarts  \* (bound)

ASSUME AccountsAssumption ==
  Limit \in Nat \ {0} /\ MaxRequests \in Nat \ {0} /\ MaxFaults \in Nat /\ MaxTime \in Nat /\ MaxRestarts \in Nat

VARIABLES
  users,    \* Store.users
  requests, \* the request of each goroutine
  count, faults, clock, restarts,
  events    \* history: what has happened that properties make an exception for

vars == <<atomic, users, requests, count, faults, clock, restarts, events>>
bounds == <<count, faults, clock, restarts>>

NoUser == [id |-> 0, role |-> "none", failed |-> 0, until |-> 0]
Roles == {"admin", "user"}
UserRecords == [id : 1..MaxRequests + Cardinality(Names), role : Roles, failed : 0..Limit - 1, until : 0..MaxTime + 1]
Tables == [Names -> UserRecords \cup {NoUser}]
Admins(table) == {n \in Names : table[n].role = "admin"}

\* Without users there is the empty table, and what a setup has left has an administrator.
ASSUME GivenAssumption ==
  /\ IsFiniteSet(Names) /\ Blank = [n \in Names |-> NoUser]
  /\ Given \subseteq Tables /\ \A table \in Given \ {Blank} : Admins(table) # {}

Ops == {"login", "first admin", "create", "edit", "roles", "delete", "reset"}
NoRequest == [op |-> "none", at |-> "idle", id |-> 0, name |-> NoOne, base |-> NoUser, rec |-> NoUser,
              prev |-> NoUser, list |-> Blank, copy |-> Blank, todo |-> {}]
Requests ==
  [op : Ops \cup {"none"}, id : 0..MaxRequests + Cardinality(Names), name : Names \cup {NoOne},
   at : {"idle", "gate", "read", "find", "count", "put", "save", "write", "rename", "undo"},
   base : UserRecords \cup {NoUser}, rec : UserRecords \cup {NoUser}, prev : UserRecords \cup {NoUser},
   list : Tables, copy : Tables, todo : SUBSET Names]

TypeOK ==
  /\ users \in Tables
  /\ file \in [is : {"none", "torn", "whole"}, data : Tables]
  /\ requests \in [Writers -> Requests]
  /\ holder \in Writers \cup {NoOne}
  /\ count \in 0..MaxRequests /\ clock \in 0..MaxTime /\ restarts \in 0..MaxRestarts

Init ==
  /\ users \in Given
  /\ FileInit(IF users = Blank THEN NoFile ELSE Whole(users))
  /\ requests = [w \in Writers |-> NoRequest]
  /\ count = IF users = Blank THEN 0 ELSE 1
  /\ faults = 0 /\ clock = 0 /\ restarts = 0
  /\ events = IF users = Blank THEN {} ELSE {"set up"}

Continue(w, r) == requests' = [requests EXCEPT ![w] = r]
End(w) == Continue(w, NoRequest)
Step(w, at) == Continue(w, [requests[w] EXCEPT !.at = at])
Others(w) == {v \in Writers \ {w} : requests[v] # NoRequest}
Upserting(w) == requests[w].at \in {"save", "write", "rename", "undo"}

------------------------------------------------------------------------------
(* Requests.  Login, first-admin (which has a setup token) and the recovery    *)
(* mode load the file; the others are for administrators, as of the memory.    *)

Ask(w, op, at) ==
  /\ requests[w] = NoRequest
  /\ count < MaxRequests /\ count' = count + 1
  /\ Continue(w, [NoRequest EXCEPT !.op = op, !.at = at,
                                   !.id = IF op \in {"first admin", "create"} THEN count' + Cardinality(Names) ELSE 0])
  /\ events' = events \cup IF op = "roles" /\ \E v \in Writers : requests[v].op = "roles"
                             THEN {"two role changes"} ELSE {}
  /\ UNCHANGED <<atomic, users, faults, clock, restarts>>

Arrive(w) ==
  \/ \E op \in {"login", "first admin", "reset"} : Ask(w, op, "gate")
  \/ Admins(users) # {} /\ \E op \in {"create", "edit", "roles", "delete"} : Ask(w, op, "find")

Gate(w) ==
  /\ requests[w].at = "gate"
  /\ CleanUp /\ Step(w, "read")
  /\ UNCHANGED <<users, bounds, events>>

\* First-admin wants the file to have no administrator, login wants it to have one.
Passes(op) ==
  CASE op = "first admin" -> Admins(file.data) = {}
    [] op = "login" -> Admins(file.data) # {}
    [] OTHER -> TRUE

Read(w) ==
  /\ requests[w].at = "read"
  /\ IF ~Passes(requests[w].op) THEN End(w)
     ELSE Continue(w, [requests[w] EXCEPT !.at = "find", !.copy = IF requests[w].op = "reset" THEN file.data ELSE Blank])
  /\ UNCHANGED <<atomic, users, bounds, events>>

\* What login counts and when it locks.
Attempt(u, good) ==
  IF good THEN [u EXCEPT !.failed = 0, !.until = 0]
  ELSE IF u.failed + 1 >= Limit THEN [u EXCEPT !.failed = 0, !.until = clock + 1]
  ELSE [u EXCEPT !.failed = @ + 1]

Locked(u) == u.until > clock

\* Puts record u under the name n, having read b.
Decide(w, n, b, u) == Continue(w, [requests[w] EXCEPT !.at = "put", !.name = n, !.base = b, !.rec = u])
Find(w, op) == requests[w].op = op /\ requests[w].at = "find" /\ UNCHANGED <<atomic, users, bounds>>
Quietly == UNCHANGED events

\* Mutant: a lock is not looked at.
LogIn_Locked(w) ==
  /\ Find(w, "login")
  /\ \E n \in Names :
       IF users[n] = NoUser THEN End(w)
       ELSE \E good \in BOOLEAN : Decide(w, n, users[n], Attempt(users[n], good))
  /\ Quietly

LogIn(w) ==
  /\ Find(w, "login")
  /\ \E n \in Names :
       IF users[n] = NoUser \/ Locked(users[n]) THEN End(w)
       ELSE \E good \in BOOLEAN : Decide(w, n, users[n], Attempt(users[n], good))
  /\ Quietly

Enroll(w, op, role) ==
  /\ Find(w, op)
  /\ \E n \in Names :
       IF users[n] # NoUser THEN End(w)
       ELSE Decide(w, n, NoUser, [NoUser EXCEPT !.id = requests[w].id, !.role = role])
  /\ Quietly

CreateFirstAdmin(w) == Enroll(w, "first admin", "admin")
CreateUser(w) == \E role \in Roles : Enroll(w, "create", role)

NotFound(w, op) == Find(w, op) /\ (\E n \in Names : users[n] = NoUser) /\ End(w) /\ Quietly

\* UpdateUser may change the name or the role, and asks neither whether the name is taken nor
\* for another administrator; a second factor leaves both.
UpdateUser(w) ==
  /\ Find(w, "edit")
  /\ \E old \in {n \in Names : users[n] # NoUser}, new \in Names, role \in Roles :
       /\ new = old \/ role = users[old].role
       /\ Decide(w, new, users[old], [users[old] EXCEPT !.role = role])
       /\ events' = events \cup
            IF \E n \in {old, new} : users[n].role = "admin" /\ (role # "admin" \/ n # old)
              THEN {"edited"} ELSE {}

SetUserRoles(w) ==
  /\ Find(w, "roles")
  /\ \E n \in {m \in Names : users[m] # NoUser}, role \in Roles :
       Continue(w, [requests[w] EXCEPT
         !.at = IF users[n].role = "admin" /\ role # "admin" THEN "count" ELSE "put",
         !.name = n, !.base = users[n], !.rec = [users[n] EXCEPT !.role = role]])
  /\ Quietly

\* Mutant: the administrator may be the last.
CountAdmins_None(w) ==
  /\ requests[w].at = "count"
  /\ IF Cardinality(Admins(users)) <= 0 THEN End(w) ELSE Step(w, "put")
  /\ UNCHANGED <<atomic, users, bounds, events>>

CountAdmins(w) ==
  /\ requests[w].at = "count"
  /\ IF Cardinality(Admins(users)) <= 1 THEN End(w) ELSE Step(w, "put")
  /\ UNCHANGED <<atomic, users, bounds, events>>

\* Takes a copy of all users and puts back all but one; the one is left as it was.
PutBack(w, r) ==
  \E n \in r.todo :
    Continue(w, [r EXCEPT !.at = "put", !.name = n, !.base = r.copy[n], !.rec = r.copy[n], !.todo = @ \ {n}])

DeleteUser(w) ==
  /\ Find(w, "delete")
  /\ \E n \in {m \in Names : users[m] # NoUser} :
       IF users[n].role = "admin" THEN End(w)
       ELSE PutBack(w, [requests[w] EXCEPT !.id = users[n].id, !.copy = users,
                                         !.todo = {m \in Names \ {n} : users[m] # NoUser}])
  /\ Quietly

\* A store of its own, loaded by Read.
ResetPassword(w) ==
  /\ Find(w, "reset")
  /\ \E n \in Names :
       LET u == requests[w].copy[n]
       IN  IF u = NoUser THEN End(w) ELSE Decide(w, n, u, [u EXCEPT !.failed = 0, !.until = 0])
  /\ Quietly

------------------------------------------------------------------------------
(* UpsertUser.                                                                 *)

Noted(w, r, now, own) ==
  events' = events
    \cup (IF \E v \in Others(w) : Upserting(v) THEN {"crossed"} ELSE {})
    \cup (IF now[r.name] # r.base THEN {"stale"} ELSE {})
    \cup (IF now[r.name].role = "admin" /\ r.rec.role # "admin" THEN {"demoted"} ELSE {})
    \cup (IF own THEN {"apart"} ELSE {})

\* In memory, with the list to save.
Put(w) ==
  LET r == requests[w]
      own == r.op = "reset"
      now == IF own THEN r.copy ELSE users
      then == [now EXCEPT ![r.name] = r.rec]
  IN  /\ r.at = "put"
      /\ Continue(w, [r EXCEPT !.at = "save", !.prev = now[r.name], !.list = then,
                           !.base = NoUser, !.rec = NoUser, !.copy = IF r.todo = {} THEN Blank ELSE @])
      /\ users' = IF own THEN users ELSE then
      /\ Noted(w, r, now, own)
      /\ UNCHANGED <<atomic, bounds>>

Fault(w) == faults < MaxFaults /\ faults' = faults + 1 /\ Step(w, "undo")

\* Under the lock of the store and that of the file.
Save(w) ==
  /\ requests[w].at = "save"
  /\ \/ WithLock(w) /\ Create(w) /\ Step(w, "write") /\ UNCHANGED faults
     \/ Fault(w) /\ UNCHANGED atomic
  /\ UNCHANGED <<users, count, clock, restarts, events>>

Write(w) ==
  /\ requests[w].at = "write"
  /\ \/ Fill(w, requests[w].list) /\ Step(w, "rename") /\ UNCHANGED <<holder, faults>>
     \/ Fault(w) /\ Discard(w) /\ Unlock(w)
  /\ UNCHANGED <<users, count, clock, restarts, events>>

Answer(w) ==
  /\ IF requests[w].todo = {} THEN End(w) ELSE PutBack(w, requests[w])
  /\ events' = events \cup IF requests[w].op = "first admin" THEN {"set up"} ELSE {}

\* Mutant: nobody looks at the error.
Rename_Ignored(w) ==
  /\ requests[w].at = "rename"
  /\ Unlock(w)
  /\ IF tmp = NoFile THEN Discard(w) ELSE RenameOver(w)
  /\ Answer(w)
  /\ UNCHANGED <<users, bounds>>

Rename(w) ==
  /\ requests[w].at = "rename"
  /\ Unlock(w)
  /\ \/ RenameOver(w) /\ Answer(w)
     \/ tmp = NoFile /\ Discard(w) /\ Step(w, "undo") /\ UNCHANGED events
  /\ UNCHANGED <<users, bounds>>

\* The directory cannot be synced once the file is renamed: an error all the same.
RenameFails(w) ==
  /\ requests[w].at = "rename"
  /\ Unlock(w) /\ RenameOver(w)
  /\ Fault(w)
  /\ events' = events \cup {"apart"}
  /\ UNCHANGED <<users, count, clock, restarts>>

\* Login, reset-password and disable-2fa do not look at the error of UpsertUser: they answer
\* as if it had saved.
Ignoring == {"login", "reset"}

\* The user is as before, whatever others have done since; the request is over, answered
\* with the error unless that is ignored.
Undo(w) ==
  LET r == requests[w]
  IN  /\ r.at = "undo"
      /\ IF r.op = "reset" THEN UNCHANGED <<users, events>>
         ELSE /\ users' = [users EXCEPT ![r.name] = r.prev]
              /\ events' = events \cup IF Others(w) # {} \/ users # r.list THEN {"undone"} ELSE {}
      /\ End(w)
      /\ UNCHANGED <<atomic, bounds>>

------------------------------------------------------------------------------
\* setup/recover with delete_users.
RecoverSetup ==
  /\ file # NoFile /\ file' = NoFile
  /\ events' = events \cup {"apart", "wiped"}
  /\ UNCHANGED <<tmp, holder, fd, users, requests, bounds>>

\* It counts only while a user is locked.
QuarterOfAnHour ==
  /\ \E n \in Names : Locked(users[n])
  /\ clock < MaxTime /\ clock' = clock + 1
  /\ UNCHANGED <<atomic, users, requests, count, faults, restarts, events>>

\* nosd stops at any point and loads the file.
Restart ==
  /\ restarts < MaxRestarts /\ restarts' = restarts + 1
  /\ tmp' = NoFile /\ holder' = NoOne /\ fd' = [w \in Writers |-> "none"]
  /\ users' = file.data
  /\ requests' = [w \in Writers |-> NoRequest]
  /\ events' = events \ {"apart", "crossed"}
  /\ UNCHANGED <<file, count, faults, clock>>

Run(w) ==
  \/ \E op \in {"edit", "roles", "delete"} : NotFound(w, op)
  \/ Gate(w) \/ Read(w) \/ LogIn(w) \/ CreateFirstAdmin(w) \/ CreateUser(w) \/ UpdateUser(w) \/ SetUserRoles(w)
  \/ CountAdmins(w) \/ DeleteUser(w) \/ ResetPassword(w) \/ Put(w) \/ Save(w) \/ Write(w) \/ Rename(w)
  \/ RenameFails(w) \/ Undo(w)

Next == (\E w \in Writers : Arrive(w) \/ Run(w)) \/ RecoverSetup \/ QuarterOfAnHour \/ Restart

Spec == Init /\ [][Next]_vars

------------------------------------------------------------------------------
Barring(labels) == events \cap labels = {}

\* users.json is never half written, with whoever removes path.tmp meanwhile.
FileIsWhole == file.is # "torn"

\* The request is told of success, or goes on as after one.
ToldOfSuccess(w) ==
  /\ restarts' = restarts /\ requests'[w] # requests[w]
  /\ \/ requests[w].at = "rename" /\ requests'[w].at # "undo"
     \/ requests[w].at = "undo" /\ requests[w].op \in Ignoring

\* Who is told of success finds the list it took in the file, whoever removes path.tmp
\* meanwhile and whatever fails; a login or a recovery whose save has failed is told of
\* success all the same, for it ignores the error, and no other is.
AnsweredIsSaved ==
  [][\A w \in Writers :
       ToldOfSuccess(w) => \/ file' = Whole(requests[w].list)
                           \/ requests[w].at = "undo" /\ requests[w].op \in {"login", "reset"}]_vars

\* Once a first administrator was told of success the setup stays closed: the file has an
\* administrator, unless the role was taken away or an upsert undone under another.
SetupCloses ==
  "set up" \in events /\ Barring({"demoted", "wiped", "undone"}) => Admins(file.data) # {}

\* With no request under way the file has what is in memory, unless two saves have run
\* into each other or someone else has written.
QuietIsSaved ==
  (\A w \in Writers : requests[w] = NoRequest) /\ Barring({"crossed", "apart"}) =>
    users = Blank \/ file = Whole(users)

\* The users in memory and in the file are those that the requests have left.
UsersAreKept == TypeOK /\ FileIsWhole /\ QuietIsSaved

\* SetUserRoles leaves an administrator, if it is alone in changing roles.
AdminStays ==
  "set up" \in events /\ Barring({"crossed", "undone", "stale", "edited", "wiped", "two role changes"})
    => Admins(users) # {}

\* A lock lasts for its quarter of an hour, but for requests that had read the user before.
LockHolds ==
  [][\A n \in Names :
       Locked(users[n]) /\ clock' = clock /\ restarts' = restarts /\ "stale" \notin events' /\ "undone" \notin events'
         => users'[n].until > clock \/ \E w \in Writers : requests[w].at = "undo" /\ requests'[w] = NoRequest]_vars

\* users_handler.go:300 "Delete user - we'll remove them from the store": the user is gone
\* once DeleteUser has answered.
DeleteRemoves ==
  [][\A w \in Writers :
       requests[w].op = "delete" /\ requests[w].at = "rename" /\ requests'[w] = NoRequest /\ restarts' = restarts
         => \A n \in Names : users'[n].id # requests[w].id]_vars
=============================================================================
