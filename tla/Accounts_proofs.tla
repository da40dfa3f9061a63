---------------------------- MODULE Accounts_proofs ----------------------------
(***************************************************************************)
(* TLAPS proofs about Accounts, for any users, goroutines, faults and      *)
(* restarts.  A step of a request is early, and touches neither users nor  *)
(* the file, or late, when it is within UpsertUser.  The inductive         *)
(* invariant has a part for each question: what a request is about at each *)
(* step (Sound), who is at work on path.tmp (LockInv), what one upsert at  *)
(* a time leaves (AloneInv, QuietInv), where there are administrators      *)
(* (SetupInv), and what counting them is worth (AdminInv).                 *)
(***************************************************************************)
EXTENDS Accounts, FiniteSetTheorems, TLAPS

Some(table) == table = Blank \/ Admins(table) # {}
Before(w) == [requests[w].list EXCEPT ![requests[w].name] = requests[w].prev]
OwnStore(w) == requests[w].op = "reset"

\* What the request of a goroutine is about at each of its steps.
Sound(w) ==
  LET r == requests[w]
  IN  /\ r.op = "none" <=> r.at = "idle"
      /\ r.at = "idle" => r = NoRequest
      /\ r.op \in {"first admin", "create"} => r.id # 0
      /\ r.at \in {"count", "put"} \/ Upserting(w) => r.name \in Names
      /\ r.at = "count" => r.op = "roles"
      /\ r.todo # {} => r.op = "delete"
      /\ r.at \in {"count", "put"} /\ ~OwnStore(w) => r.rec.until = r.base.until \/ r.base.until <= clock
      /\ r.at = "put" /\ r.op = "first admin" => r.rec.role = "admin"
      /\ r.at = "put" /\ OwnStore(w) => r.rec.role = r.copy[r.name].role /\ r.copy[r.name] # NoUser
      /\ r.at = "put" /\ r.op \notin {"roles", "edit"} /\ r.base.role = "admin" => r.rec.role = "admin"
      /\ r.at = "put" /\ r.op = "edit" /\ "edited" \notin events /\ r.base.role = "admin" => r.rec.role = "admin"

AllSound == \A w \in Writers : Sound(w)

LEMMA Bounds ==
  Limit \in Nat \ {0} /\ MaxRequests \in Nat \ {0} /\ MaxFaults \in Nat /\ MaxTime \in Nat /\ MaxRestarts \in Nat
BY AccountsAssumption DEF AccountsAssumption

LEMMA Basics ==
  /\ Cardinality(Names) \in Nat
  /\ Blank \in Tables
  /\ NoRequest \in Requests
  /\ NoUser \notin UserRecords
<1>1. Cardinality(Names) \in Nat
  BY GivenAssumption, FS_CardinalityType
<1>2. Blank \in Tables
  BY GivenAssumption DEF Tables
<1>3. NoRequest \in Requests
  BY <1>1, <1>2, Bounds DEF NoRequest, Requests, Ops
<1>4. NoUser \notin UserRecords
  BY DEF NoUser, UserRecords, Roles
<1> QED
  BY <1>1, <1>2, <1>3, <1>4

LEMMA Numbers ==
  ASSUME TypeOK
  PROVE  clock \in Nat /\ clock + 1 \in 0..MaxTime + 1 /\ count \in Nat
BY Bounds DEF TypeOK

LEMMA OneOn ==
  \A i : i \in 1..MaxRequests + Cardinality(Names) <=> i \in 0..MaxRequests + Cardinality(Names) /\ i # 0
BY Bounds, Basics

LEMMA NextId ==
  ASSUME TypeOK, count < MaxRequests, count' = count + 1
  PROVE  count' + Cardinality(Names) \in 1..MaxRequests + Cardinality(Names)
BY Bounds, Basics, Numbers

\* A request of w moves alone, and what has happened stays known.
Turn(w) ==
  /\ requests' = [requests EXCEPT ![w] = requests'[w]]
  /\ clock' = clock /\ restarts' = restarts /\ events \subseteq events'

LEMMA Turns ==
  ASSUME TypeOK, NEW w \in Writers, Arrive(w) \/ Run(w)
  PROVE  Turn(w)
<1>1. ASSUME NEW r, Continue(w, r)
      PROVE  requests' = [requests EXCEPT ![w] = requests'[w]]
  BY <1>1 DEF Continue, TypeOK
<1> USE DEF Turn, bounds, Step, End, Find, Quietly
<1>2. CASE Arrive(w)
  BY <1>1, <1>2 DEF Arrive, Ask
<1>3. CASE \E op \in {"edit", "roles", "delete"} : NotFound(w, op)
  BY <1>1, <1>3 DEF NotFound
<1>4. CASE Gate(w) \/ Read(w) \/ CountAdmins(w)
  BY <1>1, <1>4 DEF Gate, Read, CountAdmins
<1>5. CASE LogIn(w) \/ CreateFirstAdmin(w) \/ CreateUser(w) \/ ResetPassword(w)
  BY <1>1, <1>5 DEF LogIn, CreateFirstAdmin, CreateUser, ResetPassword, Enroll, Decide
<1>6. CASE UpdateUser(w) \/ SetUserRoles(w) \/ DeleteUser(w)
  BY <1>1, <1>6 DEF UpdateUser, SetUserRoles, DeleteUser, Decide, PutBack
<1>7. CASE Put(w)
  BY <1>1, <1>7 DEF Put, Noted
<1>8. CASE Save(w) \/ Write(w)
  BY <1>1, <1>8 DEF Save, Write, Fault
<1>9. CASE Rename(w) \/ RenameFails(w)
  BY <1>1, <1>9 DEF Rename, RenameFails, Fault, Answer, PutBack
<1>10. CASE Undo(w)
  BY <1>1, <1>10 DEF Undo
<1> QED
  BY <1>2, <1>3, <1>4, <1>5, <1>6, <1>7, <1>8, <1>9, <1>10 DEF Run

\* What w goes on with is a request, and a sound one.
Moved(w) == requests'[w] \in Requests /\ Sound(w)'

LEMMA Goes ==
  ASSUME TypeOK, NEW w \in Writers, NEW r, Continue(w, r)
  PROVE  requests'[w] = r
BY DEF TypeOK, Continue

LEMMA Ends ==
  ASSUME TypeOK, NEW w \in Writers, End(w)
  PROVE  requests'[w] = NoRequest /\ Moved(w)
<1>1. requests'[w] = NoRequest
  BY Goes DEF End
<1> QED
  BY <1>1, Basics DEF Moved, Sound, NoRequest, Upserting, OwnStore

\* What a request is made of.
LEMMA Parts ==
  ASSUME TypeOK, NEW w \in Writers
  PROVE  /\ requests[w] \in Requests
         /\ requests[w].op \in Ops \cup {"none"}
         /\ requests[w].base \in UserRecords \cup {NoUser}
         /\ requests[w].rec \in UserRecords \cup {NoUser}
         /\ requests[w].prev \in UserRecords \cup {NoUser}
         /\ requests[w].list \in Tables
         /\ requests[w].copy \in Tables
         /\ requests[w].todo \subseteq Names
BY DEF TypeOK, Requests

\* Record u is put under the name n by a request that has read b.
Fits(w, op, n, b, u) ==
  /\ op \notin {"roles", "delete"}
  /\ op # "reset" => u.until = b.until \/ b.until <= clock
  /\ op = "first admin" => u.role = "admin"
  /\ op = "reset" => u.role = requests[w].copy[n].role /\ requests[w].copy[n] # NoUser
  /\ (op = "edit" /\ "edited" \in events') \/ (b.role = "admin" => u.role = "admin")

LEMMA Decides ==
  ASSUME TypeOK, AllSound, NEW w \in Writers, NEW op, Find(w, op),
         NEW n \in Names, NEW b \in UserRecords \cup {NoUser}, NEW u \in UserRecords, Decide(w, n, b, u),
         Fits(w, op, n, b, u)
  PROVE  Moved(w)
<1> DEFINE r == requests[w]
<1>1. r \in Requests /\ r.op = op /\ r.at = "find" /\ clock' = clock
  BY DEF Find, TypeOK, bounds
<1>2. requests'[w] = [r EXCEPT !.at = "put", !.name = n, !.base = b, !.rec = u]
  BY Goes DEF Decide
<1>3. Sound(w)
  BY DEF AllSound
<1> HIDE DEF r
<1>4. requests'[w] \in Requests
  BY <1>1, <1>2 DEF Requests
<1>5. requests'[w].at = "put" /\ requests'[w].name = n /\ requests'[w].base = b /\ requests'[w].rec = u
  BY <1>1, <1>2 DEF Requests
<1>6. /\ requests'[w].op = op /\ requests'[w].id = r.id /\ requests'[w].todo = r.todo
      /\ requests'[w].copy = r.copy
  BY <1>1, <1>2 DEF Requests
<1> QED
  BY <1>1, <1>3, <1>4, <1>5, <1>6 DEF Moved, Sound, Fits, Upserting, OwnStore, r

\* The next step of a request.
LEMMA StepsOn ==
  ASSUME TypeOK, AllSound, NEW w \in Writers, NEW at, Step(w, at), clock' = clock, events \subseteq events',
         requests[w].at # "idle",
         \/ at = "read"
         \/ at = "put" /\ requests[w].at = "count"
         \/ at \in {"write", "rename", "undo"} /\ Upserting(w)
  PROVE  Moved(w)
<1> DEFINE r == requests[w]
<1>1. r \in Requests /\ Sound(w)
  BY DEF TypeOK, AllSound
<1>2. requests'[w] = [r EXCEPT !.at = at]
  BY Goes DEF Step
<1> HIDE DEF r
<1>3. requests'[w] \in Requests
  BY <1>1, <1>2 DEF Requests
<1>4. /\ requests'[w].at = at /\ requests'[w].op = r.op /\ requests'[w].id = r.id /\ requests'[w].todo = r.todo
      /\ requests'[w].name = r.name /\ requests'[w].base = r.base /\ requests'[w].rec = r.rec
      /\ requests'[w].copy = r.copy
  BY <1>1, <1>2 DEF Requests
<1> QED
  BY <1>1, <1>3, <1>4 DEF Moved, Sound, Upserting, OwnStore, r

\* One of the users left is put back.
LEMMA PutsBack ==
  ASSUME TypeOK, NEW w \in Writers, NEW r \in Requests, PutBack(w, r), r.op = "delete", clock' = clock
  PROVE  Moved(w)
<1>1. PICK n \in r.todo :
        requests'[w] = [r EXCEPT !.at = "put", !.name = n, !.base = r.copy[n], !.rec = r.copy[n], !.todo = @ \ {n}]
  BY Goes DEF PutBack
<1>2. n \in Names /\ r.copy[n] \in UserRecords \cup {NoUser} /\ r.todo \subseteq Names
  BY DEF Requests, Tables
<1>3. requests'[w] \in Requests
  BY ZenonT(30), <1>1, <1>2 DEF Requests
<1>4. /\ requests'[w].at = "put" /\ requests'[w].op = "delete" /\ requests'[w].name = n
      /\ requests'[w].base = r.copy[n] /\ requests'[w].rec = r.copy[n]
  BY <1>1, <1>2 DEF Requests
<1> QED
  BY <1>2, <1>3, <1>4 DEF Moved, Sound, Upserting, OwnStore

LEMMA ArriveMoves ==
  ASSUME TypeOK, NEW w \in Writers, Arrive(w)
  PROVE  Moved(w)
<1>1. PICK op \in Ops, at \in {"gate", "find"} : Ask(w, op, at) /\ (op = "reset" => at = "gate")
  BY DEF Arrive, Ops
<1>2. DEFINE id == IF op \in {"first admin", "create"} THEN count' + Cardinality(Names) ELSE 0
<1>3. requests'[w] = [NoRequest EXCEPT !.op = op, !.at = at, !.id = id]
  BY <1>1, Goes DEF Ask
<1>4. id \in 0..MaxRequests + Cardinality(Names) /\ (op \in {"first admin", "create"} => id # 0)
  <2>1. count' + Cardinality(Names) \in 1..MaxRequests + Cardinality(Names)
    BY <1>1, NextId DEF Ask
  <2>2. 0 \in 0..MaxRequests + Cardinality(Names)
    BY Bounds, Basics
  <2>3. count' + Cardinality(Names) \in 0..MaxRequests + Cardinality(Names) /\ count' + Cardinality(Names) # 0
    BY <2>1, OneOn, Bounds, Basics
  <2> QED
    BY <2>2, <2>3
<1> HIDE DEF id
<1>5. requests'[w] \in Requests
  BY <1>1, <1>3, <1>4, Basics DEF Requests
<1>6. /\ requests'[w].op = op /\ requests'[w].at = at /\ requests'[w].id = id /\ requests'[w].todo = {}
  BY <1>3 DEF NoRequest
<1> QED
  BY <1>1, <1>4, <1>5, <1>6 DEF Moved, Sound, Upserting, OwnStore, Ops

LEMMA ReadMoves ==
  ASSUME TypeOK, AllSound, NEW w \in Writers, Read(w)
  PROVE  Moved(w)
<1>1. CASE End(w)
  BY <1>1, Ends
<1>2. CASE ~End(w)
  <2> DEFINE r == requests[w]
             copy == IF r.op = "reset" THEN file.data ELSE Blank
  <2>1. r \in Requests /\ Sound(w) /\ r.at = "read"
    BY DEF TypeOK, AllSound, Read
  <2>2. requests'[w] = [r EXCEPT !.at = "find", !.copy = copy]
    BY <1>2, Goes DEF Read
  <2>3. copy \in Tables
    BY Basics DEF TypeOK
  <2> HIDE DEF r, copy
  <2>4. requests'[w] \in Requests
    BY <2>1, <2>2, <2>3 DEF Requests
  <2>5. /\ requests'[w].at = "find" /\ requests'[w].op = r.op /\ requests'[w].id = r.id
        /\ requests'[w].todo = r.todo
    BY <2>1, <2>2 DEF Requests
  <2> QED
    BY <2>1, <2>4, <2>5 DEF Moved, Sound, Upserting, OwnStore, r
<1> QED
  BY <1>1, <1>2

LEMMA Zeros ==
  0 \in 0..Limit - 1 /\ 0 \in 0..MaxTime + 1
BY Bounds

LEMMA UserParts ==
  ASSUME NEW u \in UserRecords
  PROVE  /\ u.id \in 1..MaxRequests + Cardinality(Names) /\ u.role \in Roles
         /\ u.failed \in 0..Limit - 1 /\ u.until \in 0..MaxTime + 1
BY DEF UserRecords

\* What login counts leaves the rest of a user as it was.
LEMMA CountsType ==
  ASSUME NEW u \in UserRecords, NEW f \in 0..Limit - 1, NEW t \in 0..MaxTime + 1
  PROVE  /\ [u EXCEPT !.failed = f, !.until = t] \in UserRecords
         /\ [u EXCEPT !.failed = f, !.until = t].role = u.role
BY DEF UserRecords

LEMMA CountType ==
  ASSUME NEW u \in UserRecords, NEW f \in 0..Limit - 1
  PROVE  [u EXCEPT !.failed = f] \in UserRecords /\ [u EXCEPT !.failed = f].role = u.role
BY DEF UserRecords

LEMMA AttemptType ==
  ASSUME TypeOK, NEW u \in UserRecords, NEW good \in BOOLEAN
  PROVE  Attempt(u, good) \in UserRecords /\ Attempt(u, good).role = u.role
<1>1. CASE good
  BY <1>1, Zeros, CountsType DEF Attempt
<1>2. CASE ~good /\ u.failed + 1 >= Limit
  <2>1. clock + 1 \in 0..MaxTime + 1
    BY Numbers
  <2> QED
    BY <1>2, <2>1, Zeros, CountsType DEF Attempt
<1>3. CASE ~good /\ ~(u.failed + 1 >= Limit)
  <2>1. u.failed + 1 \in 0..Limit - 1
    BY <1>3, UserParts, Bounds
  <2>2. /\ [u EXCEPT !.failed = u.failed + 1] \in UserRecords
        /\ [u EXCEPT !.failed = u.failed + 1].role = u.role
    BY <2>1, CountType
  <2> QED
    BY <1>3, <2>2 DEF Attempt
<1> QED
  BY <1>1, <1>2, <1>3

LEMMA Unlocked ==
  ASSUME TypeOK, NEW u \in UserRecords, ~Locked(u)
  PROVE  u.until <= clock
BY Numbers, UserParts, Bounds DEF Locked

\* A user who is new is not locked.
LEMMA NewUser ==
  ASSUME TypeOK, NEW id \in 1..MaxRequests + Cardinality(Names), NEW role \in Roles
  PROVE  /\ [NoUser EXCEPT !.id = id, !.role = role] \in UserRecords
         /\ [NoUser EXCEPT !.id = id, !.role = role].role = role
         /\ NoUser.until <= clock /\ NoUser.role # "admin"
<1> DEFINE u == [NoUser EXCEPT !.id = id, !.role = role]
<1>1. u \in UserRecords
  BY Zeros DEF NoUser, UserRecords
<1>2. u.role = role
  BY DEF NoUser
<1>3. NoUser.until = 0 /\ NoUser.role # "admin"
  BY DEF NoUser
<1>4. 0 <= clock
  BY Numbers
<1> QED
  BY <1>1, <1>2, <1>3, <1>4

LEMMA FreshId ==
  ASSUME TypeOK, AllSound, NEW w \in Writers, requests[w].op \in {"first admin", "create"}
  PROVE  requests[w].id \in 1..MaxRequests + Cardinality(Names)
<1>1. requests[w].id \in 0..MaxRequests + Cardinality(Names)
  BY DEF TypeOK, Requests
<1>2. requests[w].id # 0
  BY DEF AllSound, Sound
<1> QED
  BY <1>1, <1>2, OneOn

LEMMA UsersType ==
  ASSUME TypeOK, NEW n \in Names
  PROVE  users[n] \in UserRecords \cup {NoUser}
BY DEF TypeOK, Tables

LEMMA LogInMoves ==
  ASSUME TypeOK, AllSound, NEW w \in Writers, LogIn(w)
  PROVE  Moved(w)
<1>1. CASE End(w)
  BY <1>1, Ends
<1>2. CASE ~End(w)
  <2>1. PICK n \in Names, good \in BOOLEAN :
          users[n] # NoUser /\ ~Locked(users[n]) /\ Decide(w, n, users[n], Attempt(users[n], good))
    BY <1>2 DEF LogIn
  <2> DEFINE u == Attempt(users[n], good)
  <2>2. users[n] \in UserRecords
    BY <2>1, UsersType
  <2>3. u \in UserRecords /\ u.role = users[n].role /\ Decide(w, n, users[n], u)
    BY <2>1, <2>2, AttemptType
  <2>4. users[n].until <= clock
    BY <2>1, <2>2, Unlocked
  <2>5. Find(w, "login")
    BY DEF LogIn
  <2> HIDE DEF u
  <2>6. Fits(w, "login", n, users[n], u)
    BY <2>3, <2>4 DEF Fits
  <2> QED
    BY <2>2, <2>3, <2>5, <2>6, Decides
<1> QED
  BY <1>1, <1>2

LEMMA EnrollMoves ==
  ASSUME TypeOK, AllSound, NEW w \in Writers, NEW op \in {"first admin", "create"}, NEW role \in Roles,
         Enroll(w, op, role), op = "first admin" => role = "admin"
  PROVE  Moved(w)
<1>1. CASE End(w)
  BY <1>1, Ends
<1>2. CASE ~End(w)
  <2> DEFINE u == [NoUser EXCEPT !.id = requests[w].id, !.role = role]
  <2>1. PICK n \in Names : Decide(w, n, NoUser, u)
    BY <1>2 DEF Enroll
  <2>2. Find(w, op)
    BY DEF Enroll
  <2>3. u \in UserRecords /\ u.role = role /\ NoUser.until <= clock /\ NoUser.role # "admin"
    BY <2>2, FreshId, NewUser DEF Find
  <2> HIDE DEF u
  <2>4. Fits(w, op, n, NoUser, u)
    BY <2>3 DEF Fits
  <2> QED
    BY <2>1, <2>2, <2>3, <2>4, Decides
<1> QED
  BY <1>1, <1>2

\* A role is changed and nothing else.
LEMMA RoleType ==
  ASSUME NEW u \in UserRecords, NEW role \in Roles
  PROVE  /\ [u EXCEPT !.role = role] \in UserRecords
         /\ [u EXCEPT !.role = role].role = role /\ [u EXCEPT !.role = role].until = u.until
BY DEF UserRecords

LEMMA UpdateUserMoves ==
  ASSUME TypeOK, AllSound, NEW w \in Writers, UpdateUser(w)
  PROVE  Moved(w)
<1>1. PICK old \in {n \in Names : users[n] # NoUser}, new \in Names, role \in Roles :
        /\ Decide(w, new, users[old], [users[old] EXCEPT !.role = role])
        /\ events' = events \cup
             IF \E n \in {old, new} : users[n].role = "admin" /\ (role # "admin" \/ n # old)
               THEN {"edited"} ELSE {}
  BY DEF UpdateUser
<1>2. users[old] \in UserRecords
  BY UsersType
<1>3. "edited" \notin events' /\ users[old].role = "admin" => role = "admin"
  BY <1>1
<1>4. Find(w, "edit")
  BY DEF UpdateUser
<1> DEFINE u == [users[old] EXCEPT !.role = role]
<1>5. u \in UserRecords /\ u.role = role /\ u.until = users[old].until
  BY <1>2, RoleType
<1> HIDE DEF u
<1>6. Fits(w, "edit", new, users[old], u)
  BY <1>3, <1>5 DEF Fits
<1> QED
  BY <1>1, <1>2, <1>4, <1>5, <1>6, Decides DEF u

LEMMA SetUserRolesMoves ==
  ASSUME TypeOK, AllSound, NEW w \in Writers, SetUserRoles(w)
  PROVE  Moved(w)
<1> DEFINE r == requests[w]
<1>1. PICK n \in {m \in Names : users[m] # NoUser}, role \in Roles :
        Continue(w, [r EXCEPT
          !.at = IF users[n].role = "admin" /\ role # "admin" THEN "count" ELSE "put",
          !.name = n, !.base = users[n], !.rec = [users[n] EXCEPT !.role = role]])
  BY DEF SetUserRoles
<1>2. PICK at \in {"count", "put"} :
        requests'[w] = [r EXCEPT !.at = at, !.name = n, !.base = users[n], !.rec = [users[n] EXCEPT !.role = role]]
  BY <1>1, Goes
<1>3. users[n] \in UserRecords
  BY UsersType
<1>4. /\ [users[n] EXCEPT !.role = role] \in UserRecords
      /\ [users[n] EXCEPT !.role = role].until = users[n].until
  BY <1>3, RoleType
<1>5. r \in Requests /\ r.op = "roles" /\ r.at = "find" /\ Sound(w)
  BY DEF SetUserRoles, Find, TypeOK, AllSound
<1> HIDE DEF r
<1>6. requests'[w] \in Requests
  BY <1>2, <1>3, <1>4, <1>5 DEF Requests
<1>7. /\ requests'[w].at = at /\ requests'[w].op = "roles" /\ requests'[w].name = n
      /\ requests'[w].base = users[n] /\ requests'[w].rec = [users[n] EXCEPT !.role = role]
      /\ requests'[w].todo = r.todo
  BY <1>2, <1>5 DEF Requests
<1> QED
  BY <1>4, <1>5, <1>6, <1>7 DEF Moved, Sound, Upserting, OwnStore, r

LEMMA DeleteUserMoves ==
  ASSUME TypeOK, AllSound, NEW w \in Writers, DeleteUser(w)
  PROVE  Moved(w)
<1>1. CASE End(w)
  BY <1>1, Ends
<1>2. CASE ~End(w)
  <2> DEFINE r == requests[w]
  <2>1. r \in Requests /\ r.op = "delete" /\ clock' = clock
    BY DEF DeleteUser, Find, TypeOK, bounds
  <2>2. PICK n \in {m \in Names : users[m] # NoUser} :
          PutBack(w, [r EXCEPT !.id = users[n].id, !.copy = users, !.todo = {m \in Names \ {n} : users[m] # NoUser}])
    BY <1>2 DEF DeleteUser
  <2> DEFINE todo == {m \in Names \ {n} : users[m] # NoUser}
             q == [r EXCEPT !.id = users[n].id, !.copy = users, !.todo = todo]
  <2>3. users[n] \in UserRecords
    BY UsersType
  <2>4. users[n].id \in 0..MaxRequests + Cardinality(Names) /\ users \in Tables
    BY <2>3, Basics, Bounds DEF UserRecords, TypeOK
  <2>5. todo \subseteq Names
    OBVIOUS
  <2> HIDE DEF r, todo
  <2>6. q \in Requests
    BY <2>1, <2>4, <2>5 DEF Requests
  <2>7. q.op = "delete"
    BY <2>1 DEF Requests
  <2> HIDE DEF q
  <2>8. PutBack(w, q)
    BY <2>2 DEF q, r, todo
  <2> QED
    BY <2>1, <2>6, <2>7, <2>8, PutsBack
<1> QED
  BY <1>1, <1>2

LEMMA ResetPasswordMoves ==
  ASSUME TypeOK, AllSound, NEW w \in Writers, ResetPassword(w)
  PROVE  Moved(w)
<1>1. CASE End(w)
  BY <1>1, Ends
<1>2. CASE ~End(w)
  <2>1. PICK n \in Names : LET u == requests[w].copy[n]
                           IN  u # NoUser /\ Decide(w, n, u, [u EXCEPT !.failed = 0, !.until = 0])
    BY <1>2 DEF ResetPassword
  <2> DEFINE u == requests[w].copy[n]
             v == [u EXCEPT !.failed = 0, !.until = 0]
  <2>2. u \in UserRecords /\ u # NoUser
    BY <2>1, Parts DEF Tables
  <2>3. Decide(w, n, u, v)
    BY <2>1
  <2>4. v \in UserRecords /\ v.role = u.role
    BY <2>2, Zeros, CountsType
  <2>5. Find(w, "reset")
    BY DEF ResetPassword
  <2> HIDE DEF u, v
  <2>6. Fits(w, "reset", n, u, v)
    BY <2>2, <2>4 DEF Fits, u
  <2> QED
    BY <2>2, <2>3, <2>4, <2>5, <2>6, Decides
<1> QED
  BY <1>1, <1>2

------------------------------------------------------------------------------
\* The table that UpsertUser finds, and the one that it leaves.
Seen(w) == IF OwnStore(w) THEN requests[w].copy ELSE users
Then(w) == [Seen(w) EXCEPT ![requests[w].name] = requests[w].rec]

LEMMA TableWith ==
  ASSUME NEW table \in Tables, NEW n \in Names, NEW u \in UserRecords \cup {NoUser}
  PROVE  /\ [table EXCEPT ![n] = u] \in Tables
         /\ [table EXCEPT ![n] = u][n] = u
         /\ \A m \in Names \ {n} : [table EXCEPT ![n] = u][m] = table[m]
         /\ [[table EXCEPT ![n] = u] EXCEPT ![n] = table[n]] = table
BY DEF Tables

\* What UpsertUser does in memory.
PutFacts(w) ==
  LET r == requests[w]
  IN  /\ r.name \in Names /\ Seen(w) \in Tables /\ Then(w) \in Tables
      /\ requests'[w] \in Requests
      /\ requests'[w].at = "save" /\ requests'[w].op = r.op /\ requests'[w].id = r.id
      /\ requests'[w].name = r.name /\ requests'[w].todo = r.todo
      /\ requests'[w].list = Then(w) /\ requests'[w].prev = Seen(w)[r.name]
      /\ users' = IF OwnStore(w) THEN users ELSE Then(w)

LEMMA Puts ==
  ASSUME TypeOK, AllSound, NEW w \in Writers, Put(w)
  PROVE  PutFacts(w) /\ Before(w)' = Seen(w) /\ OwnStore(w)' = OwnStore(w)
<1> DEFINE r == requests[w]
           prev == Seen(w)[r.name]
           copy == IF r.todo = {} THEN Blank ELSE r.copy
<1>1. r \in Requests /\ r.at = "put" /\ r.name \in Names
  BY DEF TypeOK, AllSound, Sound, Put
<1>2. Seen(w) \in Tables /\ prev \in UserRecords \cup {NoUser} /\ copy \in Tables
  <2>1. Seen(w) \in Tables /\ copy \in Tables
    BY Parts, Basics DEF TypeOK, Seen
  <2> QED
    BY <1>1, <2>1 DEF Tables
<1>3. r.rec \in UserRecords \cup {NoUser}
  BY Parts
<1>4. Then(w) \in Tables /\ [Then(w) EXCEPT ![r.name] = prev] = Seen(w)
  BY <1>1, <1>2, <1>3, TableWith DEF Then
<1>5. requests'[w] = [r EXCEPT !.at = "save", !.prev = prev, !.list = Then(w),
                               !.base = NoUser, !.rec = NoUser, !.copy = copy]
  BY Goes DEF Put, Seen, Then, OwnStore
<1>6. users' = IF OwnStore(w) THEN users ELSE Then(w)
  BY DEF Put, Seen, Then, OwnStore
<1> HIDE DEF r, prev, copy
<1>7. requests'[w] \in Requests
  BY ZenonT(30), <1>1, <1>2, <1>4, <1>5 DEF Requests
<1>8. /\ requests'[w].at = "save" /\ requests'[w].op = r.op /\ requests'[w].id = r.id
      /\ requests'[w].name = r.name /\ requests'[w].todo = r.todo
      /\ requests'[w].list = Then(w) /\ requests'[w].prev = prev
  BY <1>1, <1>5 DEF Requests
<1>9. Before(w)' = [Then(w) EXCEPT ![r.name] = prev]
  BY <1>8 DEF Before
<1>10. OwnStore(w)' = OwnStore(w)
  BY <1>8 DEF OwnStore, r
<1> QED
  BY <1>1, <1>2, <1>4, <1>6, <1>7, <1>8, <1>9, <1>10 DEF PutFacts, r, prev

LEMMA PutMoves ==
  ASSUME TypeOK, AllSound, NEW w \in Writers, Put(w)
  PROVE  Moved(w) /\ users' \in Tables
<1>1. PutFacts(w) /\ Sound(w) /\ requests[w].at = "put"
  BY Puts DEF AllSound, Put
<1> QED
  BY <1>1 DEF PutFacts, Moved, Sound, Upserting, OwnStore, TypeOK

LEMMA AnswerMoves ==
  ASSUME TypeOK, AllSound, NEW w \in Writers, Answer(w), clock' = clock, requests[w].at = "rename"
  PROVE  Moved(w)
<1>1. CASE End(w)
  BY <1>1, Ends
<1>2. CASE ~End(w)
  BY <1>2, Parts, PutsBack DEF Answer, AllSound, Sound
<1> QED
  BY <1>1, <1>2

LEMMA RunMoves ==
  ASSUME TypeOK, AllSound, NEW w \in Writers, Arrive(w) \/ Run(w)
  PROVE  Moved(w)
<1>1. clock' = clock /\ events \subseteq events'
  BY Turns DEF Turn
<1>2. CASE Arrive(w)
  BY <1>2, ArriveMoves
<1>3. CASE \E op \in {"edit", "roles", "delete"} : NotFound(w, op)
  BY <1>3, Ends DEF NotFound
<1>4. CASE Gate(w)
  BY <1>1, <1>4, StepsOn DEF Gate
<1>5. CASE Read(w)
  BY <1>5, ReadMoves
<1>6. CASE LogIn(w) \/ ResetPassword(w) \/ UpdateUser(w) \/ SetUserRoles(w) \/ DeleteUser(w) \/ Put(w)
  BY <1>6, LogInMoves, ResetPasswordMoves, UpdateUserMoves, SetUserRolesMoves, DeleteUserMoves, PutMoves
<1>7. CASE CreateFirstAdmin(w) \/ CreateUser(w)
  BY <1>7, EnrollMoves DEF CreateFirstAdmin, CreateUser, Roles
<1>8. CASE CountAdmins(w)
  BY <1>1, <1>8, StepsOn, Ends DEF CountAdmins
<1>9. CASE Save(w)
  BY <1>1, <1>9, StepsOn DEF Save, Fault, Upserting
<1>10. CASE Write(w)
  BY <1>1, <1>10, StepsOn DEF Write, Fault, Upserting
<1>11. CASE Rename(w)
  BY <1>1, <1>11, StepsOn, AnswerMoves DEF Rename, Upserting
<1>12. CASE RenameFails(w)
  BY <1>1, <1>12, StepsOn DEF RenameFails, Fault, Upserting
<1>13. CASE Undo(w)
  BY <1>13, Ends DEF Undo
<1> QED
  BY <1>2, <1>3, <1>4, <1>5, <1>6, <1>7, <1>8, <1>9, <1>10, <1>11, <1>12, <1>13 DEF Run

\* The requests of others are as they were.
LEMMA OthersStay ==
  ASSUME TypeOK, AllSound, NEW w \in Writers, Turn(w), Moved(w)
  PROVE  requests' \in [Writers -> Requests] /\ AllSound'
<1>1. ASSUME NEW v \in Writers, v # w
      PROVE  requests'[v] = requests[v]
  BY <1>1 DEF Turn, TypeOK
<1>2. ASSUME NEW v \in Writers, v # w
      PROVE  Sound(v)'
  BY ZenonT(30), <1>1, <1>2 DEF AllSound, Sound, Upserting, OwnStore, Turn
<1>3. AllSound'
  BY <1>2 DEF AllSound, Moved
<1>4. requests' \in [Writers -> Requests]
  BY DEF Turn, TypeOK, Moved
<1> QED
  BY <1>3, <1>4

------------------------------------------------------------------------------
\* What a request does before it gets to UpsertUser, and what it does there.
Early(w) ==
  \/ Arrive(w)
  \/ \E op \in {"edit", "roles", "delete"} : NotFound(w, op)
  \/ Gate(w) \/ Read(w) \/ LogIn(w) \/ CreateFirstAdmin(w) \/ CreateUser(w) \/ UpdateUser(w) \/ SetUserRoles(w)
  \/ CountAdmins(w) \/ DeleteUser(w) \/ ResetPassword(w)
Late(w) == Put(w) \/ Save(w) \/ Write(w) \/ Rename(w) \/ RenameFails(w) \/ Undo(w)

LEMMA EarlyOrLate ==
  ASSUME NEW w, Arrive(w) \/ Run(w)
  PROVE  Early(w) \/ Late(w)
BY DEF Run, Early, Late

\* A request that begins or ends an upsert, or is at work in one.
EarlyFacts(w) ==
  /\ ~Upserting(w) /\ requests'[w].at \notin {"save", "write", "rename", "undo"}
  /\ users' = users /\ file' = file /\ holder' = holder
  /\ UNCHANGED <<tmp, fd>> \/ CleanUp

LEMMA EndsIdle ==
  ASSUME TypeOK, NEW w \in Writers, End(w)
  PROVE  requests'[w].at = "idle"
BY Ends DEF NoRequest

LEMMA DecidesPut ==
  ASSUME TypeOK, NEW w \in Writers, NEW n, NEW b, NEW u, Decide(w, n, b, u)
  PROVE  requests'[w].at = "put"
<1>1. requests'[w] = [requests[w] EXCEPT !.at = "put", !.name = n, !.base = b, !.rec = u]
  BY Goes DEF Decide
<1> QED
  BY <1>1 DEF TypeOK, Requests

LEMMA PutsBackPut ==
  ASSUME TypeOK, NEW w \in Writers, NEW r, PutBack(w, r), DOMAIN r = DOMAIN requests[w]
  PROVE  requests'[w].at = "put"
<1>1. PICK n \in r.todo :
        requests'[w] = [r EXCEPT !.at = "put", !.name = n, !.base = r.copy[n], !.rec = r.copy[n], !.todo = @ \ {n}]
  BY Goes DEF PutBack
<1>2. "at" \in DOMAIN r
  BY DEF TypeOK, Requests
<1> QED
  BY <1>1, <1>2

LEMMA EarlyMoves ==
  ASSUME TypeOK, AllSound, NEW w \in Writers, Early(w)
  PROVE  EarlyFacts(w)
<1> DEFINE before == ~Upserting(w)
           later == requests'[w].at \notin {"save", "write", "rename", "undo"}
           still == users' = users /\ UNCHANGED atomic
<1>1. CASE Arrive(w)
  <2>1. PICK op \in Ops, at \in {"gate", "find"} : Ask(w, op, at)
    BY <1>1 DEF Arrive, Ops
  <2>2. PICK id : requests'[w] = [NoRequest EXCEPT !.op = op, !.at = at, !.id = id]
    BY <2>1, Goes DEF Ask
  <2>3. requests'[w].at = at
    BY <2>2 DEF NoRequest
  <2>4. requests[w].at = "idle"
    <3>1. NoRequest.at = "idle"
      BY DEF NoRequest
    <3> QED
      BY <2>1, <3>1 DEF Ask
  <2>5. still
    BY <2>1 DEF Ask
  <2> QED
    BY <2>3, <2>4, <2>5 DEF EarlyFacts, Upserting, atomic
<1>2. CASE \E op \in {"edit", "roles", "delete"} : NotFound(w, op)
  BY <1>2, EndsIdle DEF NotFound, Find, EarlyFacts, Upserting, atomic
<1>3. CASE Gate(w)
  <2>1. requests'[w].at = "read"
    BY <1>3, Goes DEF Gate, Step, TypeOK, Requests
  <2> QED
    BY <1>3, <2>1 DEF Gate, EarlyFacts, Upserting, CleanUp
<1>4. CASE Read(w)
  <2>1. requests'[w].at \in {"idle", "find"}
    <3>1. CASE End(w)
      BY <3>1, EndsIdle
    <3>2. CASE ~End(w)
      <4>1. PICK copy : requests'[w] = [requests[w] EXCEPT !.at = "find", !.copy = copy]
        BY <1>4, <3>2, Goes DEF Read
      <4>2. "at" \in DOMAIN requests[w]
        BY DEF TypeOK, Requests
      <4>3. requests'[w].at = "find"
        BY <4>1, <4>2
      <4> QED
        BY <4>3
    <3> QED
      BY <3>1, <3>2
  <2> QED
    BY <1>4, <2>1 DEF Read, EarlyFacts, Upserting, atomic
<1>5. CASE LogIn(w)
  <2>1. requests'[w].at \in {"idle", "put"}
    BY <1>5, EndsIdle, DecidesPut DEF LogIn
  <2> QED
    BY <1>5, <2>1 DEF LogIn, Find, EarlyFacts, Upserting, atomic
<1>6. CASE CreateFirstAdmin(w) \/ CreateUser(w)
  <2>1. PICK op, role : Enroll(w, op, role)
    BY <1>6 DEF CreateFirstAdmin, CreateUser
  <2>2. requests'[w].at \in {"idle", "put"}
    BY <2>1, EndsIdle, DecidesPut DEF Enroll
  <2> QED
    BY <2>1, <2>2 DEF Enroll, Find, EarlyFacts, Upserting, atomic
<1>7. CASE UpdateUser(w)
  <2>1. requests'[w].at = "put"
    BY <1>7, DecidesPut DEF UpdateUser
  <2> QED
    BY <1>7, <2>1 DEF UpdateUser, Find, EarlyFacts, Upserting, atomic
<1>8. CASE SetUserRoles(w)
  <2>1. PICK n \in Names, role \in Roles :
          Continue(w, [requests[w] EXCEPT
            !.at = IF users[n].role = "admin" /\ role # "admin" THEN "count" ELSE "put",
            !.name = n, !.base = users[n], !.rec = [users[n] EXCEPT !.role = role]])
    BY <1>8 DEF SetUserRoles
  <2>2. PICK at \in {"count", "put"} :
          requests'[w] = [requests[w] EXCEPT !.at = at, !.name = n, !.base = users[n], !.rec = [users[n] EXCEPT !.role = role]]
    BY <2>1, Goes
  <2>3. requests'[w].at \in {"count", "put"}
    BY <2>2 DEF TypeOK, Requests
  <2> QED
    BY <1>8, <2>3 DEF SetUserRoles, Find, EarlyFacts, Upserting, atomic
<1>9. CASE CountAdmins(w)
  <2>1. requests'[w].at \in {"idle", "put"}
    BY <1>9, EndsIdle, Goes DEF CountAdmins, Step, TypeOK, Requests
  <2> QED
    BY <1>9, <2>1 DEF CountAdmins, EarlyFacts, Upserting, atomic
<1>10. CASE DeleteUser(w)
  <2>1. requests'[w].at \in {"idle", "put"}
    BY <1>10, EndsIdle, PutsBackPut DEF DeleteUser, TypeOK, Requests
  <2> QED
    BY <1>10, <2>1 DEF DeleteUser, Find, EarlyFacts, Upserting, atomic
<1>11. CASE ResetPassword(w)
  <2>1. requests'[w].at \in {"idle", "put"}
    BY <1>11, EndsIdle, DecidesPut DEF ResetPassword
  <2> QED
    BY <1>11, <2>1 DEF ResetPassword, Find, EarlyFacts, Upserting, atomic
<1> QED
  BY <1>1, <1>2, <1>3, <1>4, <1>5, <1>6, <1>7, <1>8, <1>9, <1>10, <1>11 DEF Early

------------------------------------------------------------------------------
\* The lock: who has it is at work on path.tmp, which is torn until it is filled.
FileSound == file.is # "torn" /\ (file.is = "none" => file = NoFile)
HolderSound == \A w \in Writers : requests[w].at \in {"write", "rename"} <=> holder = w
OpenSound ==
  /\ fd \in [Writers -> {"none", "tmp", "lost"}]
  /\ \A w \in Writers : fd[w] # "none" => holder = w
TmpSound ==
  \/ tmp = NoFile
  \/ \E w \in Writers : /\ holder = w /\ fd[w] = "tmp"
                       /\ tmp = IF requests[w].at = "write" THEN Torn ELSE Whole(requests[w].list)

LockInv == FileSound /\ HolderSound /\ OpenSound /\ TmpSound

LEMMA Opened ==
  ASSUME OpenSound
  PROVE  /\ \A w \in Writers : Without(Removed)[w] = IF fd[w] = "tmp" THEN "lost" ELSE fd[w]
         /\ \A w \in Writers : Without(Renamed)[w] = IF fd[w] = "tmp" THEN "file" ELSE fd[w]
         /\ DOMAIN Without(Removed) = Writers /\ DOMAIN Without(Renamed) = Writers
<1>1. DOMAIN Removed = {"tmp"} /\ Removed["tmp"] = "lost"
  BY DEF Removed
<1>2. DOMAIN Renamed = {"tmp", "file"} /\ Renamed["tmp"] = "file"
  BY DEF Renamed
<1>3. \A w \in Writers : fd[w] \in {"none", "tmp", "lost"}
  BY DEF OpenSound
<1> QED
  BY <1>1, <1>2, <1>3 DEF Without

\* A step within an upsert leaves the rest of the request.
Carries(w) ==
  /\ requests'[w].op = requests[w].op /\ requests'[w].name = requests[w].name
  /\ requests'[w].prev = requests[w].prev /\ requests'[w].list = requests[w].list

LEMMA Carry ==
  ASSUME TypeOK, NEW w \in Writers, NEW at, Step(w, at)
  PROVE  requests'[w].at = at /\ Carries(w)
<1>1. requests'[w] = [requests[w] EXCEPT !.at = at]
  BY Goes DEF Step
<1> QED
  BY <1>1 DEF TypeOK, Requests, Carries

LEMMA AnswerAt ==
  ASSUME TypeOK, NEW w \in Writers, Answer(w)
  PROVE  requests'[w].at \in {"idle", "put"}
BY EndsIdle, PutsBackPut DEF Answer

LEMMA EarlyLock ==
  ASSUME TypeOK, AllSound, LockInv, NEW w \in Writers, Turn(w), Early(w)
  PROVE  LockInv'
<1>1. EarlyFacts(w)
  BY EarlyMoves
<1>2. \A v \in Writers \ {w} : requests'[v] = requests[v]
  BY DEF Turn, TypeOK
<1>3. holder # w /\ holder' = holder /\ file' = file
  BY <1>1 DEF EarlyFacts, LockInv, HolderSound, Upserting
<1>4. FileSound' /\ HolderSound'
  BY <1>1, <1>2, <1>3 DEF EarlyFacts, LockInv, FileSound, HolderSound, NoFile, Upserting
<1>5. CASE UNCHANGED <<tmp, fd>>
  BY <1>1, <1>2, <1>3, <1>4, <1>5 DEF LockInv, OpenSound, TmpSound, NoFile, Torn, Whole
<1>6. CASE CleanUp
  <2>1. fd' = Without(Removed) /\ tmp' = NoFile
    BY <1>6 DEF CleanUp
  <2>2. OpenSound'
    <3>1. fd' \in [Writers -> {"none", "tmp", "lost"}]
      BY <2>1, Opened DEF Without, LockInv, OpenSound
    <3>2. \A v \in Writers : fd'[v] # "none" => fd[v] # "none"
      BY <2>1, Opened DEF LockInv
    <3> QED
      BY <1>3, <3>1, <3>2 DEF LockInv, OpenSound
  <2> QED
    BY <1>4, <2>1, <2>2 DEF LockInv, TmpSound, NoFile
<1> QED
  BY <1>1, <1>5, <1>6 DEF EarlyFacts

\* Who is not at work on path.tmp has not got it open, and has not got the lock.
LEMMA Outside ==
  ASSUME LockInv, NEW w \in Writers, requests[w].at \notin {"write", "rename"}
  PROVE  holder # w /\ fd[w] = "none"
BY DEF LockInv, HolderSound, OpenSound

LEMMA Inside ==
  ASSUME LockInv, NEW w \in Writers, requests[w].at \in {"write", "rename"}
  PROVE  /\ holder = w
         /\ \A v \in Writers \ {w} : requests[v].at \notin {"write", "rename"} /\ fd[v] = "none"
         /\ tmp # NoFile => /\ fd[w] = "tmp"
                           /\ tmp = IF requests[w].at = "write" THEN Torn ELSE Whole(requests[w].list)
BY DEF LockInv, HolderSound, OpenSound, TmpSound

\* When the files, the lock and who is at work are as before, nothing else matters.
LEMMA SameLock ==
  ASSUME TypeOK, LockInv, NEW w \in Writers, Turn(w), UNCHANGED atomic,
         requests[w].at \notin {"write", "rename"}, requests'[w].at \notin {"write", "rename"}
  PROVE  LockInv'
<1>1. \A v \in Writers \ {w} : requests'[v] = requests[v]
  BY DEF Turn, TypeOK
<1>2. holder # w /\ file' = file /\ tmp' = tmp /\ fd' = fd /\ holder' = holder
  BY Outside DEF atomic
<1> QED
  BY <1>1, <1>2 DEF LockInv, FileSound, HolderSound, OpenSound, TmpSound, NoFile, Torn, Whole

\* Who leaves gives the lock back, with a file that is whole and path.tmp gone.
LEMMA LeavesLock ==
  ASSUME TypeOK, LockInv, NEW w \in Writers, Turn(w), Unlock(w), FileSound', tmp' = NoFile,
         fd'[w] = "none", DOMAIN fd' = Writers, \A v \in Writers \ {w} : fd[v] = "none" => fd'[v] = "none",
         requests[w].at \in {"write", "rename"}, requests'[w].at \notin {"write", "rename"},
         fd' = [v \in Writers |-> fd'[v]]
  PROVE  LockInv'
<1>1. \A v \in Writers \ {w} : requests'[v] = requests[v]
  BY DEF Turn, TypeOK
<1>2. holder' = NoOne /\ NoOne \notin Writers
  BY Inside, WriterAssumption DEF Unlock
<1>3. \A v \in Writers : fd'[v] = "none"
  BY Inside
<1>4. HolderSound'
  BY <1>1, <1>2, Inside DEF HolderSound
<1>5. OpenSound'
  BY <1>3 DEF OpenSound
<1> QED
  BY <1>4, <1>5 DEF LockInv, TmpSound, NoFile

LEMMA SaveLock ==
  ASSUME TypeOK, LockInv, NEW w \in Writers, Turn(w), Save(w)
  PROVE  LockInv'
<1>1. CASE Fault(w) /\ UNCHANGED atomic
  BY <1>1, Carry, SameLock DEF Save, Fault
<1>2. CASE WithLock(w) /\ Create(w) /\ Step(w, "write")
  <2>1. \A v \in Writers \ {w} : requests'[v] = requests[v]
    BY DEF Turn, TypeOK
  <2>2. requests'[w].at = "write"
    BY <1>2, Carry
  <2>3. /\ holder = NoOne /\ holder' = w /\ tmp' = Torn /\ file' = file
        /\ fd' = [fd EXCEPT ![w] = "tmp"] /\ fd \in [Writers -> {"none", "tmp", "lost"}]
    BY <1>2 DEF WithLock, Create, LockInv, OpenSound
  <2>4. \A v \in Writers : requests[v].at \notin {"write", "rename"} /\ fd[v] = "none"
    BY <2>3, WriterAssumption DEF LockInv, HolderSound, OpenSound
  <2>5. fd'[w] = "tmp" /\ \A v \in Writers \ {w} : fd'[v] = "none"
    BY <2>3, <2>4
  <2>6. HolderSound'
    BY <2>1, <2>2, <2>3, <2>4 DEF HolderSound
  <2>7. OpenSound'
    BY <2>3, <2>5 DEF OpenSound
  <2>8. TmpSound'
    BY <2>2, <2>3, <2>5 DEF TmpSound, Torn
  <2> QED
    BY <2>3, <2>6, <2>7, <2>8 DEF LockInv, FileSound, NoFile
<1> QED
  BY <1>1, <1>2 DEF Save

\* A write or a rename that fails.
LEMMA DiscardLock ==
  ASSUME TypeOK, LockInv, NEW w \in Writers, Turn(w), Discard(w), Unlock(w),
         requests[w].at \in {"write", "rename"}, requests'[w].at \notin {"write", "rename"}
  PROVE  LockInv'
<1>1. fd' = [Without(Removed) EXCEPT ![w] = "none"] /\ tmp' = NoFile /\ file' = file
  BY DEF Discard
<1>2. /\ \A v \in Writers : Without(Removed)[v] = IF fd[v] = "tmp" THEN "lost" ELSE fd[v]
      /\ DOMAIN Without(Removed) = Writers
  BY Opened DEF LockInv
<1>3. /\ fd'[w] = "none" /\ DOMAIN fd' = Writers /\ fd' = [v \in Writers |-> fd'[v]]
      /\ \A v \in Writers \ {w} : fd[v] = "none" => fd'[v] = "none"
  BY <1>1, <1>2 DEF Without
<1>4. FileSound'
  BY <1>1 DEF LockInv, FileSound, NoFile
<1> QED
  BY <1>1, <1>3, <1>4, LeavesLock

\* The file becomes what path.tmp was: the list that is saved.
LEMMA RenamesList ==
  ASSUME LockInv, NEW w \in Writers, RenameOver(w), requests[w].at = "rename"
  PROVE  file' = Whole(requests[w].list)
BY Inside DEF RenameOver

LEMMA RenameLock ==
  ASSUME TypeOK, LockInv, NEW w \in Writers, Turn(w), RenameOver(w), Unlock(w),
         requests[w].at = "rename", requests'[w].at \notin {"write", "rename"}
  PROVE  LockInv'
<1>1. fd' = [Without(Renamed) EXCEPT ![w] = "none"] /\ tmp' = NoFile
  BY DEF RenameOver
<1>2. /\ \A v \in Writers : Without(Renamed)[v] = IF fd[v] = "tmp" THEN "file" ELSE fd[v]
      /\ DOMAIN Without(Renamed) = Writers
  BY Opened DEF LockInv
<1>3. /\ fd'[w] = "none" /\ DOMAIN fd' = Writers /\ fd' = [v \in Writers |-> fd'[v]]
      /\ \A v \in Writers \ {w} : fd[v] = "none" => fd'[v] = "none"
  BY <1>1, <1>2 DEF Without
<1>4. FileSound'
  <2>1. file' = Whole(requests[w].list)
    BY RenamesList
  <2>2. Whole(requests[w].list).is = "whole"
    BY DEF Whole
  <2> QED
    BY <2>1, <2>2 DEF FileSound
<1> QED
  BY <1>1, <1>3, <1>4, LeavesLock

LEMMA WriteLock ==
  ASSUME TypeOK, LockInv, NEW w \in Writers, Turn(w), Write(w)
  PROVE  LockInv'
<1>1. CASE Fault(w) /\ Discard(w) /\ Unlock(w)
  BY <1>1, Carry, DiscardLock DEF Write, Fault
<1>2. CASE Fill(w, requests[w].list) /\ Step(w, "rename") /\ UNCHANGED <<holder, faults>>
  <2>1. \A v \in Writers \ {w} : requests'[v] = requests[v]
    BY DEF Turn, TypeOK
  <2>2. requests'[w].at = "rename" /\ requests'[w].list = requests[w].list /\ requests[w].at = "write"
    BY <1>2, Carry DEF Carries, Write
  <2>3. /\ holder = w /\ holder' = holder /\ fd' = fd /\ fd[w] \in {"none", "tmp", "lost"}
        /\ tmp' = IF fd[w] = "tmp" THEN Whole(requests[w].list) ELSE tmp
        /\ file' = IF fd[w] = "file" THEN Whole(requests[w].list) ELSE file
    BY <1>2, <2>2, Inside DEF Fill, LockInv, OpenSound
  <2>4. file' = file
    BY <2>3
  <2>5. HolderSound'
    BY <2>1, <2>2, <2>3 DEF LockInv, HolderSound
  <2>6. OpenSound'
    BY <2>3 DEF LockInv, OpenSound
  <2>7. TmpSound'
    <3>1. CASE fd[w] = "tmp"
      BY <2>2, <2>3, <3>1 DEF TmpSound, Whole
    <3>2. CASE fd[w] # "tmp"
      <4>1. tmp = NoFile /\ tmp' = tmp
        BY <2>2, <2>3, <3>2, Inside
      <4> QED
        BY <4>1 DEF TmpSound, NoFile
    <3> QED
      BY <3>1, <3>2
  <2> QED
    BY <2>4, <2>5, <2>6, <2>7 DEF LockInv, FileSound, NoFile
<1> QED
  BY <1>1, <1>2 DEF Write

LEMMA LateLock ==
  ASSUME TypeOK, AllSound, LockInv, NEW w \in Writers, Turn(w), Late(w)
  PROVE  LockInv'
<1>1. CASE Put(w)
  BY <1>1, Puts, SameLock DEF Put, PutFacts
<1>2. CASE Save(w) \/ Write(w)
  BY <1>2, SaveLock, WriteLock
<1>3. CASE Rename(w)
  <2>1. requests[w].at = "rename" /\ Unlock(w)
    BY <1>3 DEF Rename
  <2>2. CASE RenameOver(w) /\ Answer(w)
    BY <2>1, <2>2, AnswerAt, RenameLock
  <2>3. CASE Discard(w) /\ Step(w, "undo")
    BY <2>1, <2>3, Carry, DiscardLock
  <2> QED
    BY <1>3, <2>2, <2>3 DEF Rename
<1>4. CASE RenameFails(w)
  BY <1>4, Carry, RenameLock DEF RenameFails, Fault
<1>5. CASE Undo(w)
  BY <1>5, EndsIdle, SameLock DEF Undo
<1> QED
  BY <1>1, <1>2, <1>3, <1>4, <1>5 DEF Late

------------------------------------------------------------------------------
\* What a step within an upsert may do: go on, end it, or undo it.
GoesOn(w) == Upserting(w) /\ Upserting(w)' /\ Carries(w) /\ users' = users
Succeeds(w) ==
  /\ requests[w].at = "rename" /\ RenameOver(w) /\ Answer(w)
  /\ requests'[w].at \in {"idle", "put"} /\ users' = users
Undoes(w) ==
  LET r == requests[w]
  IN  /\ r.at = "undo" /\ requests'[w] = NoRequest /\ file' = file
      /\ users' = IF OwnStore(w) THEN users ELSE [users EXCEPT ![r.name] = r.prev]
      /\ OwnStore(w) \/ "undone" \in events' \/ (Others(w) = {} /\ users = r.list)

LEMMA LateMoves ==
  ASSUME TypeOK, AllSound, LockInv, NEW w \in Writers, Late(w), ~Put(w)
  PROVE  /\ GoesOn(w) \/ Succeeds(w) \/ Undoes(w)
         /\ GoesOn(w) => file' = file \/ (file' = Whole(requests[w].list) /\ "apart" \in events')
         /\ holder' \in Writers \cup {NoOne} /\ count' = count
<1>1. holder \in Writers \cup {NoOne}
  BY DEF TypeOK
<1>2. CASE Save(w)
  <2>1. Upserting(w) /\ users' = users /\ count' = count
    BY <1>2 DEF Save, Upserting
  <2>2. Upserting(w)' /\ Carries(w)
    BY <1>2, Carry DEF Save, Fault, Upserting
  <2>3. file' = file /\ holder' \in Writers \cup {NoOne}
    BY <1>1, <1>2 DEF Save, WithLock, Create, atomic
  <2> QED
    BY <2>1, <2>2, <2>3 DEF GoesOn, Upserting
<1>3. CASE Write(w)
  <2>1. Upserting(w) /\ users' = users /\ count' = count /\ requests[w].at = "write"
    BY <1>3 DEF Write, Upserting
  <2>2. Upserting(w)' /\ Carries(w)
    BY <1>3, Carry DEF Write, Fault, Upserting
  <2>3. fd[w] # "file"
    BY DEF LockInv, OpenSound
  <2>4. file' = file /\ holder' \in Writers \cup {NoOne}
    BY <1>1, <1>3, <2>3 DEF Write, Fill, Discard, Unlock
  <2> QED
    BY <2>1, <2>2, <2>4 DEF GoesOn, Upserting
<1>4. CASE Rename(w)
  <2>1. requests[w].at = "rename" /\ users' = users /\ count' = count /\ holder' \in Writers \cup {NoOne}
    BY <1>1, <1>4 DEF Rename, Unlock, bounds
  <2>2. CASE RenameOver(w) /\ Answer(w)
    BY <2>1, <2>2, AnswerAt DEF Succeeds, GoesOn, Upserting
  <2>3. CASE Discard(w) /\ Step(w, "undo")
    BY <2>1, <2>3, Carry DEF GoesOn, Upserting, Discard
  <2> QED
    BY <1>4, <2>1, <2>2, <2>3 DEF Rename
<1>5. CASE RenameFails(w)
  <2>1. /\ requests[w].at = "rename" /\ users' = users /\ count' = count /\ holder' \in Writers \cup {NoOne}
        /\ "apart" \in events' /\ Step(w, "undo")
    BY <1>1, <1>5 DEF RenameFails, Unlock, Fault
  <2>2. file' = Whole(requests[w].list)
    BY <1>5, RenamesList DEF RenameFails
  <2> QED
    BY <2>1, <2>2, Carry DEF GoesOn, Upserting
<1>6. CASE Undo(w)
  <2>1. requests[w].at = "undo" /\ requests'[w] = NoRequest /\ file' = file /\ holder' = holder /\ count' = count
    BY <1>6, Ends DEF Undo, atomic, bounds
  <2>2. /\ users' = IF OwnStore(w) THEN users ELSE [users EXCEPT ![requests[w].name] = requests[w].prev]
        /\ OwnStore(w) \/ "undone" \in events' \/ (Others(w) = {} /\ users = requests[w].list)
    BY <1>6 DEF Undo, OwnStore
  <2>3. ~GoesOn(w)
    BY <2>1 DEF GoesOn, Upserting, NoRequest
  <2> QED
    BY <1>1, <2>1, <2>2, <2>3 DEF Undoes
<1> QED
  BY <1>2, <1>3, <1>4, <1>5, <1>6 DEF Late

\* What is in the file was in a list that was to be saved.
LEMMA SucceedsFile ==
  ASSUME LockInv, NEW w \in Writers, Succeeds(w)
  PROVE  file' = Whole(requests[w].list)
BY RenamesList DEF Succeeds

LEMMA WholeType ==
  ASSUME NEW table \in Tables
  PROVE  /\ Whole(table) \in [is : {"none", "torn", "whole"}, data : Tables]
         /\ Whole(table).data = table /\ Whole(table).is = "whole"
BY DEF Whole

LEMMA RunType ==
  ASSUME TypeOK, AllSound, LockInv, NEW w \in Writers, Arrive(w) \/ Run(w)
  PROVE  TypeOK' /\ AllSound'
<1>1. Turn(w) /\ Moved(w)
  BY Turns, RunMoves
<1>2. requests' \in [Writers -> Requests] /\ AllSound'
  BY <1>1, OthersStay
<1>3. clock' \in 0..MaxTime /\ restarts' \in 0..MaxRestarts
  BY <1>1 DEF Turn, TypeOK
<1>4. CASE Early(w)
  <2>1. users' \in Tables /\ file' = file /\ holder' \in Writers \cup {NoOne}
    BY <1>4, EarlyMoves DEF EarlyFacts, TypeOK
  <2>2. count' \in 0..MaxRequests
    <3>1. count \in 0..MaxRequests /\ MaxRequests \in Nat
      BY Bounds DEF TypeOK
    <3>2. count' = count \/ (count < MaxRequests /\ count' = count + 1)
      BY <1>4 DEF Early, Arrive, Ask, NotFound, Find, Gate, Read, LogIn, CreateFirstAdmin, CreateUser, Enroll,
                  UpdateUser, SetUserRoles, CountAdmins, DeleteUser, ResetPassword, bounds
    <3> QED
      BY <3>1, <3>2
  <2>3. file' \in [is : {"none", "torn", "whole"}, data : Tables]
    BY <2>1 DEF TypeOK
  <2> QED
    BY <1>2, <1>3, <2>1, <2>2, <2>3 DEF TypeOK
<1>5. CASE Put(w)
  <2>1. users' \in Tables /\ file' = file /\ holder' = holder /\ count' = count
    BY <1>5, PutMoves DEF Put, atomic, bounds
  <2> QED
    BY <1>2, <1>3, <2>1 DEF TypeOK
<1>6. CASE Late(w) /\ ~Put(w)
  <2>1. /\ GoesOn(w) \/ Succeeds(w) \/ Undoes(w)
        /\ GoesOn(w) => file' = file \/ file' = Whole(requests[w].list)
        /\ holder' \in Writers \cup {NoOne} /\ count' = count
    BY <1>6, LateMoves
  <2>2. users' \in Tables
    <3>1. requests[w].at = "undo" => requests[w].name \in Names /\ requests[w].prev \in UserRecords \cup {NoUser}
      BY Parts DEF AllSound, Sound, Upserting
    <3> QED
      BY <2>1, <3>1, TableWith DEF TypeOK, GoesOn, Succeeds, Undoes
  <2>3. file' = file \/ file' = Whole(requests[w].list)
    BY <2>1, SucceedsFile DEF Undoes
  <2>4. file' \in [is : {"none", "torn", "whole"}, data : Tables]
    BY <2>3, Parts, WholeType DEF TypeOK
  <2> QED
    BY <1>2, <1>3, <2>1, <2>2, <2>4 DEF TypeOK
<1> QED
  BY <1>4, <1>5, <1>6, EarlyOrLate DEF Late

------------------------------------------------------------------------------
\* While no two saves run into each other one request has the memory to itself.
AloneInv ==
  "crossed" \notin events =>
    /\ \A v, w \in Writers : Upserting(v) /\ Upserting(w) => v = w
    /\ \A w \in Writers : Upserting(w) /\ ~OwnStore(w) => users = requests[w].list

\* The file has what was in memory before that request, and has it again when it is over.
Saved(table) == file = Whole(table) \/ (file = NoFile /\ table = Blank)
QuietInv ==
  Barring({"crossed", "apart"}) =>
    /\ (\A w \in Writers : ~Upserting(w)) => Saved(users)
    /\ \A w \in Writers : Upserting(w) => ~OwnStore(w) /\ Saved(Before(w))

\* The others are where they were.
LEMMA OthersWait ==
  ASSUME TypeOK, NEW w \in Writers, Turn(w), NEW v \in Writers, v # w
  PROVE  /\ requests'[v] = requests[v] /\ Upserting(v)' = Upserting(v) /\ OwnStore(v)' = OwnStore(v)
         /\ Before(v)' = Before(v)
<1>1. requests'[v] = requests[v]
  BY DEF Turn, TypeOK
<1> QED
  BY <1>1 DEF Upserting, OwnStore, Before

LEMMA StillUpserting ==
  ASSUME NEW w \in Writers, Carries(w)
  PROVE  OwnStore(w)' = OwnStore(w) /\ Before(w)' = Before(w)
BY DEF Carries, OwnStore, Before

LEMMA Crossing ==
  ASSUME TypeOK, AllSound, NEW w \in Writers, Put(w), "crossed" \notin events', NEW v \in Writers, v # w
  PROVE  ~Upserting(v)
<1>1. Upserting(v) => requests[v].at # "idle"
  BY DEF Upserting
<1>2. NoRequest.at = "idle"
  BY DEF NoRequest
<1>3. Upserting(v) => v \in Others(w)
  BY <1>1, <1>2 DEF Others
<1>4. (\E u \in Others(w) : Upserting(u)) => "crossed" \in events'
  BY DEF Put, Noted
<1> QED
  BY <1>3, <1>4

LEMMA RunAlone ==
  ASSUME TypeOK, AllSound, LockInv, AloneInv, NEW w \in Writers, Turn(w), Early(w) \/ Late(w)
  PROVE  AloneInv'
<1> SUFFICES ASSUME "crossed" \notin events'
             PROVE  /\ \A u, v \in Writers : Upserting(u)' /\ Upserting(v)' => u = v
                    /\ \A v \in Writers : Upserting(v)' /\ ~OwnStore(v)' => users' = requests'[v].list
  BY DEF AloneInv
<1>1. /\ \A u, v \in Writers : Upserting(u) /\ Upserting(v) => u = v
      /\ \A v \in Writers : Upserting(v) /\ ~OwnStore(v) => users = requests[v].list
  BY DEF AloneInv, Turn
<1>2. \A v \in Writers \ {w} : /\ requests'[v] = requests[v] /\ Upserting(v)' = Upserting(v)
                              /\ OwnStore(v)' = OwnStore(v)
  BY OthersWait
<1>3. CASE Early(w)
  <2>1. ~Upserting(w)' /\ users' = users
    BY <1>3, EarlyMoves DEF EarlyFacts, Upserting
  <2> QED
    BY <1>1, <1>2, <2>1
<1>4. CASE Put(w)
  <2>1. \A v \in Writers \ {w} : ~Upserting(v)
    BY <1>4, Crossing
  <2>2. ~OwnStore(w) => users' = requests'[w].list
    BY <1>4, Puts DEF PutFacts
  <2>3. OwnStore(w)' = OwnStore(w)
    BY <1>4, Puts
  <2> QED
    BY <1>2, <2>1, <2>2, <2>3
<1>5. CASE Late(w) /\ ~Put(w)
  <2>1. CASE GoesOn(w)
    <3>1. Upserting(w) /\ users' = users /\ requests'[w].list = requests[w].list /\ OwnStore(w)' = OwnStore(w)
      BY <2>1, StillUpserting DEF GoesOn, Carries
    <3> QED
      BY <1>1, <1>2, <3>1
  <2>2. CASE Succeeds(w) \/ Undoes(w)
    <3>1. Upserting(w) /\ ~Upserting(w)'
      BY <2>2 DEF Succeeds, Undoes, Upserting, NoRequest
    <3> QED
      BY <1>1, <1>2, <3>1
  <2> QED
    BY <1>5, <2>1, <2>2, LateMoves
<1> QED
  BY <1>3, <1>4, <1>5 DEF Late

LEMMA RunQuiet ==
  ASSUME TypeOK, AllSound, LockInv, AloneInv, QuietInv, NEW w \in Writers, Turn(w), Early(w) \/ Late(w)
  PROVE  QuietInv'
<1> SUFFICES ASSUME "crossed" \notin events', "apart" \notin events'
             PROVE  /\ (\A v \in Writers : ~Upserting(v)') => Saved(users)'
                    /\ \A v \in Writers : Upserting(v)' => ~OwnStore(v)' /\ Saved(Before(v))'
  BY DEF QuietInv, Barring
<1>1. "crossed" \notin events /\ "apart" \notin events
  BY DEF Turn
<1>2. /\ (\A v \in Writers : ~Upserting(v)) => Saved(users)
      /\ \A v \in Writers : Upserting(v) => ~OwnStore(v) /\ Saved(Before(v))
  BY <1>1 DEF QuietInv, Barring
<1>3. \A u, v \in Writers : Upserting(u) /\ Upserting(v) => u = v
  BY <1>1 DEF AloneInv
<1>4. \A v \in Writers \ {w} : /\ Upserting(v)' = Upserting(v) /\ OwnStore(v)' = OwnStore(v)
                              /\ Before(v)' = Before(v)
  BY OthersWait
<1>5. ASSUME file' = file, NEW v \in Writers, Before(v)' = Before(v)
      PROVE  Saved(Before(v))' = Saved(Before(v))
  BY <1>5 DEF Saved, Whole, NoFile
<1>6. CASE Early(w)
  <2>1. ~Upserting(w) /\ ~Upserting(w)' /\ users' = users /\ file' = file
    BY <1>6, EarlyMoves DEF EarlyFacts, Upserting
  <2>2. Saved(users)' = Saved(users)
    BY <2>1 DEF Saved, Whole, NoFile
  <2> QED
    BY <1>2, <1>4, <1>5, <2>1, <2>2
<1>7. CASE Put(w)
  <2>1. \A v \in Writers \ {w} : ~Upserting(v)
    BY <1>7, Crossing
  <2>2. ~Upserting(w) /\ file' = file
    BY <1>7 DEF Put, Upserting, atomic
  <2>3. ~OwnStore(w)
    BY <1>7 DEF Put, Noted, OwnStore
  <2>4. Before(w)' = users /\ ~OwnStore(w)'
    BY <1>7, <2>3, Puts DEF Seen
  <2>5. Saved(Before(w))'
    BY <1>2, <2>1, <2>2, <2>4 DEF Saved, Whole, NoFile
  <2>6. Upserting(w)'
    BY <1>7, Puts DEF PutFacts, Upserting
  <2> QED
    BY <1>4, <2>1, <2>4, <2>5, <2>6
<1>8. CASE Late(w) /\ ~Put(w)
  <2>1. CASE GoesOn(w)
    <3>1. Upserting(w) /\ Upserting(w)' /\ OwnStore(w)' = OwnStore(w) /\ Before(w)' = Before(w)
      BY <2>1, StillUpserting DEF GoesOn
    <3>2. file' = file
      BY <1>8, <2>1, LateMoves
    <3> QED
      BY <1>2, <1>4, <1>5, <3>1, <3>2
  <2>2. CASE Succeeds(w)
    <3>1. Upserting(w) /\ users' = users /\ file' = Whole(requests[w].list) /\ ~Upserting(w)'
      BY <2>2, SucceedsFile DEF Succeeds, Upserting
    <3>2. users = requests[w].list
      BY <1>1, <1>2, <3>1 DEF AloneInv
    <3>3. Saved(users)'
      BY <3>1, <3>2 DEF Saved, Whole
    <3> QED
      BY <1>3, <1>4, <3>1, <3>3
  <2>3. CASE Undoes(w)
    <3>1. Upserting(w) /\ ~Upserting(w)' /\ file' = file
      BY <2>3 DEF Undoes, Upserting, NoRequest
    <3>2. ~OwnStore(w) /\ users = requests[w].list
      BY <1>1, <1>2, <3>1 DEF AloneInv
    <3>3. users' = Before(w)
      BY <2>3, <3>2 DEF Undoes, Before
    <3>4. Saved(users)'
      BY <1>2, <3>1, <3>3 DEF Saved, Whole, NoFile
    <3> QED
      BY <1>3, <1>4, <3>1, <3>4
  <2> QED
    BY <1>8, <2>1, <2>2, <2>3, LateMoves
<1> QED
  BY <1>6, <1>7, <1>8 DEF Late

------------------------------------------------------------------------------
\* While the memory has no users nobody is about to put one but a first administrator.
NoneYet(w) ==
  \/ requests[w].op \in {"none", "first admin", "reset"}
  \/ requests[w].op = "login" /\ requests[w].at \in {"gate", "read", "find"}

\* Every table there is, in memory, in the file, to be saved or to go back to, is empty or
\* has an administrator.
RequestKept(w) ==
  /\ Upserting(w) => Admins(requests[w].list) # {} /\ (OwnStore(w) \/ Some(Before(w)))
  /\ OwnStore(w) /\ requests[w].at \in {"find", "put"} => Some(requests[w].copy)
  /\ users = Blank => NoneYet(w)
TablesKept ==
  /\ Some(users) /\ Some(file.data) /\ ("set up" \in events => Admins(file.data) # {})
  /\ \A w \in Writers : RequestKept(w)

SetupInv == Barring({"demoted", "wiped", "undone"}) => TablesKept

LEMMA NoAdmins ==
  Admins(Blank) = {} /\ \A n \in Names : Blank[n] = NoUser
<1>1. \A n \in Names : Blank[n] = NoUser
  BY GivenAssumption
<1>2. NoUser.role # "admin"
  BY DEF NoUser
<1> QED
  BY <1>1, <1>2 DEF Admins

LEMMA DecidesRest ==
  ASSUME TypeOK, NEW w \in Writers, NEW n, NEW b, NEW u, Decide(w, n, b, u)
  PROVE  requests'[w].op = requests[w].op /\ requests'[w].copy = requests[w].copy
<1>1. requests'[w] = [requests[w] EXCEPT !.at = "put", !.name = n, !.base = b, !.rec = u]
  BY Goes DEF Decide
<1> QED
  BY <1>1 DEF TypeOK, Requests

LEMMA StepRest ==
  ASSUME TypeOK, NEW w \in Writers, NEW at, Step(w, at)
  PROVE  requests'[w].at = at /\ requests'[w].op = requests[w].op /\ requests'[w].copy = requests[w].copy
<1>1. requests'[w] = [requests[w] EXCEPT !.at = at]
  BY Goes DEF Step
<1> QED
  BY <1>1 DEF TypeOK, Requests

LEMMA EndsNone ==
  ASSUME TypeOK, NEW w \in Writers, End(w)
  PROVE  requests'[w].op = "none"
BY Ends DEF NoRequest

\* DeleteUser goes on as DeleteUser.
LEMMA PutsBackOp ==
  ASSUME TypeOK, NEW w \in Writers, NEW r, PutBack(w, r), DOMAIN r = DOMAIN requests[w]
  PROVE  requests'[w].op = r.op
<1>1. PICK n \in r.todo :
        requests'[w] = [r EXCEPT !.at = "put", !.name = n, !.base = r.copy[n], !.rec = r.copy[n], !.todo = @ \ {n}]
  BY Goes DEF PutBack
<1>2. "op" \in DOMAIN r
  BY DEF TypeOK, Requests
<1> QED
  BY <1>1, <1>2

LEMMA DeleteOp ==
  ASSUME TypeOK, NEW w \in Writers, DeleteUser(w), ~End(w)
  PROVE  requests'[w].op = requests[w].op
<1>1. PICK n \in Names :
        PutBack(w, [requests[w] EXCEPT !.id = users[n].id, !.copy = users,
                                       !.todo = {m \in Names \ {n} : users[m] # NoUser}])
  BY DEF DeleteUser
<1> DEFINE r == [requests[w] EXCEPT !.id = users[n].id, !.copy = users,
                                    !.todo = {m \in Names \ {n} : users[m] # NoUser}]
<1>2. DOMAIN r = DOMAIN requests[w] /\ r.op = requests[w].op
  BY DEF TypeOK, Requests
<1>3. PutBack(w, r)
  BY <1>1
<1> HIDE DEF r
<1> QED
  BY <1>2, <1>3, PutsBackOp

LEMMA RolesMove ==
  ASSUME TypeOK, NEW w \in Writers, SetUserRoles(w)
  PROVE  /\ requests'[w].op = requests[w].op
         /\ requests'[w].at = "count" \/ ~(requests'[w].base.role = "admin" /\ requests'[w].rec.role # "admin")
<1>1. PICK n \in {m \in Names : users[m] # NoUser}, role \in Roles :
        Continue(w, [requests[w] EXCEPT
          !.at = IF users[n].role = "admin" /\ role # "admin" THEN "count" ELSE "put",
          !.name = n, !.base = users[n], !.rec = [users[n] EXCEPT !.role = role]])
  BY DEF SetUserRoles
<1>2. PICK at \in {"count", "put"} :
        /\ requests'[w] = [requests[w] EXCEPT !.at = at, !.name = n, !.base = users[n],
                                              !.rec = [users[n] EXCEPT !.role = role]]
        /\ at = "count" \/ ~(users[n].role = "admin" /\ role # "admin")
  BY <1>1, Goes
<1>3. [users[n] EXCEPT !.role = role].role = role
  BY UsersType, RoleType
<1>4. /\ requests'[w].op = requests[w].op /\ requests'[w].at = at
      /\ requests'[w].base = users[n] /\ requests'[w].rec = [users[n] EXCEPT !.role = role]
  BY <1>2 DEF TypeOK, Requests
<1> QED
  BY <1>2, <1>3, <1>4

\* A request before its upsert, seen from the tables.
EarlyKept(w) ==
  /\ requests'[w].op = "reset" /\ requests'[w].at \in {"find", "put"} => Some(requests'[w].copy)
  /\ users = Blank => \/ requests'[w].op \in {"none", "first admin", "reset"}
                      \/ requests'[w].op = "login" /\ requests'[w].at \in {"gate", "read", "find"}

LEMMA EarlyKeeps ==
  ASSUME TypeOK, AllSound, TablesKept, NEW w \in Writers, Early(w)
  PROVE  EarlyKept(w)
<1>1. /\ OwnStore(w) /\ requests[w].at \in {"find", "put"} => Some(requests[w].copy)
      /\ users = Blank => NoneYet(w)
      /\ Some(file.data)
  BY DEF TablesKept, RequestKept
<1>2. CASE Arrive(w)
  <2>1. PICK op \in Ops, at \in {"gate", "find"} :
          Ask(w, op, at) /\ (op = "reset" => at = "gate") /\ (users = Blank => op \in {"login", "first admin", "reset"} /\ at = "gate")
    BY <1>2, NoAdmins DEF Arrive, Ops
  <2>2. PICK id : requests'[w] = [NoRequest EXCEPT !.op = op, !.at = at, !.id = id]
    BY <2>1, Goes DEF Ask
  <2>3. requests'[w].at = at /\ requests'[w].op = op
    BY <2>2 DEF NoRequest
  <2> QED
    BY <2>1, <2>3 DEF EarlyKept
<1>3. CASE \E op \in {"edit", "roles", "delete"} : NotFound(w, op)
  BY <1>3, EndsNone DEF NotFound, EarlyKept
<1>4. CASE Gate(w)
  BY <1>1, <1>4, StepRest DEF Gate, EarlyKept, NoneYet
<1>5. CASE Read(w)
  <2>1. CASE End(w)
    BY <2>1, EndsNone DEF EarlyKept
  <2>2. CASE ~End(w)
    <3>1. requests'[w] = [requests[w] EXCEPT !.at = "find",
                                             !.copy = IF requests[w].op = "reset" THEN file.data ELSE Blank]
      BY <1>5, <2>2, Goes DEF Read
    <3>2. /\ requests'[w].at = "find" /\ requests'[w].op = requests[w].op
          /\ requests'[w].op = "reset" => requests'[w].copy = file.data
      BY <3>1 DEF TypeOK, Requests
    <3> QED
      BY <1>1, <1>5, <3>2 DEF EarlyKept, NoneYet, Read
  <2> QED
    BY <2>1, <2>2
<1>6. CASE LogIn(w)
  <2>1. CASE End(w)
    BY <2>1, EndsNone DEF EarlyKept
  <2>2. CASE ~End(w)
    BY <1>6, <2>2, DecidesRest, NoAdmins DEF LogIn, Find, EarlyKept
  <2> QED
    BY <2>1, <2>2
<1>7. CASE CreateFirstAdmin(w)
  <2>1. CASE End(w)
    BY <2>1, EndsNone DEF EarlyKept
  <2>2. CASE ~End(w)
    BY <1>7, <2>2, DecidesRest DEF CreateFirstAdmin, Enroll, Find, EarlyKept
  <2> QED
    BY <2>1, <2>2
<1>8. CASE CreateUser(w)
  <2>1. CASE End(w)
    BY <2>1, EndsNone DEF EarlyKept
  <2>2. CASE ~End(w)
    <3>1. requests[w].op = "create" /\ requests'[w].op = "create"
      BY <1>8, <2>2, DecidesRest DEF CreateUser, Enroll, Find
    <3> QED
      BY <1>1, <3>1 DEF EarlyKept, NoneYet
  <2> QED
    BY <2>1, <2>2
<1>9. CASE UpdateUser(w)
  <2>1. requests[w].op = "edit" /\ requests'[w].op = "edit"
    BY <1>9, DecidesRest DEF UpdateUser, Find
  <2> QED
    BY <1>1, <2>1 DEF EarlyKept, NoneYet
<1>10. CASE SetUserRoles(w) \/ CountAdmins(w)
  <2>1. requests[w].op = "roles"
    BY <1>10 DEF SetUserRoles, CountAdmins, Find, AllSound, Sound
  <2>2. users # Blank
    BY <1>1, <2>1 DEF NoneYet
  <2>3. requests'[w].op # "reset"
    <3>1. CASE CountAdmins(w)
      BY <2>1, <3>1, EndsNone, StepRest DEF CountAdmins
    <3>2. CASE SetUserRoles(w)
      BY <2>1, <3>2, RolesMove
    <3> QED
      BY <1>10, <3>1, <3>2
  <2> QED
    BY <2>2, <2>3 DEF EarlyKept
<1>11. CASE DeleteUser(w)
  <2>1. requests[w].op = "delete" /\ users # Blank
    BY <1>1, <1>11 DEF DeleteUser, Find, NoneYet
  <2>2. requests'[w].op # "reset"
    BY <1>11, <2>1, EndsNone, DeleteOp
  <2> QED
    BY <2>1, <2>2 DEF EarlyKept
<1>12. CASE ResetPassword(w)
  <2>1. CASE End(w)
    BY <2>1, EndsNone DEF EarlyKept
  <2>2. CASE ~End(w)
    BY <1>1, <1>12, <2>2, DecidesRest DEF ResetPassword, Find, EarlyKept, OwnStore
  <2> QED
    BY <2>1, <2>2
<1> QED
  BY <1>2, <1>3, <1>4, <1>5, <1>6, <1>7, <1>8, <1>9, <1>10, <1>11, <1>12 DEF Early

\* What the steps have to say of the setup.
LEMMA SetUpOnly ==
  ASSUME TypeOK, NEW w \in Writers, Early(w) \/ Late(w), "set up" \in events'
  PROVE  "set up" \in events \/ (requests[w].op = "first admin" /\ Rename(w) /\ Answer(w))
<1>1. CASE Arrive(w)
  <2>1. PICK op \in Ops, at \in {"gate", "find"} : Ask(w, op, at)
    BY <1>1 DEF Arrive, Ops
  <2>2. events' \subseteq events \cup {"two role changes"}
    BY <2>1 DEF Ask
  <2> QED
    BY <2>2
<1>2. CASE UpdateUser(w)
  <2>1. events' \subseteq events \cup {"edited"}
    BY <1>2 DEF UpdateUser
  <2> QED
    BY <2>1
<1>3. CASE Early(w) /\ ~Arrive(w) /\ ~UpdateUser(w)
  <2>1. events' = events
    BY <1>3 DEF Early, NotFound, Quietly, Gate, Read, LogIn, CreateFirstAdmin, CreateUser, Enroll,
                SetUserRoles, CountAdmins, DeleteUser, ResetPassword
  <2> QED
    BY <2>1
<1>4. CASE Put(w)
  BY <1>4 DEF Put, Noted
<1>5. CASE Save(w) \/ Write(w) \/ RenameFails(w) \/ Undo(w)
  <2>1. events' \subseteq events \cup {"apart", "undone"}
    BY <1>5 DEF Save, Write, RenameFails, Undo
  <2> QED
    BY <2>1
<1>6. CASE Rename(w)
  BY <1>6 DEF Rename, Answer
<1> QED
  BY <1>1, <1>2, <1>3, <1>4, <1>5, <1>6 DEF Late

LEMMA AnswerSucceeds ==
  ASSUME TypeOK, AllSound, LockInv, NEW w \in Writers, Rename(w), Answer(w)
  PROVE  Succeeds(w)
<1>1. requests'[w].at \in {"idle", "put"} /\ users' = users
  BY AnswerAt DEF Rename, bounds
<1>2. RenameOver(w)
  BY <1>1, Carry DEF Rename
<1> QED
  BY <1>1, <1>2 DEF Succeeds, Rename

\* UpsertUser leaves an administrator if it leaves any that there was.
LEMMA PutKeeps ==
  ASSUME TypeOK, AllSound, TablesKept, NEW w \in Writers, Put(w), Admins(Seen(w)) # {} => Admins(Then(w)) # {}
  PROVE  Admins(Then(w)) # {}
<1>1. PutFacts(w) /\ Sound(w) /\ requests[w].at = "put"
  BY Puts DEF AllSound, Put
<1>2. CASE Seen(w) # Blank
  BY <1>1, <1>2 DEF TablesKept, RequestKept, Seen, Some, OwnStore
<1>3. CASE Seen(w) = Blank
  <2>1. ~OwnStore(w)
    BY <1>1, <1>3, NoAdmins DEF Sound, Seen, PutFacts
  <2>2. requests[w].op = "first admin"
    BY <1>1, <1>3, <2>1 DEF TablesKept, RequestKept, NoneYet, Seen, OwnStore, Sound
  <2>3. requests[w].rec.role = "admin" /\ requests[w].name \in Names
    BY <1>1, <2>2 DEF Sound
  <2>4. Then(w)[requests[w].name] = requests[w].rec
    BY SMTT(20), <1>1, <2>3, Parts, TableWith DEF PutFacts, Then
  <2> QED
    BY <2>3, <2>4 DEF Admins
<1> QED
  BY <1>2, <1>3

LEMMA TablesStay ==
  ASSUME TypeOK, AllSound, LockInv, TablesKept, NEW w \in Writers, Turn(w), Early(w) \/ Late(w),
         Put(w) => Admins(Then(w)) # {}, "undone" \notin events'
  PROVE  TablesKept'
<1>1. /\ Some(users) /\ Some(file.data) /\ ("set up" \in events => Admins(file.data) # {})
      /\ \A v \in Writers : RequestKept(v)
  BY DEF TablesKept
<1>2. \A v \in Writers \ {w} : /\ requests'[v] = requests[v] /\ Upserting(v)' = Upserting(v)
                              /\ OwnStore(v)' = OwnStore(v) /\ Before(v)' = Before(v)
                              /\ NoneYet(v)' = NoneYet(v)
  BY OthersWait DEF NoneYet
<1>3. Early(w) \/ Put(w) \/ Undoes(w) \/ GoesOn(w) => ("set up" \in events' => "set up" \in events)
  <2>1. SUFFICES ASSUME "set up" \in events', "set up" \notin events
                 PROVE  ~Early(w) /\ ~Put(w) /\ ~Undoes(w) /\ ~GoesOn(w)
    OBVIOUS
  <2>2. Succeeds(w)
    BY <2>1, SetUpOnly, AnswerSucceeds
  <2>3. Upserting(w) /\ requests[w].at = "rename" /\ ~Upserting(w)'
    BY <2>2 DEF Succeeds, Upserting
  <2> QED
    BY <2>3, EarlyMoves DEF EarlyFacts, Put, Undoes, GoesOn
<1>9. ASSUME users' = Blank => users = Blank, NEW v \in Writers, v # w
      PROVE  RequestKept(v)'
  <2>1. Some(Before(v))' = Some(Before(v)) /\ Some(requests[v].copy)' = Some(requests[v].copy)
    BY <1>2, <1>9 DEF Some, Admins
  <2> QED
    BY ZenonT(30), <1>1, <1>2, <1>9, <2>1 DEF RequestKept, Admins
<1>10. ASSUME Some(users'), Some(file'.data), "set up" \in events' => Admins(file'.data) # {},
              \A v \in Writers : RequestKept(v)'
       PROVE  TablesKept'
  BY <1>10 DEF TablesKept, Some, Admins
<1>11. ~Upserting(w)' => (RequestKept(w)' <=>
          /\ OwnStore(w)' /\ requests'[w].at \in {"find", "put"} => Some(requests'[w].copy)
          /\ users' = Blank => NoneYet(w)')
  BY DEF RequestKept, Some, Admins
<1>4. CASE Early(w)
  <2>1. EarlyFacts(w) /\ EarlyKept(w)
    BY <1>4, EarlyMoves, EarlyKeeps
  <2>2. ~Upserting(w)' /\ users' = users /\ file' = file
    BY <2>1 DEF EarlyFacts, Upserting
  <2>3. /\ OwnStore(w)' /\ requests'[w].at \in {"find", "put"} => Some(requests'[w].copy)
        /\ users = Blank => NoneYet(w)'
    BY <2>1 DEF EarlyKept, OwnStore, NoneYet
  <2>4. RequestKept(w)'
    BY <1>11, <2>2, <2>3
  <2> QED
    BY <1>1, <1>3, <1>4, <1>9, <1>10, <2>2, <2>4
<1>5. CASE Put(w)
  <2>1. /\ Admins(Then(w)) # {} /\ requests'[w].list = Then(w) /\ requests'[w].at = "save"
        /\ requests'[w].op = requests[w].op /\ users' = IF OwnStore(w) THEN users ELSE Then(w)
        /\ Before(w)' = Seen(w) /\ OwnStore(w)' = OwnStore(w) /\ file' = file
    BY <1>5, Puts DEF PutFacts, Put, atomic
  <2>2. Some(users') /\ (users' = Blank => users = Blank /\ OwnStore(w))
    BY <1>1, <2>1, NoAdmins DEF Some
  <2>3. OwnStore(w) \/ Some(Before(w)')
    BY <1>1, <2>1 DEF Seen
  <2>4. users' = Blank => NoneYet(w)'
    BY <2>1, <2>2 DEF NoneYet, OwnStore
  <2>5. RequestKept(w)'
    BY <2>1, <2>3, <2>4 DEF RequestKept, Some, Admins
  <2> QED
    BY <1>1, <1>3, <1>5, <1>9, <1>10, <2>1, <2>2, <2>5
<1>6. CASE GoesOn(w) /\ Late(w) /\ ~Put(w)
  <2>1. /\ users' = users /\ Upserting(w) /\ Upserting(w)' /\ requests'[w].op = requests[w].op
        /\ requests'[w].list = requests[w].list /\ OwnStore(w)' = OwnStore(w) /\ Before(w)' = Before(w)
    BY <1>6, StillUpserting DEF GoesOn, Carries
  <2>2. file' = file \/ file'.data = requests[w].list
    BY <1>6, LateMoves, Parts, WholeType
  <2>3. requests'[w].at \notin {"find", "put"} /\ (users = Blank => NoneYet(w)')
    BY <1>1, <2>1 DEF RequestKept, Upserting, NoneYet
  <2>4. Admins(requests[w].list) # {} /\ (OwnStore(w) \/ Some(Before(w)))
    BY <1>1, <2>1 DEF RequestKept
  <2>5. RequestKept(w)'
    BY <2>1, <2>3, <2>4 DEF RequestKept, Some, Admins
  <2>6. Some(file'.data) /\ ("set up" \in events' => Admins(file'.data) # {})
    BY <1>1, <1>3, <1>6, <2>2, <2>4 DEF Some
  <2> QED
    BY <1>1, <1>9, <1>10, <2>1, <2>5, <2>6
<1>7. CASE Succeeds(w)
  <2>1. /\ users' = users /\ Upserting(w) /\ ~Upserting(w)' /\ file'.data = requests[w].list
        /\ Answer(w) /\ requests[w].at = "rename"
    BY <1>7, SucceedsFile, Parts, WholeType DEF Succeeds, Upserting
  <2>2. requests'[w].op = "none" \/ (requests'[w].op = "delete" /\ requests[w].op = "delete")
    BY <2>1, EndsNone, PutsBackOp DEF Answer, AllSound, Sound
  <2>3. ~OwnStore(w)' /\ (users = Blank => NoneYet(w)')
    BY <1>1, <2>1, <2>2 DEF RequestKept, OwnStore, NoneYet
  <2>4. RequestKept(w)' /\ Admins(requests[w].list) # {}
    BY <1>1, <1>11, <2>1, <2>3 DEF RequestKept
  <2> QED
    BY <1>1, <1>9, <1>10, <2>1, <2>4 DEF Some
<1>8. CASE Undoes(w)
  <2>1. requests'[w] = NoRequest /\ file' = file /\ Upserting(w)
    BY <1>8 DEF Undoes, Upserting
  <2>2. ~Upserting(w)' /\ ~OwnStore(w)' /\ NoneYet(w)'
    BY <2>1 DEF Upserting, OwnStore, NoneYet, NoRequest
  <2>5. RequestKept(w)'
    BY <1>11, <2>2
  <2>3. CASE OwnStore(w)
    <3>1. users' = users
      BY <1>8, <2>3 DEF Undoes
    <3> QED
      BY <1>1, <1>3, <1>8, <1>9, <1>10, <2>1, <2>5, <3>1
  <2>4. CASE ~OwnStore(w)
    <3>1. users' = Before(w) /\ Others(w) = {}
      BY <1>8, <2>4 DEF Undoes, Before
    <3>2. \A v \in Writers \ {w} : requests'[v] = NoRequest
      BY <1>2, <3>1 DEF Others
    <3>3. NoRequest.at = "idle" /\ NoRequest.op = "none"
      BY DEF NoRequest
    <3>4. \A v \in Writers \ {w} : RequestKept(v)'
      BY <3>2, <3>3 DEF RequestKept, Upserting, OwnStore, NoneYet
    <3>5. Some(users')
      BY <1>1, <2>1, <2>4, <3>1 DEF RequestKept
    <3> QED
      BY <1>1, <1>3, <1>8, <1>10, <2>1, <2>5, <3>4, <3>5
  <2> QED
    BY <2>3, <2>4
<1> QED
  BY <1>4, <1>5, <1>6, <1>7, <1>8, LateMoves DEF Late

------------------------------------------------------------------------------
\* With one role change at a time, that has counted another administrator, one stays.
OneRole == \A v, w \in Writers : requests[v].op = "roles" /\ requests[w].op = "roles" => v = w
TakesAway(w) ==
  requests[w].op = "roles" /\ requests[w].at = "put" /\ requests[w].base.role = "admin" /\ requests[w].rec.role # "admin"
Counted == \A w \in Writers : TakesAway(w) => \E n \in Admins(users) : n # requests[w].name
AdminsNow ==
  "crossed" \notin events /\ "set up" \in events =>
    /\ Admins(users) # {}
    /\ \A w \in Writers : Upserting(w) /\ ~OwnStore(w) => Admins(Before(w)) # {}

AdminInv ==
  Barring({"undone", "stale", "edited", "wiped", "two role changes"}) => TablesKept /\ OneRole /\ Counted /\ AdminsNow

LEMMA CountedTwo ==
  ASSUME TypeOK, NEW n, ~(Cardinality(Admins(users)) <= 1)
  PROVE  \E m \in Admins(users) : m # n
<1> SUFFICES ASSUME \A m \in Admins(users) : m = n
             PROVE  FALSE
  OBVIOUS
<1>1. Admins(users) \subseteq {n}
  OBVIOUS
<1>2. Cardinality({n}) = 1 /\ IsFiniteSet({n})
  BY FS_Singleton
<1>3. Cardinality(Admins(users)) <= 1
  BY <1>1, <1>2, FS_Subset
<1> QED
  BY <1>3

\* What an upsert may take away, by what has happened.
LEMMA NotDemoted ==
  ASSUME TypeOK, AllSound, NEW w \in Writers, Put(w), "demoted" \notin events'
  PROVE  Admins(Seen(w)) # {} => Admins(Then(w)) # {}
<1>1. requests[w].name \in Names /\ Seen(w) \in Tables
  BY Puts DEF PutFacts
<1>2. ~(Seen(w)[requests[w].name].role = "admin" /\ requests[w].rec.role # "admin")
  BY DEF Put, Noted, Seen, OwnStore
<1>3. /\ Then(w)[requests[w].name] = requests[w].rec
      /\ \A m \in Names \ {requests[w].name} : Then(w)[m] = Seen(w)[m]
  BY <1>1 DEF Then, Tables
<1> QED
  BY <1>1, <1>2, <1>3 DEF Admins

LEMMA NotStale ==
  ASSUME TypeOK, AllSound, NEW w \in Writers, Put(w), "stale" \notin events'
  PROVE  /\ Seen(w)[requests[w].name] = requests[w].base
         /\ Then(w)[requests[w].name] = requests[w].rec
         /\ \A m \in Names \ {requests[w].name} : Then(w)[m] = Seen(w)[m]
<1>1. requests[w].name \in Names /\ Seen(w) \in Tables
  BY Puts DEF PutFacts
<1>2. Seen(w)[requests[w].name] = requests[w].base
  BY DEF Put, Noted, Seen, OwnStore
<1>3. /\ Then(w)[requests[w].name] = requests[w].rec
      /\ \A m \in Names \ {requests[w].name} : Then(w)[m] = Seen(w)[m]
  BY <1>1 DEF Then, Tables
<1> QED
  BY <1>2, <1>3

\* Only SetUserRoles takes the role away.
LEMMA OnlyRoles ==
  ASSUME TypeOK, AllSound, NEW w \in Writers, Put(w), "stale" \notin events', "edited" \notin events'
  PROVE  /\ ~TakesAway(w) => Admins(Seen(w)) \subseteq Admins(Then(w))
         /\ Admins(Seen(w)) \ {requests[w].name} \subseteq Admins(Then(w))
<1>1. /\ Seen(w)[requests[w].name] = requests[w].base
      /\ Then(w)[requests[w].name] = requests[w].rec
      /\ \A m \in Names \ {requests[w].name} : Then(w)[m] = Seen(w)[m]
  BY NotStale
<1>2. Admins(Seen(w)) \ {requests[w].name} \subseteq Admins(Then(w))
  BY <1>1 DEF Admins
<1>3. requests[w].at = "put" /\ "edited" \notin events
  BY DEF Put, Noted
<1>4. ~TakesAway(w) /\ requests[w].base.role = "admin" => requests[w].rec.role = "admin"
  BY <1>3 DEF TakesAway, AllSound, Sound
<1> QED
  BY <1>1, <1>2, <1>4 DEF Admins

\* A request keeps to what it is about until it is over.
SameOp(w) == requests'[w].op = requests[w].op \/ requests'[w].op = "none" \/ Arrive(w)

LEMMA KeepsOp ==
  ASSUME TypeOK, AllSound, NEW w \in Writers, Early(w) \/ Late(w)
  PROVE  SameOp(w)
<1>1. CASE Arrive(w)
  BY <1>1 DEF SameOp
<1>2. CASE \E op \in {"edit", "roles", "delete"} : NotFound(w, op)
  BY <1>2, EndsNone DEF NotFound, SameOp
<1>3. CASE Gate(w) \/ CountAdmins(w) \/ Save(w) \/ Write(w) \/ RenameFails(w)
  BY <1>3, StepRest, EndsNone DEF Gate, CountAdmins, Save, Write, RenameFails, Fault, SameOp
<1>4. CASE Read(w) /\ ~End(w)
  <2>1. requests'[w] = [requests[w] EXCEPT !.at = "find",
                                           !.copy = IF requests[w].op = "reset" THEN file.data ELSE Blank]
    BY <1>4, Goes DEF Read
  <2> QED
    BY <2>1 DEF TypeOK, Requests, SameOp
<1>5. CASE (Read(w) \/ LogIn(w) \/ CreateFirstAdmin(w) \/ CreateUser(w) \/ DeleteUser(w) \/ ResetPassword(w)) /\ End(w)
  BY <1>5, EndsNone DEF SameOp
<1>6. CASE (LogIn(w) \/ CreateFirstAdmin(w) \/ CreateUser(w) \/ UpdateUser(w) \/ ResetPassword(w)) /\ ~End(w)
  BY <1>6, DecidesRest DEF LogIn, CreateFirstAdmin, CreateUser, Enroll, UpdateUser, ResetPassword, SameOp
<1>7. CASE UpdateUser(w)
  BY <1>7, DecidesRest DEF UpdateUser, SameOp
<1>8. CASE SetUserRoles(w)
  BY <1>8, RolesMove DEF SameOp
<1>9. CASE DeleteUser(w) /\ ~End(w)
  BY <1>9, DeleteOp DEF SameOp
<1>10. CASE Put(w)
  BY <1>10, Puts DEF PutFacts, SameOp
<1>11. CASE Rename(w)
  <2>1. CASE Answer(w)
    BY <2>1, EndsNone, PutsBackOp DEF Answer, SameOp
  <2>2. CASE ~Answer(w)
    BY <1>11, <2>2, StepRest DEF Rename, SameOp
  <2> QED
    BY <2>1, <2>2
<1>12. CASE Undo(w)
  BY <1>12, EndsNone DEF Undo, SameOp
<1> QED
  BY <1>1, <1>2, <1>3, <1>4, <1>5, <1>6, <1>7, <1>8, <1>9, <1>10, <1>11, <1>12 DEF Early, Late

LEMMA ManyRoles ==
  ASSUME TypeOK, AllSound, OneRole, NEW w \in Writers, Turn(w), Early(w) \/ Late(w),
         "two role changes" \notin events'
  PROVE  OneRole'
<1>1. \A v \in Writers \ {w} : requests'[v] = requests[v]
  BY DEF Turn, TypeOK
<1>2. CASE Arrive(w)
  <2>1. PICK op \in Ops, at \in {"gate", "find"} : Ask(w, op, at)
    BY <1>2 DEF Arrive, Ops
  <2>2. PICK id : requests'[w] = [NoRequest EXCEPT !.op = op, !.at = at, !.id = id]
    BY <2>1, Goes DEF Ask
  <2>3. requests'[w].op = op
    BY <2>2 DEF NoRequest
  <2>4. op = "roles" => \A v \in Writers : requests[v].op # "roles"
    BY <2>1 DEF Ask
  <2> QED
    BY <1>1, <2>3, <2>4 DEF OneRole
<1>3. CASE ~Arrive(w)
  <2>1. requests'[w].op = "roles" => requests[w].op = "roles"
    BY <1>3, KeepsOp DEF SameOp
  <2> QED
    BY <1>1, <2>1 DEF OneRole
<1> QED
  BY <1>2, <1>3

LEMMA TakesAwayNew ==
  ASSUME TypeOK, AllSound, NEW w \in Writers, Early(w) \/ Late(w), TakesAway(w)'
  PROVE  CountAdmins(w) /\ requests'[w].name = requests[w].name /\ users' = users /\ Step(w, "put")
<1>1. requests'[w].op = "roles" /\ requests'[w].at = "put"
  BY DEF TakesAway
<1>2. ~Arrive(w)
  <2> SUFFICES ASSUME Arrive(w) PROVE FALSE
    OBVIOUS
  <2>1. PICK op \in Ops, at \in {"gate", "find"} : Ask(w, op, at)
    BY DEF Arrive, Ops
  <2>2. PICK id : requests'[w] = [NoRequest EXCEPT !.op = op, !.at = at, !.id = id]
    BY <2>1, Goes DEF Ask
  <2>3. requests'[w].at = at
    BY <2>2 DEF NoRequest
  <2> QED
    BY <1>1, <2>3
<1>3. requests[w].op = "roles" /\ ~End(w)
  BY <1>1, <1>2, KeepsOp, EndsNone DEF SameOp
<1>4. ~SetUserRoles(w)
  BY <1>1, RolesMove DEF TakesAway
<1>5. CountAdmins(w)
  <2>1. CASE Early(w)
    <3>1. ~Gate(w)
      BY <1>1, StepRest DEF Gate
    <3>2. ~Read(w)
      <4> SUFFICES ASSUME Read(w) PROVE FALSE
        OBVIOUS
      <4>1. requests'[w] = [requests[w] EXCEPT !.at = "find",
                                               !.copy = IF requests[w].op = "reset" THEN file.data ELSE Blank]
        BY <1>3, Goes DEF Read
      <4>2. requests'[w].at = "find"
        BY <4>1 DEF TypeOK, Requests
      <4> QED
        BY <1>1, <4>2
    <3> QED
      BY <1>2, <1>3, <1>4, <2>1, <3>1, <3>2
         DEF Early, NotFound, LogIn, CreateFirstAdmin, CreateUser, Enroll, UpdateUser, DeleteUser, ResetPassword, Find
  <2>2. CASE Late(w)
    <3>1. ~Put(w)
      BY <1>1, Puts DEF PutFacts
    <3>2. ~Save(w) /\ ~Write(w) /\ ~RenameFails(w) /\ ~Undo(w)
      BY <1>1, <1>3, Carry DEF Save, Write, RenameFails, Undo, Fault
    <3>3. ~Rename(w)
      <4>1. requests[w].todo = {}
        BY <1>3 DEF AllSound, Sound
      <4>2. ~Answer(w) /\ ~Step(w, "undo")
        BY <1>1, <1>3, <4>1, Carry DEF Answer
      <4> QED
        BY <4>2 DEF Rename
    <3> QED
      BY <2>2, <3>1, <3>2, <3>3 DEF Late
  <2> QED
    BY <2>1, <2>2
<1>6. Step(w, "put") /\ users' = users
  BY <1>3, <1>5 DEF CountAdmins
<1> QED
  BY <1>5, <1>6, Carry DEF Carries

LEMMA CountedStays ==
  ASSUME TypeOK, AllSound, LockInv, OneRole, Counted, NEW w \in Writers, Turn(w), Early(w) \/ Late(w),
         "stale" \notin events', "edited" \notin events', "undone" \notin events'
  PROVE  Counted'
<1> SUFFICES ASSUME NEW v \in Writers, TakesAway(v)'
             PROVE  \E n \in Admins(users)' : n # requests'[v].name
  BY DEF Counted
<1>1. CASE v = w
  <2>1. CountAdmins(w) /\ requests'[w].name = requests[w].name /\ users' = users /\ Step(w, "put")
    BY <1>1, TakesAwayNew
  <2>2. requests[w].at = "count" /\ requests'[w].at = "put"
    BY <2>1, Carry DEF CountAdmins
  <2>3. ~End(w)
    BY <2>2, EndsIdle
  <2>4. \E m \in Admins(users) : m # requests[w].name
    BY <2>1, <2>3, CountedTwo DEF CountAdmins
  <2> QED
    BY <1>1, <2>1, <2>4 DEF Admins
<1>2. CASE v # w
  <2>1. requests'[v] = requests[v]
    BY <1>2 DEF Turn, TypeOK
  <2>2. TakesAway(v)
    BY <2>1 DEF TakesAway
  <2>3. PICK n \in Admins(users) : n # requests[v].name
    BY <2>2 DEF Counted
  <2>4. CASE users' = users
    BY <2>1, <2>3, <2>4 DEF Admins
  <2>5. CASE Put(w) /\ ~OwnStore(w)
    <3>1. ~TakesAway(w)
      BY <1>2, <2>2 DEF OneRole, TakesAway
    <3>2. Admins(Seen(w)) \subseteq Admins(Then(w))
      BY <2>5, <3>1, OnlyRoles
    <3>3. Seen(w) = users /\ users' = Then(w)
      BY <2>5, Puts DEF Seen, PutFacts
    <3>4. n \in Admins(users')
      BY <2>3, <3>2, <3>3
    <3> QED
      BY <2>1, <2>3, <3>4 DEF Admins
  <2>6. CASE Undoes(w) /\ ~OwnStore(w)
    <3>1. Others(w) = {}
      BY <2>6 DEF Undoes
    <3>2. v \in Others(w)
      BY <1>2, <2>2 DEF Others, TakesAway, NoRequest
    <3> QED
      BY <3>1, <3>2
  <2>7. users' = users \/ (Put(w) /\ ~OwnStore(w)) \/ (Undoes(w) /\ ~OwnStore(w))
    <3>1. CASE Early(w)
      BY <3>1, EarlyMoves DEF EarlyFacts
    <3>2. CASE Put(w)
      BY <3>2, Puts DEF PutFacts
    <3>3. CASE Late(w) /\ ~Put(w)
      BY <3>3, LateMoves DEF GoesOn, Succeeds, Undoes
    <3> QED
      BY <3>1, <3>2, <3>3 DEF Late
  <2> QED
    BY <2>4, <2>5, <2>6, <2>7
<1> QED
  BY <1>1, <1>2

LEMMA AdminsNowStay ==
  ASSUME TypeOK, AllSound, LockInv, AloneInv, TablesKept, AdminsNow, NEW w \in Writers, Turn(w), Early(w) \/ Late(w),
         Put(w) => Admins(Then(w)) # {}, "undone" \notin events'
  PROVE  AdminsNow'
<1> SUFFICES ASSUME "crossed" \notin events', "set up" \in events'
             PROVE  /\ Admins(users)' # {}
                    /\ \A v \in Writers : Upserting(v)' /\ ~OwnStore(v)' => Admins(Before(v))' # {}
  BY DEF AdminsNow
<1>1. /\ "crossed" \notin events
      /\ \A u, v \in Writers : Upserting(u) /\ Upserting(v) => u = v
      /\ \A v \in Writers : Upserting(v) /\ ~OwnStore(v) => users = requests[v].list
  BY DEF Turn, AloneInv
<1>2. "set up" \in events => /\ Admins(users) # {}
                            /\ \A v \in Writers : Upserting(v) /\ ~OwnStore(v) => Admins(Before(v)) # {}
  BY <1>1 DEF AdminsNow
<1>3. \A v \in Writers \ {w} : /\ Upserting(v)' = Upserting(v) /\ OwnStore(v)' = OwnStore(v)
                              /\ Before(v)' = Before(v)
  BY OthersWait
<1>4. \A v \in Writers \ {w} : Admins(Before(v))' = Admins(Before(v))
  BY <1>3 DEF Admins
<1>5. CASE "set up" \notin events
  <2>1. Succeeds(w) /\ requests[w].op = "first admin"
    BY <1>5, SetUpOnly, AnswerSucceeds
  <2>2. Upserting(w) /\ ~Upserting(w)' /\ ~OwnStore(w) /\ users' = users
    BY <2>1 DEF Succeeds, Upserting, OwnStore
  <2>3. Admins(users) # {}
    BY <1>1, <2>2 DEF TablesKept, RequestKept
  <2> QED
    BY <1>1, <1>3, <2>2, <2>3 DEF Admins
<1>6. CASE "set up" \in events
  <2>1. CASE Early(w)
    <3>1. ~Upserting(w)' /\ users' = users
      BY <2>1, EarlyMoves DEF EarlyFacts, Upserting
    <3> QED
      BY <1>2, <1>3, <1>4, <1>6, <3>1 DEF Admins
  <2>2. CASE Put(w)
    <3>1. Before(w)' = Seen(w) /\ OwnStore(w)' = OwnStore(w) /\ users' = IF OwnStore(w) THEN users ELSE Then(w)
      BY <2>2, Puts DEF PutFacts
    <3>2. Admins(users)' # {}
      BY <1>2, <1>6, <2>2, <3>1 DEF Admins
    <3>3. ~OwnStore(w) => Admins(Before(w))' # {}
      BY <1>2, <1>6, <3>1 DEF Seen, Admins
    <3> QED
      BY <1>2, <1>3, <1>4, <1>6, <3>1, <3>2, <3>3
  <2>3. CASE GoesOn(w)
    <3>1. users' = users /\ Upserting(w) /\ OwnStore(w)' = OwnStore(w) /\ Before(w)' = Before(w)
      BY <2>3, StillUpserting DEF GoesOn
    <3>2. Admins(Before(w))' = Admins(Before(w)) /\ Admins(users)' = Admins(users)
      BY <3>1 DEF Admins
    <3> QED
      BY <1>2, <1>3, <1>4, <1>6, <3>1, <3>2
  <2>4. CASE Succeeds(w)
    <3>1. users' = users /\ ~Upserting(w)'
      BY <2>4 DEF Succeeds, Upserting
    <3>2. Admins(users)' = Admins(users)
      BY <3>1 DEF Admins
    <3> QED
      BY <1>2, <1>3, <1>4, <1>6, <3>1, <3>2
  <2>5. CASE Undoes(w)
    <3>4. NoRequest.at = "idle"
      BY DEF NoRequest
    <3>1. Upserting(w) /\ ~Upserting(w)'
      BY <2>5, <3>4 DEF Undoes, Upserting
    <3>2. users' = users \/ (~OwnStore(w) /\ users' = Before(w))
      BY <2>5 DEF Undoes, Before
    <3>3. Admins(users)' # {}
      BY <1>2, <1>6, <3>1, <3>2 DEF Admins
    <3> QED
      BY <1>1, <1>3, <3>1, <3>3
  <2> QED
    BY <2>1, <2>2, <2>3, <2>4, <2>5, LateMoves DEF Late
<1> QED
  BY <1>5, <1>6

LEMMA RunAdmin ==
  ASSUME TypeOK, AllSound, LockInv, AloneInv, AdminInv, NEW w \in Writers, Turn(w), Early(w) \/ Late(w)
  PROVE  AdminInv'
<1> SUFFICES ASSUME "undone" \notin events', "stale" \notin events', "edited" \notin events', "wiped" \notin events',
                    "two role changes" \notin events'
             PROVE  TablesKept' /\ OneRole' /\ Counted' /\ AdminsNow'
  BY DEF AdminInv, Barring
<1>1. TablesKept /\ OneRole /\ Counted /\ AdminsNow
  BY DEF AdminInv, Barring, Turn
<1>2. ASSUME Put(w)
      PROVE  Admins(Then(w)) # {}
  <2>1. CASE TakesAway(w)
    <3>1. PICK n \in Admins(users) : n # requests[w].name
      BY <1>1, <2>1 DEF Counted
    <3>2. Seen(w) = users
      BY <2>1 DEF Seen, OwnStore, TakesAway
    <3>3. Admins(Seen(w)) \ {requests[w].name} \subseteq Admins(Then(w))
      BY <1>2, OnlyRoles
    <3> QED
      BY <3>1, <3>2, <3>3
  <2>2. CASE ~TakesAway(w)
    BY <1>1, <1>2, <2>2, OnlyRoles, PutKeeps
  <2> QED
    BY <2>1, <2>2
<1> QED
  BY <1>1, <1>2, TablesStay, ManyRoles, CountedStays, AdminsNowStay

LEMMA RunSetup ==
  ASSUME TypeOK, AllSound, LockInv, SetupInv, NEW w \in Writers, Turn(w), Early(w) \/ Late(w)
  PROVE  SetupInv'
<1> SUFFICES ASSUME "demoted" \notin events', "wiped" \notin events', "undone" \notin events'
             PROVE  TablesKept'
  BY DEF SetupInv, Barring
<1>1. TablesKept
  BY DEF SetupInv, Barring, Turn
<1>2. Put(w) => Admins(Then(w)) # {}
  BY <1>1, NotDemoted, PutKeeps
<1> QED
  BY <1>1, <1>2, TablesStay

LEMMA RestartsGrow ==
  ASSUME TypeOK, Restart
  PROVE  restarts' # restarts
BY Bounds DEF Restart, TypeOK

------------------------------------------------------------------------------
\* The inductive invariant.
IInv == TypeOK /\ AllSound /\ LockInv /\ AloneInv /\ QuietInv /\ SetupInv /\ AdminInv

\* With no request under way.
Idle == requests = [w \in Writers |-> NoRequest]

LEMMA AllIdle ==
  ASSUME Idle
  PROVE  /\ requests \in [Writers -> Requests] /\ AllSound
         /\ \A w \in Writers : /\ requests[w].at = "idle" /\ ~Upserting(w) /\ ~OwnStore(w) /\ ~TakesAway(w)
                             /\ requests[w].op = "none" /\ RequestKept(w)
<1>1. NoRequest.at = "idle" /\ NoRequest.op = "none" /\ NoRequest.todo = {}
  BY DEF NoRequest
<1>2. \A w \in Writers : requests[w] = NoRequest
  BY DEF Idle
<1>3. \A w \in Writers : ~Upserting(w) /\ ~OwnStore(w) /\ ~TakesAway(w)
  BY <1>1, <1>2 DEF Upserting, OwnStore, TakesAway
<1>4. \A w \in Writers : RequestKept(w)
  BY <1>1, <1>2, <1>3 DEF RequestKept, NoneYet
<1>5. AllSound
  BY <1>1, <1>2, <1>3 DEF AllSound, Sound
<1> QED
  BY <1>1, <1>2, <1>3, <1>4, <1>5, Basics DEF Idle

Settled ==
  /\ Idle /\ holder = NoOne /\ tmp = NoFile /\ fd = [w \in Writers |-> "none"]
  /\ FileSound /\ Saved(users)
HasAdmins == Some(users) /\ Some(file.data) /\ ("set up" \in events => Admins(file.data) # {} /\ Admins(users) # {})
Kept == TablesKept /\ OneRole /\ Counted /\ AdminsNow

LEMMA IdleInv ==
  Settled => /\ AllSound /\ LockInv /\ AloneInv /\ QuietInv
             /\ HasAdmins => Kept
<1> SUFFICES ASSUME Settled
             PROVE  /\ AllSound /\ LockInv /\ AloneInv /\ QuietInv
                    /\ HasAdmins => Kept
  OBVIOUS
<1>1. \A w \in Writers : /\ requests[w].at = "idle" /\ ~Upserting(w) /\ ~OwnStore(w) /\ ~TakesAway(w)
                       /\ requests[w].op = "none" /\ RequestKept(w)
  BY AllIdle DEF Settled
<1>2. LockInv
  BY <1>1, WriterAssumption DEF Settled, LockInv, HolderSound, OpenSound, TmpSound
<1>3. AloneInv /\ QuietInv
  BY <1>1 DEF Settled, AloneInv, QuietInv
<1>4. ASSUME HasAdmins
      PROVE  Kept
  BY <1>1, <1>4 DEF HasAdmins, Kept, TablesKept, OneRole, Counted, AdminsNow
<1> QED
  BY <1>2, <1>3, <1>4, AllIdle DEF Settled

LEMMA FirstNumbers ==
  0 \in 0..MaxTime /\ 0 \in 0..MaxRestarts /\ 0 \in 0..MaxRequests /\ 1 \in 0..MaxRequests
BY Bounds

LEMMA InitInv ==
  ASSUME Init
  PROVE  IInv
<1>1. /\ requests = [w \in Writers |-> NoRequest] /\ holder = NoOne /\ tmp = NoFile
      /\ fd = [w \in Writers |-> "none"] /\ file = IF users = Blank THEN NoFile ELSE Whole(users)
      /\ users \in Tables /\ (users # Blank => Admins(users) # {})
      /\ count = (IF users = Blank THEN 0 ELSE 1) /\ clock = 0 /\ restarts = 0
      /\ "set up" \in events => users # Blank
  BY GivenAssumption DEF Init, FileInit
<1>2. /\ NoFile \in [is : {"none", "torn", "whole"}, data : Tables] /\ NoFile.is = "none" /\ NoFile.data = Blank
  BY Basics DEF NoFile
<1>3. file \in [is : {"none", "torn", "whole"}, data : Tables] /\ file.data = users /\ FileSound
  BY <1>1, <1>2, WholeType DEF FileSound
<1>4. Saved(users) /\ Some(users) /\ Some(file.data)
  BY <1>1, <1>3 DEF Saved, Some
<1>7. Settled
  BY <1>1, <1>3, <1>4 DEF Settled, Idle
<1>8. HasAdmins
  BY <1>1, <1>3, <1>4 DEF HasAdmins
<1>5. TypeOK
  <2>1. clock \in 0..MaxTime /\ restarts \in 0..MaxRestarts
    BY FirstNumbers DEF Init
  <2>2. count \in 0..MaxRequests
    BY FirstNumbers DEF Init
  <2> QED
    BY <1>1, <1>3, <1>7, <2>1, <2>2, AllIdle DEF TypeOK, Settled
<1> QED
  BY <1>5, <1>7, <1>8, IdleInv DEF IInv, SetupInv, AdminInv, Kept

LEMMA RestartInv ==
  ASSUME IInv, Restart
  PROVE  IInv'
<1>1. /\ requests' = [w \in Writers |-> NoRequest] /\ holder' = NoOne /\ tmp' = NoFile
      /\ fd' = [w \in Writers |-> "none"] /\ file' = file /\ users' = file.data
      /\ events' = events \ {"apart", "crossed"} /\ count' = count /\ clock' = clock
  BY DEF Restart
<1>2. FileSound' /\ file \in [is : {"none", "torn", "whole"}, data : Tables]
  BY <1>1 DEF IInv, LockInv, FileSound, NoFile, TypeOK
<1>3. Saved(users)'
  <2>1. file.is = "whole" => file = Whole(file.data)
    BY <1>2 DEF Whole
  <2>2. file.is = "none" => file = NoFile /\ file.data = Blank
    BY DEF IInv, LockInv, FileSound, NoFile
  <2>3. file.is \in {"none", "whole"}
    BY <1>2 DEF IInv, LockInv, FileSound
  <2> QED
    BY <1>1, <2>1, <2>2, <2>3 DEF Saved, Whole, NoFile
<1>4. requests' \in [Writers -> Requests]
  BY <1>1, Basics
<1>5. TypeOK'
  <2>1. restarts' \in 0..MaxRestarts
    BY Bounds DEF Restart, IInv, TypeOK
  <2> QED
    BY <1>1, <1>2, <1>4, <2>1 DEF IInv, TypeOK
<1>6. Settled' => /\ AllSound' /\ LockInv' /\ AloneInv' /\ QuietInv'
                  /\ HasAdmins' => Kept'
  BY IdleInv, PTL
<1>7. Settled'
  BY <1>1, <1>2, <1>3 DEF Settled, Idle, NoFile
<1>8. ASSUME TablesKept
      PROVE  HasAdmins'
  BY <1>1, <1>8 DEF TablesKept, HasAdmins, Some, Admins
<1>9. TypeOK' /\ AllSound' /\ LockInv' /\ AloneInv' /\ QuietInv'
  BY <1>5, <1>6, <1>7
<1>10. TablesKept => Kept'
  BY <1>6, <1>7, <1>8
<1>11. SetupInv' /\ AdminInv'
  <2>1. \A label \in {"demoted", "wiped", "undone", "stale", "edited", "two role changes"} :
          label \notin events' => label \notin events
    BY <1>1
  <2>2. Kept' => TablesKept' /\ OneRole' /\ Counted' /\ AdminsNow'
    BY DEF Kept
  <2> QED
    BY <1>10, <2>1, <2>2 DEF IInv, SetupInv, AdminInv, Barring
<1> QED
  BY <1>9, <1>11 DEF IInv

LEMMA RecoverInv ==
  ASSUME IInv, RecoverSetup
  PROVE  IInv'
<1>1. /\ file' = NoFile /\ tmp' = tmp /\ holder' = holder /\ fd' = fd /\ users' = users /\ requests' = requests
      /\ count' = count /\ clock' = clock /\ restarts' = restarts /\ events' = events \cup {"apart", "wiped"}
  BY DEF RecoverSetup, bounds
<1>2. NoFile \in [is : {"none", "torn", "whole"}, data : Tables] /\ NoFile.is = "none"
  BY Basics DEF NoFile
<1>3. TypeOK'
  BY <1>1, <1>2 DEF IInv, TypeOK
<1>4. AllSound'
  BY ZenonT(30), <1>1 DEF IInv, AllSound, Sound, Upserting, OwnStore
<1>5. LockInv'
  BY <1>1, <1>2 DEF IInv, LockInv, FileSound, HolderSound, OpenSound, TmpSound, NoFile, Torn, Whole
<1>6. AloneInv'
  BY <1>1 DEF IInv, AloneInv, Upserting, OwnStore
<1> QED
  BY <1>1, <1>3, <1>4, <1>5, <1>6 DEF IInv, QuietInv, SetupInv, AdminInv, Barring

LEMMA QuarterInv ==
  ASSUME IInv, QuarterOfAnHour
  PROVE  IInv'
<1>1. /\ UNCHANGED <<file, tmp, holder, fd, users, requests, count, restarts, events>>
      /\ clock < MaxTime /\ clock' = clock + 1
  BY DEF QuarterOfAnHour, atomic
<1>2. TypeOK'
  <2>1. clock' \in 0..MaxTime
    BY <1>1, Bounds DEF IInv, TypeOK
  <2> QED
    BY <1>1, <2>1 DEF IInv, TypeOK
<1>3. ASSUME NEW u \in UserRecords \cup {NoUser}, u.until <= clock
      PROVE  u.until <= clock'
  <2>1. u.until \in Nat
    <3>1. NoUser.until = 0
      BY DEF NoUser
    <3> QED
      BY <3>1, UserParts, Bounds
  <2> QED
    BY <1>1, <1>3, <2>1, Numbers DEF IInv
<1>4. AllSound'
  <2> SUFFICES ASSUME NEW w \in Writers
               PROVE  Sound(w)'
    BY DEF AllSound
  <2>1. requests[w].base \in UserRecords \cup {NoUser} /\ Sound(w)
    BY Parts DEF IInv, AllSound
  <2>2. requests[w].base.until <= clock => requests[w].base.until <= clock'
    BY <1>3, <2>1
  <2> QED
    BY <1>1, <2>1, <2>2 DEF Sound, Upserting, OwnStore
<1>5. LockInv'
  BY <1>1 DEF IInv, LockInv, FileSound, HolderSound, OpenSound, TmpSound, NoFile, Torn, Whole
<1>6. AloneInv' /\ QuietInv'
  BY <1>1 DEF IInv, AloneInv, QuietInv, Barring, Upserting, OwnStore, Before, Saved, Whole, NoFile
<1>7. TablesKept => TablesKept'
  BY ZenonT(30), <1>1 DEF TablesKept, RequestKept, NoneYet, Upserting, OwnStore, Before, Some, Admins
<1>8. (OneRole => OneRole') /\ (Counted => Counted') /\ (AdminsNow => AdminsNow')
  BY <1>1 DEF OneRole, Counted, TakesAway, AdminsNow, Upserting, OwnStore, Before, Admins
<1> QED
  BY <1>1, <1>2, <1>4, <1>5, <1>6, <1>7, <1>8 DEF IInv, SetupInv, AdminInv, Barring

LEMMA StutterInv ==
  ASSUME IInv, UNCHANGED vars
  PROVE  IInv'
<1>1. UNCHANGED <<file, tmp, holder, fd, users, requests, count, clock, restarts, events>>
  BY DEF vars, atomic
<1>2. TypeOK' /\ AllSound'
  BY ZenonT(30), <1>1 DEF IInv, TypeOK, AllSound, Sound, Upserting, OwnStore
<1>5. LockInv'
  BY <1>1 DEF IInv, LockInv, FileSound, HolderSound, OpenSound, TmpSound, NoFile, Torn, Whole
<1>6. AloneInv' /\ QuietInv'
  BY <1>1 DEF IInv, AloneInv, QuietInv, Barring, Upserting, OwnStore, Before, Saved, Whole, NoFile
<1>7. TablesKept => TablesKept'
  BY ZenonT(30), <1>1 DEF TablesKept, RequestKept, NoneYet, Upserting, OwnStore, Before, Some, Admins
<1>8. (OneRole => OneRole') /\ (Counted => Counted') /\ (AdminsNow => AdminsNow')
  BY <1>1 DEF OneRole, Counted, TakesAway, AdminsNow, Upserting, OwnStore, Before, Admins
<1> QED
  BY <1>1, <1>2, <1>5, <1>6, <1>7, <1>8 DEF IInv, SetupInv, AdminInv, Barring

LEMMA StepInv ==
  ASSUME IInv, [Next]_vars
  PROVE  IInv'
<1>1. ASSUME NEW w \in Writers, Arrive(w) \/ Run(w)
      PROVE  IInv'
  <2>1. /\ TypeOK /\ AllSound /\ LockInv /\ AloneInv /\ QuietInv /\ SetupInv /\ AdminInv
        /\ Turn(w) /\ (Early(w) \/ Late(w))
    BY <1>1, Turns, EarlyOrLate DEF IInv
  <2>2. TypeOK' /\ AllSound'
    BY <1>1, <2>1, RunType
  <2>3. LockInv'
    BY <2>1, EarlyLock, LateLock
  <2>4. AloneInv' /\ QuietInv'
    BY <2>1, RunAlone, RunQuiet
  <2>5. SetupInv' /\ AdminInv'
    BY <2>1, RunSetup, RunAdmin
  <2> QED
    BY <2>2, <2>3, <2>4, <2>5 DEF IInv
<1> QED
  BY <1>1, RecoverInv, QuarterInv, RestartInv, StutterInv DEF Next

\* The inductive invariant, of which the rest are consequences.
THEOREM AccountsInv == Spec => []IInv
<1>1. Init => IInv
  BY InitInv
<1>2. IInv /\ [Next]_vars => IInv'
  BY StepInv
<1> QED
  BY <1>1, <1>2, PTL DEF Spec

\* users.json is whole or not there, whatever removes path.tmp from under whom, and with no
\* request under way it has what is in memory, unless saves have crossed or others have written.
THEOREM UsersStay == Spec => []UsersAreKept
<1>1. IInv => UsersAreKept
  <2> SUFFICES ASSUME IInv
               PROVE  UsersAreKept
    OBVIOUS
  <2>1. TypeOK /\ FileIsWhole
    BY DEF IInv, LockInv, FileSound, FileIsWhole
  <2>2. NoRequest.at = "idle"
    BY DEF NoRequest
  <2>3. QuietIsSaved
    BY <2>2 DEF IInv, QuietInv, QuietIsSaved, Saved, Upserting
  <2> QED
    BY <2>1, <2>3 DEF UsersAreKept
<1> QED
  BY <1>1, AccountsInv, PTL

\* Once a first administrator was told of success the setup stays closed.
THEOREM SetupStaysClosed == Spec => []SetupCloses
<1>1. IInv => SetupCloses
  BY DEF IInv, SetupInv, TablesKept, SetupCloses, Barring
<1> QED
  BY <1>1, AccountsInv, PTL

\* Role changes one at a time leave an administrator.
THEOREM AnAdminStays == Spec => []AdminStays
<1>1. IInv => AdminStays
  BY DEF IInv, AdminInv, AdminsNow, AdminStays, Barring
<1> QED
  BY <1>1, AccountsInv, PTL

\* Who is told of success finds the list it took in the file, but for a login or a recovery
\* whose save has failed: those ignore the error.
THEOREM AnswersAreSaved == Spec => AnsweredIsSaved
<1> DEFINE A == \A w \in Writers :
       ToldOfSuccess(w) => \/ file' = Whole(requests[w].list)
                           \/ requests[w].at = "undo" /\ requests[w].op \in {"login", "reset"}
<1>1. IInv /\ [Next]_vars => [A]_vars
  <2> SUFFICES ASSUME IInv, Next,
                      NEW w \in Writers, requests[w].at = "rename", requests'[w].at # "undo",
                      requests'[w] # requests[w], restarts' = restarts
               PROVE  file' = Whole(requests[w].list)
    BY DEF ToldOfSuccess, Ignoring
  <2>1. ASSUME NEW v \in Writers, Arrive(v) \/ Run(v)
        PROVE  file' = Whole(requests[w].list)
    <3>1. TypeOK /\ AllSound /\ LockInv /\ Turn(v) /\ (Early(v) \/ Late(v))
      BY <2>1, Turns, EarlyOrLate DEF IInv
    <3>2. CASE v # w
      BY <3>1, <3>2, OthersWait
    <3>3. CASE v = w
      <4>1. Rename(w) \/ RenameFails(w)
        BY <3>1, <3>3, EarlyMoves DEF EarlyFacts, Upserting, Late, Put, Save, Write, Undo
      <4>2. RenameOver(w)
        BY <3>1, <4>1, Carry DEF Rename, RenameFails
      <4> QED
        BY <3>1, <4>2, RenamesList
    <3> QED
      BY <3>2, <3>3
  <2>2. CASE RecoverSetup \/ QuarterOfAnHour
    BY <2>2 DEF RecoverSetup, QuarterOfAnHour
  <2>3. CASE Restart
    BY <2>3, RestartsGrow DEF IInv
  <2> QED
    BY <2>1, <2>2, <2>3 DEF Next
<1> QED
  BY <1>1, AccountsInv, PTL DEF Spec, AnsweredIsSaved

\* An upsert that finds the user as the request has read it leaves a lock.
LEMMA PutLeavesLock ==
  ASSUME TypeOK, AllSound, NEW w \in Writers, Put(w), "stale" \notin events', NEW n \in Names, Locked(users[n])
  PROVE  users'[n].until > clock
<1>1. users' = IF OwnStore(w) THEN users ELSE Then(w)
  BY Puts DEF PutFacts
<1>2. users[n].until > clock
  BY DEF Locked
<1>3. CASE OwnStore(w) \/ n # requests[w].name
  BY <1>1, <1>2, <1>3, NotStale DEF Seen
<1>4. CASE ~OwnStore(w) /\ n = requests[w].name
  <2>1. users[n] = requests[w].base /\ users'[n] = requests[w].rec
    BY <1>1, <1>4, NotStale DEF Seen
  <2>2. requests[w].rec.until = requests[w].base.until \/ requests[w].base.until <= clock
    BY <1>4 DEF AllSound, Sound, Put
  <2>3. requests[w].base.until \in Int /\ clock \in Int
    <3>1. NoUser.until = 0
      BY DEF NoUser
    <3>2. requests[w].base \in UserRecords \cup {NoUser}
      BY Parts
    <3>3. \A u \in UserRecords : u.until \in Int
      BY UserParts, Bounds
    <3> QED
      BY <3>1, <3>2, <3>3, Numbers
  <2> QED
    BY <1>2, <2>1, <2>2, <2>3
<1> QED
  BY <1>3, <1>4

\* A lock lasts for its quarter of an hour, but for requests that had read the user before.
THEOREM LocksHold == Spec => LockHolds
<1> DEFINE A == \A n \in Names :
       Locked(users[n]) /\ clock' = clock /\ restarts' = restarts /\ "stale" \notin events' /\ "undone" \notin events'
         => users'[n].until > clock \/ \E w \in Writers : requests[w].at = "undo" /\ requests'[w] = NoRequest
<1>1. IInv /\ [Next]_vars => [A]_vars
  <2> SUFFICES ASSUME IInv, Next, NEW n \in Names, Locked(users[n]), clock' = clock, restarts' = restarts,
                      "stale" \notin events',
                      \A w \in Writers : ~(requests[w].at = "undo" /\ requests'[w] = NoRequest)
               PROVE  users'[n].until > clock
    OBVIOUS
  <2>1. users' = users => users'[n].until > clock
    BY DEF Locked
  <2>2. ASSUME NEW w \in Writers, Arrive(w) \/ Run(w)
        PROVE  users'[n].until > clock
    <3>1. TypeOK /\ AllSound /\ LockInv /\ (Early(w) \/ Late(w))
      BY <2>2, EarlyOrLate DEF IInv
    <3>2. CASE Early(w)
      BY <2>1, <3>1, <3>2, EarlyMoves DEF EarlyFacts
    <3>3. CASE Put(w)
      BY <3>1, <3>3, PutLeavesLock
    <3>4. CASE Late(w) /\ ~Put(w)
      BY <2>1, <3>1, <3>4, LateMoves DEF GoesOn, Succeeds, Undoes
    <3> QED
      BY <3>1, <3>2, <3>3, <3>4
  <2>3. CASE RecoverSetup \/ QuarterOfAnHour
    BY <2>1, <2>3 DEF RecoverSetup, QuarterOfAnHour, bounds, IInv
  <2>4. CASE Restart
    BY <2>4, RestartsGrow DEF IInv
  <2> QED
    BY <2>2, <2>3, <2>4 DEF Next
<1> QED
  BY <1>1, AccountsInv, PTL DEF Spec, LockHolds
================================================================================
