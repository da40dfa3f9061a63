----------------------------- MODULE Apps_proofs -----------------------------
(***************************************************************************)
(* Proofs about Apps, for any number of requests that run in any order.    *)
(*                                                                         *)
(* Each step is first put in the terms of what a request comes to (Well,   *)
(* Ill, Outcome, Saving: the lemmas ...Does), and then each part of the    *)
(* invariant is shown to be kept from those alone.                         *)
(***************************************************************************)
EXTENDS Apps, FiniteSetTheorems, TLAPS

Failing == {"undo", "save", "remove", "restore", "again"}
Answers == {"ok", "failed"}

\* The steps of each kind of request, and what it knows at them.
OnPath(q) ==
  /\ q.op = "none" => q = Idle
  /\ q.op = "install" => q.at \in {"check", "make", "write", "snap", "start", "add", "stop", "cleanup"} \cup Answers
  /\ q.op = "upgrade" => q.at \in {"check", "snap", "mark", "render", "pull", "restart", "health", "finish", "tidy", "fail"}
                                  \cup Failing \cup Answers
  /\ q.op = "start" => q.at \in {"mark", "start", "done", "fail"} \cup Answers
  /\ q.op = "stop" => q.at \in {"mark", "stop", "done", "fail"} \cup Answers
  /\ q.op = "restart" => q.at \in {"restart"} \cup Answers
  /\ q.op = "delete" => q.at \in {"stop", "files", "drop"} \cup Answers
  /\ q.op = "rollback" => q.at \in {"mark", "save", "remove", "restore", "restart", "done", "fail"} \cup Answers

Sound(q) ==
  /\ OnPath(q)
  /\ q.op \in {"install", "upgrade"} /\ q.at \notin {"check"} \cup Answers => q.entry \in Known
  /\ q.op = "upgrade" /\ q.at \notin {"check"} \cup Answers => q.copy # NoApp
  /\ q.op = "upgrade" /\ q.at \in Failing => q.fell # "none"
  /\ q.clean => q.op = "upgrade" /\ ~q.gone

AllSound == \A r \in Requests : Sound(requests[r])

GoodHost(h) == h \in Hosts /\ IsFiniteSet(h.snaps) /\ \A s, t \in h.snaps : s.no = t.no => s = t

------------------------------------------------------------------------------
(* Constants, hosts and what commands make of them.                            *)

LEMMA Catalog ==
  /\ Versions \in Seq(STRING) /\ Len(Versions) \in Nat \ {0}
  /\ Newest \in Known /\ Known \cap {"none", "torn", "empty"} = {}
<1>1. Versions \in Seq(STRING) /\ Len(Versions) \in Nat \ {0}
  BY AppsAssumption
<1>2. Newest \in Known
  BY <1>1 DEF Newest, Known
<1> QED
  BY <1>1, <1>2, GivenAssumption

LEMMA FileKinds ==
  /\ NoFile \in Composes \ {Torn} /\ Torn \in Composes
  /\ NoFile # Torn
  /\ \A v \in Known, p \in Pars : [version |-> v, pars |-> p] \in Composes \ {NoFile, Torn}
  /\ \A c \in Composes : c.version \in Known <=> c \notin {NoFile, Torn}
<1>1. NoFile.version = "none" /\ Torn.version = "torn"
  BY DEF NoFile, Torn
<1>2. NoFile # Torn
  BY <1>1
<1>3. \A v \in Known, p \in Pars : [version |-> v, pars |-> p] \in Composes \ {NoFile, Torn}
  BY <1>1, Catalog DEF Composes
<1>4. \A c \in Composes : c.version \in Known <=> c \notin {NoFile, Torn}
  BY <1>1, Catalog DEF Composes
<1> QED
  BY <1>2, <1>3, <1>4 DEF Composes

\* What a host is made of.
LEMMA HostParts ==
  ASSUME NEW h \in Hosts
  PROVE  /\ h.compose \in Composes /\ h.backup \in Composes /\ h.data \in Contents
         /\ h.snaps \subseteq [no : Nat \ {0}, data : Contents \ {"none"}] /\ h.unit \in Units
         /\ h.unit.of \in Composes \ {Torn}
         /\ h.unit.active \in BOOLEAN /\ h.unit.up \in BOOLEAN /\ h.unit.attached \in BOOLEAN
         /\ (h.unit.active => h.unit.up) /\ (h.unit.up => h.unit.of # NoFile)
<1>1. h.unit \in Units
  BY DEF Hosts
<1>2. \A u \in Units : /\ u.of \in Composes \ {Torn} /\ u.active \in BOOLEAN /\ u.up \in BOOLEAN /\ u.attached \in BOOLEAN
                       /\ (u.active => u.up) /\ (u.up => u.of # NoFile)
  BY DEF Units
<1> QED
  BY <1>1, <1>2 DEF Hosts

LEMMA NoHostIs == GoodHost(NoHost) /\ Down \in Units
<1>1. Down \in Units
  BY FileKinds DEF Down, Units
<1>2. NoHost \in Hosts
  BY <1>1, FileKinds DEF NoHost, Hosts, Contents
<1> QED
  BY <1>1, <1>2, FS_EmptySet DEF GoodHost, NoHost

LEMMA NewCompose ==
  ASSUME NEW h, GoodHost(h), NEW c \in Composes
  PROVE  LET g == [h EXCEPT !.compose = c]
         IN  GoodHost(g) /\ g.compose = c /\ g.backup = h.backup /\ g.data = h.data /\ g.snaps = h.snaps /\ g.unit = h.unit
BY DEF GoodHost, Hosts

LEMMA NewBackup ==
  ASSUME NEW h, GoodHost(h), NEW c \in Composes
  PROVE  LET g == [h EXCEPT !.backup = c]
         IN  GoodHost(g) /\ g.backup = c /\ g.compose = h.compose /\ g.data = h.data /\ g.snaps = h.snaps /\ g.unit = h.unit
BY DEF GoodHost, Hosts

LEMMA NewData ==
  ASSUME NEW h, GoodHost(h), NEW d \in Contents
  PROVE  LET g == [h EXCEPT !.data = d]
         IN  GoodHost(g) /\ g.data = d /\ g.compose = h.compose /\ g.backup = h.backup /\ g.snaps = h.snaps /\ g.unit = h.unit
BY DEF GoodHost, Hosts

LEMMA NewUnit ==
  ASSUME NEW h, GoodHost(h), NEW u \in Units
  PROVE  LET g == [h EXCEPT !.unit = u]
         IN  GoodHost(g) /\ g.unit = u /\ g.compose = h.compose /\ g.backup = h.backup /\ g.snaps = h.snaps /\ g.data = h.data
BY DEF GoodHost, Hosts

LEMMA Detached ==
  ASSUME NEW u \in Units
  PROVE  LET v == [u EXCEPT !.attached = FALSE]
         IN  v \in Units /\ v.up = u.up /\ v.active = u.active /\ v.of = u.of /\ v.attached = FALSE
BY DEF Units

LEMMA Inactive ==
  ASSUME NEW u \in Units
  PROVE  LET v == [u EXCEPT !.active = FALSE]
         IN  v \in Units /\ v.up = u.up /\ v.active = FALSE /\ v.of = u.of /\ v.attached = u.attached
BY DEF Units

Unmoved(g, h) == g.compose = h.compose /\ g.backup = h.backup /\ g.snaps = h.snaps

\* The containers as a request leaves them, of what it found when it began.
Serves(q, h) ==
  /\ h.unit.up /\ h.unit.of = h.compose
  /\ h.unit.attached \/ (q.was.unit.up /\ ~q.was.unit.active)

LEMMA StartedIs ==
  ASSUME NEW h, GoodHost(h), Usable(h) \/ h.unit.active
  PROVE  LET g == Started(h)
         IN  /\ GoodHost(g) /\ Unmoved(g, h) /\ g.unit.up /\ g.unit.active
             /\ g.data # "none" \/ h.unit.active
             /\ g.data = h.data \/ h.data = "none"
             /\ h.data # "none" => g.data = h.data
             /\ h.unit.active => g = h
             /\ ~h.unit.active => g.unit.of = h.compose /\ (g.unit.attached \/ h.unit.up)
<1>1. CASE h.unit.active
  BY <1>1, HostParts DEF Started, Unmoved, GoodHost
<1>2. CASE ~h.unit.active
  <2> DEFINE b == h.unit.up /\ h.unit.of = h.compose => h.unit.attached
             u == [active |-> TRUE, up |-> TRUE, of |-> h.compose, attached |-> b]
             d == IF h.data = "none" THEN "empty" ELSE h.data
             g == [h EXCEPT !.unit = u]
             k == [g EXCEPT !.data = d]
  <2>1. Started(h) = k
    BY <1>2 DEF Started, GoodHost, Hosts
  <2>2. b \in BOOLEAN /\ (b \/ h.unit.up)
    BY HostParts DEF GoodHost
  <2> HIDE DEF b
  <2>3. u \in Units /\ u.up /\ u.active /\ u.of = h.compose /\ (u.attached \/ h.unit.up)
    BY <1>2, <2>2, HostParts, FileKinds DEF Usable, GoodHost, Units
  <2>4. d \in Contents /\ d # "none"
    BY HostParts DEF GoodHost, Contents
  <2> HIDE DEF u
  <2>5. GoodHost(g) /\ g.unit = u /\ Unmoved(g, h) /\ g.data = h.data
    BY <2>3, NewUnit DEF Unmoved
  <2>6. GoodHost(k) /\ k.unit = u /\ Unmoved(k, g) /\ k.data = d
    BY ZenonT(30), <2>4, <2>5, NewData DEF Unmoved
  <2> HIDE DEF k, g
  <2> QED
    BY <1>2, <2>1, <2>3, <2>4, <2>5, <2>6 DEF Unmoved
<1> QED
  BY <1>1, <1>2

LEMMA StoppedIs ==
  ASSUME NEW h, GoodHost(h)
  PROVE  LET g == Stopped(h)
         IN  /\ GoodHost(g) /\ Unmoved(g, h) /\ g.data = h.data /\ ~g.unit.active
             /\ (h.unit.up => h.unit.active) /\ (Usable(h) \/ ~h.unit.up) => ~g.unit.up
             /\ g.unit.up => h.unit.up
             /\ ~h.unit.attached => ~g.unit.attached
             /\ ~h.unit.active => g = h
             /\ h.unit.active /\ Usable(h) => ~g.unit.up /\ ~g.unit.attached
<1>1. CASE ~h.unit.active
  BY <1>1, HostParts DEF Stopped, Unmoved, GoodHost
<1>2. CASE h.unit.active
  <2> DEFINE v == [h.unit EXCEPT !.active = FALSE]
             u == IF Usable(h) THEN Down ELSE v
  <2>1. v \in Units /\ v.up = h.unit.up /\ v.active = FALSE /\ v.of = h.unit.of /\ v.attached = h.unit.attached
    BY HostParts, Inactive DEF GoodHost
  <2>2. Stopped(h) = [h EXCEPT !.unit = u]
    BY <1>2 DEF Stopped
  <2>3. h.unit.up
    BY <1>2, HostParts DEF GoodHost
  <2> HIDE DEF v
  <2>4. /\ u \in Units /\ ~u.active /\ (Usable(h) => ~u.up /\ ~u.attached) /\ (~h.unit.attached => ~u.attached)
    BY <2>1, NoHostIs DEF Down
  <2> HIDE DEF u
  <2> QED
    BY <1>2, <2>2, <2>3, <2>4, NewUnit DEF Unmoved
<1> QED
  BY <1>1, <1>2

LEMMA RestartedIs ==
  ASSUME NEW h, GoodHost(h)
  PROVE  LET g == Restarted(h)
         IN  /\ GoodHost(g) /\ Unmoved(g, h)
             /\ g.data = h.data \/ h.data = "none"
             /\ h.data # "none" => g.data = h.data
             /\ Usable(h) => g.unit.up /\ g.unit.of = h.compose /\ g.unit.active /\ g.data # "none"
                             /\ (g.unit.attached \/ (h.unit.up /\ ~h.unit.active))
             /\ ~Usable(h) => g.unit.of = h.unit.of /\ g.unit.attached = h.unit.attached
             /\ g.unit.up => h.unit.up \/ Usable(h)
             /\ (h.unit.up => h.unit.active) /\ (Usable(h) \/ ~h.unit.up) => (g.unit.up => g.unit.active)
<1>1. CASE Usable(h)
  <2> DEFINE s == Stopped(h)
  <2>1. GoodHost(s) /\ Unmoved(s, h) /\ s.data = h.data /\ ~s.unit.active /\ (~h.unit.active => s = h)
        /\ (h.unit.active => ~s.unit.up)
    BY <1>1, StoppedIs
  <2>2. Usable(s)
    BY <1>1, <2>1 DEF Usable, Unmoved
  <2>3. Restarted(h) = Started(s)
    BY <1>1 DEF Restarted
  <2> HIDE DEF s
  <2> QED
    BY <1>1, <2>1, <2>2, <2>3, StartedIs DEF Unmoved
<1>2. CASE ~Usable(h)
  <2> DEFINE u == [h.unit EXCEPT !.active = FALSE]
  <2>1. u \in Units /\ u.up = h.unit.up /\ u.active = FALSE /\ u.of = h.unit.of /\ u.attached = h.unit.attached
    BY HostParts, Inactive DEF GoodHost
  <2>2. Restarted(h) = [h EXCEPT !.unit = u]
    BY <1>2 DEF Restarted
  <2> HIDE DEF u
  <2> QED
    BY <1>2, <2>1, <2>2, NewUnit DEF Unmoved
<1> QED
  BY <1>1, <1>2

LEMMA HalfwayIs ==
  ASSUME NEW h, GoodHost(h), Usable(h) \/ h.unit.active, NEW g \in Halfway(h)
  PROVE  /\ GoodHost(g) /\ Unmoved(g, h)
         /\ h.data # "none" => g.data = h.data
         /\ g = h \/ g.unit.of = h.compose
<1>1. CASE g = h
  BY <1>1 DEF Unmoved
<1>2. CASE ~h.unit.active /\ g = [Started(h) EXCEPT !.unit.active = FALSE]
  <2> DEFINE s == Started(h)
             u == [s.unit EXCEPT !.active = FALSE]
  <2>1. GoodHost(s) /\ Unmoved(s, h) /\ (h.data # "none" => s.data = h.data) /\ s.unit.of = h.compose
    BY <1>2, StartedIs
  <2>2. g = [s EXCEPT !.unit = u]
    BY <1>2
  <2> HIDE DEF s
  <2>3. u \in Units /\ u.of = s.unit.of
    BY <2>1, HostParts, Inactive DEF GoodHost
  <2> HIDE DEF u
  <2> QED
    BY <2>1, <2>2, <2>3, NewUnit DEF Unmoved
<1> QED
  BY <1>1, <1>2 DEF Halfway

\* What starts and restarts that do not end well may leave.
StartLeft(h) == {h, Started(h)} \cup Halfway(h)
RestartLeft(h) == {h, Restarted(h)} \cup Halfway(Stopped(h))

LEMMA StartLeftIs ==
  ASSUME NEW h, GoodHost(h), Usable(h) \/ h.unit.active, NEW g \in StartLeft(h)
  PROVE  GoodHost(g)
BY StartedIs, HalfwayIs DEF StartLeft

LEMMA RestartLeftIs ==
  ASSUME NEW h, GoodHost(h), Usable(h), NEW g \in RestartLeft(h)
  PROVE  /\ GoodHost(g) /\ Unmoved(g, h)
         /\ h.data # "none" => g.data = h.data
         /\ ~g.unit.attached \/ g.unit.of \in {h.unit.of, h.compose}
<1>1. CASE g = h
  BY <1>1 DEF Unmoved
<1>2. CASE g = Restarted(h)
  BY <1>2, RestartedIs
<1>3. CASE g \in Halfway(Stopped(h))
  <2> DEFINE s == Stopped(h)
  <2>1. GoodHost(s) /\ Unmoved(s, h) /\ s.data = h.data /\ (~h.unit.active => s = h) /\ (h.unit.active => ~s.unit.attached)
    BY StoppedIs
  <2>2. Usable(s)
    BY <2>1 DEF Usable, Unmoved
  <2>3. g \in Halfway(s)
    BY <1>3
  <2> HIDE DEF s
  <2>4. GoodHost(g) /\ Unmoved(g, s) /\ (s.data # "none" => g.data = s.data) /\ (g = s \/ g.unit.of = s.compose)
    BY <2>1, <2>2, <2>3, HalfwayIs
  <2> QED
    BY <2>1, <2>4 DEF Unmoved
<1> QED
  BY <1>1, <1>2, <1>3 DEF RestartLeft

LEMMA RemoveAllIs ==
  ASSUME NEW h, GoodHost(h)
  PROVE  LET g == RemoveAll(h)
         IN  /\ GoodHost(g) /\ g.compose = NoFile /\ g.backup = NoFile /\ g.data = "none" /\ g.snaps = h.snaps
             /\ ~g.unit.attached /\ g.unit.up = h.unit.up /\ g.unit.active = h.unit.active
             /\ GoodHost([g EXCEPT !.snaps = {}]) /\ [g EXCEPT !.snaps = {}].compose = NoFile
             /\ [g EXCEPT !.snaps = {}].backup = NoFile /\ [g EXCEPT !.snaps = {}].data = "none"
             /\ [g EXCEPT !.snaps = {}].unit = g.unit
<1> DEFINE u == [h.unit EXCEPT !.attached = FALSE]
           g1 == [h EXCEPT !.compose = NoFile]
           g2 == [g1 EXCEPT !.backup = NoFile]
           g3 == [g2 EXCEPT !.data = "none"]
           g == [g3 EXCEPT !.unit = u]
           k == [g EXCEPT !.snaps = {}]
<1>1. u \in Units /\ u.up = h.unit.up /\ u.active = h.unit.active /\ u.attached = FALSE
  BY HostParts, Detached DEF GoodHost
<1>2. g = RemoveAll(h)
  BY DEF RemoveAll, GoodHost, Hosts
<1>3. GoodHost(g1) /\ g1.compose = NoFile /\ g1.snaps = h.snaps
  BY FileKinds, NewCompose
<1> HIDE DEF g1, u
<1>4. GoodHost(g2) /\ g2.compose = NoFile /\ g2.backup = NoFile /\ g2.snaps = h.snaps
  BY <1>3, FileKinds, NewBackup
<1> HIDE DEF g2
<1>5. GoodHost(g3) /\ g3.compose = NoFile /\ g3.backup = NoFile /\ g3.data = "none" /\ g3.snaps = h.snaps
  BY <1>4, NewData DEF Contents
<1> HIDE DEF g3
<1>6. GoodHost(g) /\ g.compose = NoFile /\ g.backup = NoFile /\ g.data = "none" /\ g.snaps = h.snaps /\ g.unit = u
  BY <1>1, <1>5, NewUnit
<1> HIDE DEF g
<1>7. /\ k \in Hosts /\ k.compose = NoFile /\ k.backup = NoFile /\ k.data = "none" /\ k.snaps = {} /\ k.unit = g.unit
  BY <1>6 DEF GoodHost, Hosts
<1> HIDE DEF k
<1>8. GoodHost(k)
  BY <1>7, FS_EmptySet DEF GoodHost
<1> QED
  BY <1>1, <1>2, <1>6, <1>7, <1>8 DEF k

LEMMA RemovedIs ==
  ASSUME NEW h, GoodHost(h)
  PROVE  LET g == [h EXCEPT !.data = "none", !.unit.attached = FALSE]
         IN  /\ GoodHost(g) /\ Unmoved(g, h) /\ g.data = "none"
             /\ ~g.unit.attached /\ g.unit.up = h.unit.up /\ g.unit.active = h.unit.active /\ g.unit.of = h.unit.of
<1> DEFINE u == [h.unit EXCEPT !.attached = FALSE]
           g == [h EXCEPT !.data = "none"]
           k == [g EXCEPT !.unit = u]
<1>1. u \in Units /\ u.up = h.unit.up /\ u.active = h.unit.active /\ u.attached = FALSE /\ u.of = h.unit.of
  BY HostParts, Detached DEF GoodHost
<1>2. GoodHost(g) /\ Unmoved(g, h) /\ g.data = "none" /\ g.unit = h.unit
  BY NewData DEF Unmoved, Contents
<1> HIDE DEF g, u
<1>3. GoodHost(k) /\ Unmoved(k, g) /\ k.data = "none" /\ k.unit = u
  BY <1>1, <1>2, NewUnit DEF Unmoved
<1>4. k = [h EXCEPT !.data = "none", !.unit.attached = FALSE]
  BY DEF GoodHost, Hosts, g, u
<1> QED
  BY <1>1, <1>2, <1>3, <1>4 DEF Unmoved

\* A new snapshot has a number of its own.
LEMMA NewSnapIs ==
  ASSUME NEW h, GoodHost(h)
  PROVE  NewSnap(h) \in Nat \ {0} /\ \A s \in h.snaps : s.no # NewSnap(h)
<1> DEFINE c == Cardinality(h.snaps)
           nos == {s.no : s \in h.snaps}
<1>1. IsFiniteSet(h.snaps) /\ c \in Nat
  BY FS_CardinalityType DEF GoodHost
<1>2. IsFiniteSet(nos) /\ Cardinality(nos) <= c
  <2> DEFINE f == [s \in h.snaps |-> s.no]
  <2>1. f \in Surjection(h.snaps, nos)
    BY DEF Surjection
  <2> QED
    BY <1>1, <2>1, FS_Surjection
<1>3. IsFiniteSet(1..c + 1) /\ Cardinality(1..c + 1) = c + 1
  BY <1>1, FS_Interval
<1>4. Cardinality(nos) \in Nat
  BY <1>2, FS_CardinalityType
<1>5. ~(1..c + 1 \subseteq nos)
  <2> SUFFICES ASSUME 1..c + 1 \subseteq nos PROVE FALSE
    OBVIOUS
  <2>1. Cardinality(1..c + 1) <= Cardinality(nos)
    BY <1>2, FS_Subset
  <2> QED
    BY <1>1, <1>2, <1>3, <1>4, <2>1
<1>6. \E n \in 1..c + 1 : \A s \in h.snaps : s.no # n
  BY <1>5
<1>7. NewSnap(h) \in 1..c + 1 /\ \A s \in h.snaps : s.no # NewSnap(h)
  BY <1>6 DEF NewSnap
<1> QED
  BY <1>1, <1>7

LEMMA WithSnapIs ==
  ASSUME NEW h, GoodHost(h), h.data # "none"
  PROVE  LET g == WithSnap(h)
         IN  /\ GoodHost(g) /\ g.compose = h.compose /\ g.backup = h.backup /\ g.data = h.data /\ g.unit = h.unit
             /\ h.snaps \subseteq g.snaps /\ NewSnap(h) \in Nat \ {0}
             /\ \E s \in g.snaps : s.no = NewSnap(h) /\ s.data = h.data
             /\ \A s \in g.snaps : s.no = NewSnap(h) => s.data = h.data
<1> DEFINE n == NewSnap(h)
           x == [no |-> n, data |-> h.data]
           g == [h EXCEPT !.snaps = @ \cup {x}]
<1>1. n \in Nat \ {0} /\ \A s \in h.snaps : s.no # n
  BY NewSnapIs
<1> HIDE DEF n
<1>2. h.data \in Contents \ {"none"} /\ h.snaps \subseteq [no : Nat \ {0}, data : Contents \ {"none"}]
  BY HostParts DEF GoodHost
<1>3. x \in [no : Nat \ {0}, data : Contents \ {"none"}] /\ x.no = n /\ x.data = h.data
  BY <1>1, <1>2
<1> HIDE DEF x
<1>4. /\ g \in Hosts /\ g.compose = h.compose /\ g.backup = h.backup /\ g.data = h.data /\ g.unit = h.unit
      /\ g.snaps = h.snaps \cup {x}
  BY <1>2, <1>3 DEF GoodHost, Hosts
<1>5. IsFiniteSet(g.snaps)
  BY <1>4, FS_AddElement DEF GoodHost
<1>6. \A s, t \in g.snaps : s.no = t.no => s = t
  BY <1>1, <1>3, <1>4 DEF GoodHost
<1>7. WithSnap(h) = g
  BY DEF WithSnap, n, x
<1> HIDE DEF g
<1>8. x \in g.snaps /\ h.snaps \subseteq g.snaps
  BY <1>4
<1> QED
  BY <1>1, <1>3, <1>4, <1>5, <1>6, <1>7, <1>8 DEF n, GoodHost

------------------------------------------------------------------------------
(* How a request goes on.                                                      *)

LEMMA Parts ==
  ASSUME TypeOK, NEW r \in Requests
  PROVE  /\ requests[r] \in Requested
         /\ requests[r].op \in Ops \cup {"none"} /\ requests[r].at \in Steps \cup {"idle"}
         /\ requests[r].copy \in Records(maps) /\ requests[r].entry \in Known \cup {"none"} /\ requests[r].pars \in Pars
         /\ requests[r].keep \in BOOLEAN /\ requests[r].snap \in Nat /\ requests[r].gone \in BOOLEAN
         /\ requests[r].fell \in {"none", "pull", "restart", "health"} /\ requests[r].was \in Hosts
         /\ requests[r].alone \in BOOLEAN /\ requests[r].clean \in BOOLEAN
<1>1. requests[r] \in Requested
  BY DEF TypeOK
<1> QED
  BY <1>1 DEF Requested

LEMMA IdleIs ==
  /\ Idle \in Requested /\ Idle.op = "none" /\ Idle.at = "idle" /\ Idle.copy = NoApp /\ Idle.snap = 0
  /\ Idle.gone = FALSE /\ Idle.fell = "none" /\ Idle.alone = FALSE /\ Idle.clean = FALSE /\ Idle.keep = FALSE
  /\ Sound(Idle)
<1>1. /\ Idle.op = "none" /\ Idle.at = "idle" /\ Idle.copy = NoApp /\ Idle.snap = 0
      /\ Idle.gone = FALSE /\ Idle.fell = "none" /\ Idle.alone = FALSE /\ Idle.clean = FALSE /\ Idle.keep = FALSE
  BY DEF Idle
<1>2. NoHost \in Hosts /\ NoApp \in Records(maps)
  BY NoHostIs DEF GoodHost, Records
<1>3. Idle \in Requested
  BY <1>2 DEF Idle, Requested, Pars
<1>4. Sound(Idle)
  BY <1>1 DEF Sound, OnPath
<1> QED
  BY <1>1, <1>3, <1>4

\* p is q at another step, or q has answered and is forgotten.
Same(p, q) ==
  /\ p.op = q.op /\ p.copy = q.copy /\ p.entry = q.entry /\ p.pars = q.pars /\ p.keep = q.keep
  /\ p.snap = q.snap /\ p.fell = q.fell /\ p.was = q.was /\ p.alone = q.alone
Gone(p, q, at) == p = Idle /\ at \in Answers /\ ~q.alone

Others(r) == requests' \in [Requests -> Requested] /\ \A s \in Requests \ {r} : requests'[s] = requests[s]

\* As it should, and with something going wrong, e.
Well(r, at) ==
  /\ Others(r) /\ events' = events
  /\ \/ Gone(requests'[r], requests[r], at)
     \/ /\ Same(requests'[r], requests[r]) /\ requests'[r].at = at
        /\ requests'[r].clean = requests[r].clean /\ requests'[r].gone = requests[r].gone
Ill(r, at, e) ==
  /\ Others(r) /\ events' = events \cup {e}
  /\ \/ Gone(requests'[r], requests[r], at)
     \/ /\ Same(requests'[r], requests[r]) /\ requests'[r].at = at
        /\ requests'[r].clean => requests[r].clean /\ requests[r].fell = "none" /\ ~requests'[r].gone /\ e = "fault"

LEMMA Puts ==
  ASSUME TypeOK, NEW r \in Requests, NEW q \in Requested, Put(r, q)
  PROVE  /\ Others(r)
         /\ requests'[r] = q \/ Gone(requests'[r], q, q.at)
BY IdleIs DEF TypeOK, Put, Others, Gone, Answers

LEMMA Ats ==
  ASSUME NEW q \in Requested, NEW at \in Steps
  PROVE  LET p == [q EXCEPT !.at = at]
         IN  p \in Requested /\ Same(p, q) /\ p.at = at /\ p.clean = q.clean /\ p.gone = q.gone
BY DEF Requested, Same

LEMMA Cleans ==
  ASSUME NEW q \in Requested, NEW b \in BOOLEAN
  PROVE  LET p == [q EXCEPT !.clean = b]
         IN  p \in Requested /\ Same(p, q) /\ p.at = q.at /\ p.clean = b /\ p.gone = q.gone
BY DEF Requested, Same

LEMMA Gones ==
  ASSUME NEW q \in Requested, NEW b \in BOOLEAN
  PROVE  LET p == [q EXCEPT !.gone = b]
         IN  p \in Requested /\ Same(p, q) /\ p.at = q.at /\ p.gone = b /\ p.clean = q.clean
BY DEF Requested, Same

LEMMA Gotos ==
  ASSUME TypeOK, NEW r \in Requests, NEW at \in Steps, Goto(r, at), events' = events
  PROVE  Well(r, at)
<1> DEFINE p == [requests[r] EXCEPT !.at = at]
<1>1. p \in Requested /\ Same(p, requests[r]) /\ p.at = at /\ p.clean = requests[r].clean /\ p.gone = requests[r].gone
  BY Parts, Ats
<1>2. Put(r, p)
  BY DEF Goto
<1> HIDE DEF p
<1>3. Others(r) /\ (requests'[r] = p \/ Gone(requests'[r], p, p.at))
  BY <1>1, <1>2, Puts
<1> QED
  BY <1>1, <1>3 DEF Well, Gone, Same

\* A request put at another step, no longer clean.
LEMMA Spoils ==
  ASSUME TypeOK, NEW r \in Requests, NEW at \in Steps, NEW e, events' = events \cup {e},
         Put(r, [requests[r] EXCEPT !.at = at, !.clean = FALSE])
  PROVE  Ill(r, at, e) /\ ~requests'[r].clean
<1> DEFINE q == [requests[r] EXCEPT !.at = at]
           p == [q EXCEPT !.clean = FALSE]
<1>1. q \in Requested /\ Same(q, requests[r]) /\ q.at = at
  BY Parts, Ats
<1> HIDE DEF q
<1>2. p \in Requested /\ Same(p, q) /\ p.at = at /\ p.clean = FALSE
  BY <1>1, Cleans
<1>3. p = [requests[r] EXCEPT !.at = at, !.clean = FALSE]
  BY Parts DEF q, Requested
<1> HIDE DEF p
<1>4. Others(r) /\ (requests'[r] = p \/ Gone(requests'[r], p, p.at))
  BY <1>2, <1>3, Puts
<1> QED
  BY <1>1, <1>2, <1>4, IdleIs DEF Ill, Gone, Same

LEMMA Worsens ==
  ASSUME TypeOK, NEW r \in Requests, NEW at \in Steps, events' = events \cup {"fault"}, Sound(requests[r]),
         Put(r, Worse(requests[r], at))
  PROVE  Ill(r, at, "fault")
<1> DEFINE b == requests[r].clean /\ requests[r].fell = "none"
           q == [requests[r] EXCEPT !.at = at]
           p == [q EXCEPT !.clean = b]
<1>1. q \in Requested /\ Same(q, requests[r]) /\ q.at = at /\ q.gone = requests[r].gone
  BY Parts, Ats
<1> HIDE DEF q
<1>2. p \in Requested /\ Same(p, q) /\ p.at = at /\ p.clean = b /\ p.gone = q.gone
  BY <1>1, Cleans
<1>3. p = Worse(requests[r], at)
  BY Parts DEF q, Requested, Worse
<1> HIDE DEF p
<1>4. Others(r) /\ (requests'[r] = p \/ Gone(requests'[r], p, p.at))
  BY <1>2, <1>3, Puts
<1>5. requests[r].clean => ~requests[r].gone
  BY DEF Sound
<1>6. p.clean => requests[r].clean /\ requests[r].fell = "none"
  BY <1>2 DEF b
<1> HIDE DEF b
<1> QED
  BY <1>1, <1>2, <1>4, <1>5, <1>6 DEF Ill, Gone, Same

LEMMA Parted ==
  ASSUME TypeOK, NEW r \in Requests, NEW at \in Steps, events' = events \cup {"fault"},
         Put(r, [requests[r] EXCEPT !.at = at, !.gone = TRUE, !.clean = FALSE])
  PROVE  Ill(r, at, "fault")
<1> DEFINE q == [requests[r] EXCEPT !.at = at]
           o == [q EXCEPT !.gone = TRUE]
           p == [o EXCEPT !.clean = FALSE]
<1>1. q \in Requested /\ Same(q, requests[r]) /\ q.at = at
  BY Parts, Ats
<1> HIDE DEF q
<1>2. o \in Requested /\ Same(o, q) /\ o.at = at
  BY <1>1, Gones
<1> HIDE DEF o
<1>3. p \in Requested /\ Same(p, o) /\ p.at = at /\ p.clean = FALSE
  BY <1>2, Cleans
<1>4. p = [requests[r] EXCEPT !.at = at, !.gone = TRUE, !.clean = FALSE]
  BY Parts DEF o, q, Requested
<1> HIDE DEF p
<1>5. Others(r) /\ (requests'[r] = p \/ Gone(requests'[r], p, p.at))
  BY <1>3, <1>4, Puts
<1> QED
  BY <1>1, <1>2, <1>3, <1>5 DEF Ill, Gone, Same

\* A command: done, or left as one of some hosts, or not begun.
Outcome(r, done, good, left, bad) ==
  \/ host' = done /\ Well(r, good)
  \/ host' \in left /\ Ill(r, bad, "fault")
  \/ requests[r].gone /\ host' = host /\ Well(r, bad)

LEMMA DidIs ==
  ASSUME TypeOK, NEW r \in Requests, NEW h, NEW at \in Steps, Did(r, h, at)
  PROVE  host' = h /\ Well(r, at)
BY Gotos DEF Did, Quietly

LEMMA FailsIs ==
  ASSUME TypeOK, NEW r \in Requests, NEW h, NEW at \in Steps, Sound(requests[r]), Fails(r, h, at)
  PROVE  host' = h /\ Ill(r, at, "fault")
BY Worsens DEF Fails, Fault

LEMMA RunsIs ==
  ASSUME TypeOK, NEW r \in Requests, NEW done, NEW broken, NEW good \in Steps, NEW bad \in Steps, Sound(requests[r]),
         Runs(r, done, broken, good, bad)
  PROVE  Outcome(r, done, good, {broken}, bad)
BY DidIs, FailsIs DEF Runs, Outcome

LEMMA BoundIs ==
  ASSUME TypeOK, NEW r \in Requests, NEW done, NEW broken, NEW good \in Steps, NEW bad \in Steps, Sound(requests[r]),
         Bound(r, done, broken, good, bad)
  PROVE  Outcome(r, done, good, {host, done, broken}, bad)
<1>1. CASE Runs(r, done, broken, good, bad)
  BY <1>1, DidIs, FailsIs DEF Runs, Outcome
<1>2. CASE requests[r].gone /\ Did(r, host, bad)
  BY <1>2, DidIs DEF Outcome
<1>3. ASSUME NEW h \in {host, done}, host' = h, Fault("fault"),
             Put(r, [requests[r] EXCEPT !.at = bad, !.gone = TRUE, !.clean = FALSE])
      PROVE  Outcome(r, done, good, {host, done, broken}, bad)
  BY <1>3, Parted DEF Fault, Outcome
<1> QED
  BY <1>1, <1>2, <1>3 DEF Bound

\* A command that may leave one of several hosts when it fails.
LEMMA LeftIs ==
  ASSUME TypeOK, NEW r \in Requests, NEW done, NEW halves, NEW h \in halves, NEW good \in Steps, NEW bad \in Steps,
         Sound(requests[r]), Bound(r, done, h, good, bad)
  PROVE  Outcome(r, done, good, {host, done} \cup halves, bad)
<1>1. Outcome(r, done, good, {host, done, h}, bad)
  BY BoundIs
<1> QED
  BY <1>1 DEF Outcome

\* The store saved with a and m, or not.
Saving(r, a, m, good, bad) ==
  /\ app' = a /\ maps' = m
  /\ \/ saved' = Form(a, m) /\ Well(r, good)
     \/ saved' = saved /\ Ill(r, bad, "save failed")

LEMMA PersistIs ==
  ASSUME TypeOK, NEW r \in Requests, NEW a, NEW m, NEW good \in Steps, NEW bad \in Steps, Persist(r, a, m, good, bad)
  PROVE  Saving(r, a, m, good, bad)
BY Gotos, Spoils DEF Persist, Saving, Quietly, Fault

LEMMA StatusIs ==
  ASSUME TypeOK, NEW r \in Requests, NEW status, NEW good \in Steps, NEW bad \in Steps,
         UpdateAppStatus(r, status, good, bad)
  PROVE  \/ app = NoApp /\ UNCHANGED store /\ Well(r, bad)
         \/ app # NoApp /\ Saving(r, [app EXCEPT !.status = status], maps, good, bad)
BY Gotos, PersistIs DEF UpdateAppStatus, Quietly

------------------------------------------------------------------------------
(* What each step of a request comes to.                                       *)

LEMMA Whose ==
  ASSUME TypeOK, NEW r \in Requests, Sound(requests[r])
  PROVE  LET op == requests[r].op
             at == requests[r].at
         IN  /\ at = "idle" <=> requests[r] = Idle
             /\ at = "idle" <=> op = "none"
             /\ at = "check" => op \in {"install", "upgrade"}
             /\ at \in {"make", "write", "add", "cleanup"} => op = "install"
             /\ at = "snap" => op \in {"install", "upgrade"}
             /\ at = "start" => op \in {"install", "start"}
             /\ at = "stop" => op \in {"install", "delete", "stop"}
             /\ at = "mark" => op \in {"start", "stop", "rollback", "upgrade"}
             /\ at = "fail" => op \in {"start", "stop", "rollback", "upgrade"}
             /\ at = "done" => op \in {"start", "stop", "rollback"}
             /\ at \in {"render", "pull", "health", "undo", "again", "finish", "tidy"} => op = "upgrade"
             /\ at = "restart" => op \in {"restart", "rollback", "upgrade"}
             /\ at \in {"save", "remove", "restore"} => op \in {"rollback", "upgrade"}
             /\ at \in {"files", "drop"} => op = "delete"
<1> DEFINE op == requests[r].op
           at == requests[r].at
<1>1. op \in Ops \cup {"none"} /\ OnPath(requests[r]) /\ Idle.at = "idle" /\ Idle.op = "none"
  BY Parts, IdleIs DEF Sound
<1>2. CASE op \in {"none", "install", "upgrade"}
  BY <1>1, <1>2 DEF OnPath, Failing, Answers
<1>3. CASE op \in {"start", "stop", "restart", "delete", "rollback"}
  BY <1>1, <1>3 DEF OnPath, Failing, Answers
<1> QED
  BY <1>1, <1>2, <1>3 DEF Ops

LEMMA MakeDoes ==
  ASSUME TypeOK, NEW r \in Requests, Sound(requests[r]), Make(r)
  PROVE  /\ requests[r].op = "install" /\ requests[r].at = "make" /\ UNCHANGED store
         /\ Outcome(r, [host EXCEPT !.data = IF @ = "none" THEN "empty" ELSE @], "write", {host}, "failed")
BY SMTT(20), Whose, RunsIs DEF Make, OnHost, At, Steps

LEMMA WriteDoes ==
  ASSUME TypeOK, NEW r \in Requests, Sound(requests[r]), Write(r)
  PROVE  /\ requests[r].op = "install" /\ requests[r].at = "write" /\ UNCHANGED store
         /\ Outcome(r, [host EXCEPT !.compose = [version |-> requests[r].entry, pars |-> requests[r].pars]], "snap",
                    {RemoveAll(host)}, "failed")
BY Whose, RunsIs DEF Write, OnHost, At, Steps

LEMMA StartDoes ==
  ASSUME TypeOK, NEW r \in Requests, Sound(requests[r]), Start(r)
  PROVE  LET good == IF requests[r].op = "install" THEN "add" ELSE "done"
             bad == IF requests[r].op = "install" THEN "cleanup" ELSE "fail"
         IN  /\ requests[r].op \in {"install", "start"} /\ requests[r].at = "start" /\ UNCHANGED store
             /\ \/ /\ Usable(host) \/ host.unit.active
                   /\ Outcome(r, Started(host), good, StartLeft(host), bad)
                \/ /\ ~Usable(host) /\ ~host.unit.active
                   /\ host' = host /\ Well(r, bad)
<1> DEFINE good == IF requests[r].op = "install" THEN "add" ELSE "done"
           bad == IF requests[r].op = "install" THEN "cleanup" ELSE "fail"
<1>1. requests[r].op \in {"install", "start"} /\ requests[r].at = "start" /\ UNCHANGED store
  BY Whose DEF Start, OnHost, At
<1>2. good \in Steps /\ bad \in Steps
  BY DEF Steps
<1>3. IF Usable(host) \/ host.unit.active THEN \E h \in Halfway(host) : Bound(r, Started(host), h, good, bad)
      ELSE Did(r, host, bad)
  BY DEF Start, Op
<1> HIDE DEF good, bad
<1>4. ASSUME NEW h \in Halfway(host), Bound(r, Started(host), h, good, bad)
      PROVE  Outcome(r, Started(host), good, StartLeft(host), bad)
  BY <1>2, <1>4, LeftIs DEF StartLeft
<1>5. \/ /\ Usable(host) \/ host.unit.active
         /\ Outcome(r, Started(host), good, StartLeft(host), bad)
      \/ /\ ~Usable(host) /\ ~host.unit.active
         /\ host' = host /\ Well(r, bad)
  BY <1>2, <1>3, <1>4, DidIs
<1> QED
  BY <1>1, <1>5 DEF good, bad

LEMMA StopDoes ==
  ASSUME TypeOK, NEW r \in Requests, Sound(requests[r]), Stop(r)
  PROVE  /\ requests[r].op \in {"install", "delete", "stop"} /\ requests[r].at = "stop" /\ UNCHANGED store
         /\ \E next, bad \in Steps :
              /\ next = CASE requests[r].op = "install" -> "cleanup" [] requests[r].op = "delete" -> "files"
                          [] requests[r].op = "stop" -> "done"
              /\ bad = IF requests[r].op = "stop" THEN "fail" ELSE next
              /\ Outcome(r, Stopped(host), next, {host, Stopped(host)}, bad)
<1> DEFINE next == CASE requests[r].op = "install" -> "cleanup" [] requests[r].op = "delete" -> "files"
                     [] requests[r].op = "stop" -> "done"
           bad == IF requests[r].op = "stop" THEN "fail" ELSE next
<1>1. requests[r].op \in {"install", "delete", "stop"} /\ requests[r].at = "stop" /\ UNCHANGED store
  BY Whose DEF Stop, OnHost, At
<1>2. next \in Steps /\ bad \in Steps
  BY <1>1 DEF Steps
<1>3. Bound(r, Stopped(host), host, next, bad)
  BY DEF Stop, Op
<1> HIDE DEF next, bad
<1>4. Outcome(r, Stopped(host), next, {host, Stopped(host)}, bad)
  BY <1>2, <1>3, BoundIs DEF Outcome
<1> QED
  BY <1>1, <1>2, <1>4 DEF next, bad

LEMMA CleanUpDoes ==
  ASSUME TypeOK, NEW r \in Requests, Sound(requests[r]), CleanUp(r)
  PROVE  /\ requests[r].op = "install" /\ requests[r].at = "cleanup" /\ UNCHANGED store
         /\ host' = RemoveAll(host) /\ Well(r, "failed")
BY Whose, DidIs DEF CleanUp, OnHost, At, Steps

LEMMA AddDoes ==
  ASSUME TypeOK, NEW r \in Requests, Sound(requests[r]), Add(r)
  PROVE  /\ requests[r].op = "install" /\ requests[r].at = "add" /\ UNCHANGED host
         /\ \/ app # NoApp /\ UNCHANGED store /\ Well(r, "stop")
            \/ /\ app = NoApp
               /\ Saving(r, [status |-> "running", version |-> requests[r].entry, map |-> Len(Append(maps, requests[r].pars))],
                         Append(maps, requests[r].pars), "ok", "stop")
BY Whose, Gotos, PersistIs DEF Add, InStore, At, Quietly, Steps

\* The status that Mark gives, and the step after it.
MarkOf(op) == CASE op = "start" -> "starting" [] op = "stop" -> "stopping" [] op = "rollback" -> "rollback"
                [] op = "upgrade" -> "upgrading"
AfterMark(op) == CASE op = "start" -> "start" [] op = "stop" -> "stop" [] op = "rollback" -> "save"
                   [] op = "upgrade" -> "render"

LEMMA MarkDoes ==
  ASSUME TypeOK, NEW r \in Requests, Sound(requests[r]), Mark(r)
  PROVE  /\ requests[r].op \in {"start", "stop", "rollback", "upgrade"} /\ requests[r].at = "mark" /\ UNCHANGED host
         /\ \/ app = NoApp /\ UNCHANGED store /\ Well(r, "failed")
            \/ /\ app # NoApp
               /\ Saving(r, [app EXCEPT !.status = MarkOf(requests[r].op)], maps, AfterMark(requests[r].op), "failed")
<1> DEFINE op == requests[r].op
<1>1. op \in {"start", "stop", "rollback", "upgrade"} /\ requests[r].at = "mark" /\ UNCHANGED host
  BY Whose DEF Mark, InStore, At
<1>2. Marks[op] = MarkOf(op) /\ Marked[op] = AfterMark(op)
  BY <1>1 DEF Marks, Marked, MarkOf, AfterMark
<1>3. AfterMark(op) \in Steps /\ "failed" \in Steps
  BY <1>1 DEF AfterMark, Steps
<1>4. UpdateAppStatus(r, MarkOf(op), AfterMark(op), "failed")
  BY <1>2 DEF Mark, Op
<1> QED
  BY <1>1, <1>3, <1>4, StatusIs

LEMMA FailDoes ==
  ASSUME TypeOK, NEW r \in Requests, Sound(requests[r]), Fail(r)
  PROVE  /\ requests[r].op \in {"start", "stop", "rollback", "upgrade"} /\ requests[r].at = "fail" /\ UNCHANGED host
         /\ \/ app = NoApp /\ UNCHANGED store /\ Well(r, "failed")
            \/ app # NoApp /\ Saving(r, [app EXCEPT !.status = "error"], maps, "failed", "failed")
BY Whose, StatusIs DEF Fail, InStore, At, Steps

LEMMA DoneDoes ==
  ASSUME TypeOK, NEW r \in Requests, Sound(requests[r]), Done(r)
  PROVE  /\ requests[r].op \in {"start", "stop", "rollback"} /\ requests[r].at = "done" /\ UNCHANGED host
         /\ \/ app = NoApp /\ UNCHANGED store /\ Well(r, "failed")
            \/ /\ app # NoApp
               /\ Saving(r, [app EXCEPT !.status = IF requests[r].op = "stop" THEN "stopped" ELSE "running"], maps,
                         "ok", "failed")
BY SMTT(20), Whose, StatusIs DEF Done, InStore, At, Op, Steps

LEMMA AnswerDoes ==
  ASSUME TypeOK, NEW r \in Requests, Answer(r)
  PROVE  /\ requests[r].at \in Answers /\ UNCHANGED <<store, host, events>>
         /\ Others(r) /\ requests'[r] = Idle
BY Puts, IdleIs DEF Answer, Answers, Gone

LEMMA TidyDoes ==
  ASSUME TypeOK, NEW r \in Requests, Sound(requests[r]), Tidy(r)
  PROVE  /\ requests[r].op = "upgrade" /\ requests[r].at = "tidy" /\ UNCHANGED store
         /\ host' = [host EXCEPT !.backup = NoFile] /\ Well(r, "ok")
BY Whose, DidIs DEF Tidy, OnHost, At, Steps

LEMMA DropDoes ==
  ASSUME TypeOK, NEW r \in Requests, Sound(requests[r]), Drop(r)
  PROVE  /\ requests[r].op = "delete" /\ requests[r].at = "drop" /\ UNCHANGED host
         /\ \/ app = NoApp /\ UNCHANGED store /\ Well(r, "failed")
            \/ app # NoApp /\ Saving(r, NoApp, maps, "ok", "failed")
BY Whose, Gotos, PersistIs DEF Drop, InStore, At, Quietly, Steps

LEMMA FilesDoes ==
  ASSUME TypeOK, NEW r \in Requests, Sound(requests[r]), Files(r)
  PROVE  /\ requests[r].op = "delete" /\ requests[r].at = "files" /\ UNCHANGED store
         /\ \/ requests[r].keep /\ host' = host /\ Well(r, "drop")
            \/ ~requests[r].keep /\ host' = [RemoveAll(host) EXCEPT !.snaps = {}] /\ Well(r, "drop")
            \/ ~requests[r].keep /\ host' = RemoveAll(host) /\ Ill(r, "drop", "fault")
            \/ host' \in {host, [host EXCEPT !.compose = NoFile, !.backup = NoFile]} /\ Ill(r, "failed", "fault")
BY Whose, DidIs, FailsIs DEF Files, OnHost, At, Steps

LEMMA FinishDoes ==
  ASSUME TypeOK, NEW r \in Requests, Sound(requests[r]), Finish(r)
  PROVE  /\ requests[r].op = "upgrade" /\ requests[r].at = "finish" /\ UNCHANGED host
         /\ \/ app = NoApp /\ UNCHANGED store /\ Well(r, "failed")
            \/ /\ app # NoApp
               /\ Saving(r, [requests[r].copy EXCEPT !.version = Newest, !.status = "running"], maps, "tidy", "failed")
BY Whose, Gotos, PersistIs DEF Finish, At, Quietly, Steps

LEMMA LeaveDoes ==
  ASSUME TypeOK, NEW r \in Requests, Leave(r)
  PROVE  /\ requests[r].at \notin {"idle"} \cup Answers /\ UNCHANGED <<store, host>>
         /\ Ill(r, requests[r].at, "fault") /\ ~requests'[r].clean
<1> DEFINE o == [requests[r] EXCEPT !.gone = TRUE]
           p == [o EXCEPT !.clean = FALSE]
<1>1. o \in Requested /\ Same(o, requests[r]) /\ o.at = requests[r].at
  BY Parts, Gones
<1> HIDE DEF o
<1>2. p \in Requested /\ Same(p, o) /\ p.at = o.at /\ p.clean = FALSE
  BY <1>1, Cleans
<1>3. p = [requests[r] EXCEPT !.gone = TRUE, !.clean = FALSE]
  BY Parts DEF o, Requested
<1> HIDE DEF p
<1>4. Others(r) /\ (requests'[r] = p \/ Gone(requests'[r], p, p.at))
  BY <1>2, <1>3, Puts DEF Leave
<1> QED
  BY <1>1, <1>2, <1>4, IdleIs DEF Leave, Fault, Ill, Gone, Same, Answers

\* A request that is checked, with an entry of the catalog and a copy of the record.
Chosen(r) ==
  LET p == requests'[r]
      q == requests[r]
  IN  /\ Others(r) /\ events' = events
      /\ p.at = (IF q.op = "install" THEN "make" ELSE "snap") /\ p.entry \in Known /\ p.copy = app
      /\ p.op = q.op /\ p.pars = q.pars /\ p.keep = q.keep /\ p.snap = q.snap /\ p.fell = q.fell /\ p.was = q.was
      /\ p.alone = q.alone /\ p.clean = q.clean /\ p.gone = q.gone

LEMMA CheckDoes ==
  ASSUME TypeOK, NEW r \in Requests, Sound(requests[r]), Check(r)
  PROVE  /\ requests[r].op \in {"install", "upgrade"} /\ requests[r].at = "check" /\ UNCHANGED <<store, host>>
         /\ \/ Well(r, "failed")
            \/ (requests[r].op = "install" <=> app = NoApp) /\ Chosen(r)
<1> DEFINE q == requests[r]
           at == IF q.op = "install" THEN "make" ELSE "snap"
<1>1. q.op \in {"install", "upgrade"} /\ q.at = "check" /\ UNCHANGED <<store, host, events>>
  BY Whose DEF Check, InStore, At, Quietly
<1>2. CASE Goto(r, "failed")
  BY <1>1, <1>2, Gotos DEF Steps
<1>3. ASSUME NEW v \in Known, (q.op = "install") = (app = NoApp),
             Put(r, [q EXCEPT !.at = at, !.entry = v, !.copy = app])
      PROVE  (q.op = "install" <=> app = NoApp) /\ Chosen(r)
  <2> DEFINE p == [q EXCEPT !.at = at, !.entry = v, !.copy = app]
  <2>1. at \in Steps /\ at \notin Answers
    BY DEF Steps, Answers
  <2>2. q \in Requested /\ app \in Records(maps)
    BY Parts DEF TypeOK
  <2> HIDE DEF q, at
  <2>3. /\ p \in Requested /\ p.at = at /\ p.entry = v /\ p.copy = app
        /\ p.op = q.op /\ p.pars = q.pars /\ p.keep = q.keep /\ p.snap = q.snap /\ p.fell = q.fell /\ p.was = q.was
        /\ p.alone = q.alone /\ p.clean = q.clean /\ p.gone = q.gone
    BY <2>1, <2>2 DEF Requested
  <2>4. Put(r, p)
    BY <1>3 DEF q, at
  <2> HIDE DEF p
  <2>5. Others(r) /\ requests'[r] = p
    BY <2>1, <2>3, <2>4, Puts DEF Gone
  <2>6. q.op = "install" <=> app = NoApp
    BY <1>3
  <2>7. Chosen(r)
    BY <1>1, <2>3, <2>5 DEF Chosen, q, at
  <2> QED
    BY <2>6, <2>7 DEF q
<1> QED
  BY <1>1, <1>2, <1>3 DEF Check, Op

\* A request with a snapshot of its own.
Snapped(r) ==
  LET p == requests'[r]
      q == requests[r]
  IN  /\ Others(r) /\ events' = events
      /\ p.at = (IF q.op = "install" THEN "start" ELSE "mark") /\ p.snap \in {NewSnap(host), 0}
      /\ p.op = q.op /\ p.pars = q.pars /\ p.keep = q.keep /\ p.entry = q.entry /\ p.copy = q.copy /\ p.fell = q.fell
      /\ p.was = q.was /\ p.alone = q.alone /\ p.clean = q.clean /\ p.gone = q.gone

LEMMA SnapDoes ==
  ASSUME TypeOK, NEW r \in Requests, Sound(requests[r]), Snap(r)
  PROVE  LET without == IF requests[r].op = "install" THEN "start" ELSE "failed"
         IN  /\ requests[r].op \in {"install", "upgrade"} /\ requests[r].at = "snap" /\ UNCHANGED store
             /\ \/ host' = host /\ Ill(r, without, "fault")
                \/ host.data = "none" /\ host' = host /\ Well(r, without)
                \/ host.data # "none" /\ host' = WithSnap(host) /\ Snapped(r)
<1> DEFINE q == requests[r]
           without == IF q.op = "install" THEN "start" ELSE "failed"
           at == IF q.op = "install" THEN "start" ELSE "mark"
<1>1. q.op \in {"install", "upgrade"} /\ q.at = "snap" /\ UNCHANGED store
  BY Whose DEF Snap, OnHost, At
<1>2. at \in Steps /\ at \notin Answers /\ without \in Steps
  BY DEF Steps, Answers
<1>3. q \in Requested /\ {NewSnap(host), 0} \subseteq Nat
  BY Parts, NewSnapIs DEF TypeOK, GoodHost
<1>4. \/ Fails(r, host, without)
      \/ host.data = "none" /\ Did(r, host, without)
      \/ /\ host.data # "none" /\ host' = WithSnap(host) /\ Quietly
         /\ \E id \in {NewSnap(host), 0} : Put(r, [q EXCEPT !.at = at, !.snap = id])
  BY DEF Snap, Op
<1>5. ASSUME NEW id \in {NewSnap(host), 0}, Put(r, [q EXCEPT !.at = at, !.snap = id]), Quietly
      PROVE  Snapped(r)
  <2> DEFINE p == [q EXCEPT !.at = at, !.snap = id]
  <2> HIDE DEF q, at
  <2>1. /\ p \in Requested /\ p.at = at /\ p.snap = id
        /\ p.op = q.op /\ p.pars = q.pars /\ p.keep = q.keep /\ p.entry = q.entry /\ p.copy = q.copy /\ p.fell = q.fell
        /\ p.was = q.was /\ p.alone = q.alone /\ p.clean = q.clean /\ p.gone = q.gone
    BY <1>2, <1>3 DEF Requested
  <2>2. Put(r, p)
    BY <1>5 DEF q, at
  <2> HIDE DEF p
  <2>3. Others(r) /\ requests'[r] = p
    BY <1>2, <2>1, <2>2, Puts DEF Gone
  <2> QED
    BY <1>5, <2>1, <2>3 DEF Snapped, Quietly, q, at
<1> HIDE DEF at, without
<1>6. \/ host' = host /\ Ill(r, without, "fault")
      \/ host.data = "none" /\ host' = host /\ Well(r, without)
      \/ host.data # "none" /\ host' = WithSnap(host) /\ Snapped(r)
  BY <1>2, <1>4, <1>5, DidIs, FailsIs
<1> QED
  BY <1>1, <1>6 DEF without

\* The parameters as an upgrade leaves them, and the compose file it renders.
Merged(r) == IF requests[r].pars = 0 THEN maps ELSE [maps EXCEPT ![requests[r].copy.map] = requests[r].pars]
Kept(h) == [h EXCEPT !.backup = h.compose]
Rewritten(r) == [Kept(host) EXCEPT !.compose = [version |-> requests[r].entry, pars |-> Merged(r)[requests[r].copy.map]]]
Panics(r) ==
  /\ Others(r) /\ events' = events \cup {"panic"}
  /\ \/ Gone(requests'[r], requests[r], "failed")
     \/ /\ Same(requests'[r], requests[r]) /\ requests'[r].at = "failed"
        /\ requests'[r].clean = requests[r].clean /\ requests'[r].gone = requests[r].gone

LEMMA RenderDoes ==
  ASSUME TypeOK, NEW r \in Requests, Sound(requests[r]), Render(r)
  PROVE  /\ requests[r].op = "upgrade" /\ requests[r].at = "render" /\ UNCHANGED <<app, saved>>
         /\ \/ UNCHANGED <<maps, host>> /\ Panics(r)
            \/ /\ maps' = Merged(r)
               /\ \/ host' = host /\ Well(r, "fail")
                  \/ host.compose # NoFile /\ host' = Rewritten(r) /\ Well(r, "pull")
                  \/ /\ host.compose # NoFile /\ host' = [Kept(host) EXCEPT !.compose = Torn]
                     /\ Ill(r, "fail", "fault") /\ ~requests'[r].clean
<1>1. requests[r].op = "upgrade" /\ requests[r].at = "render"
  BY Whose DEF Render, At
<1>2. \/ Goto(r, "failed") /\ events' = events \cup {"panic"} /\ UNCHANGED <<store, host, bounds>>
      \/ /\ maps' = Merged(r) /\ UNCHANGED <<app, saved>>
         /\ \/ Did(r, host, "fail")
            \/ host.compose # NoFile /\ Did(r, Rewritten(r), "pull")
            \/ host.compose # NoFile /\ host' = [Kept(host) EXCEPT !.compose = Torn]
               /\ Put(r, [requests[r] EXCEPT !.at = "fail", !.clean = FALSE]) /\ Fault("fault")
  BY DEF Render, Merged, Kept, Rewritten
<1>3. "fail" \in Steps /\ "pull" \in Steps /\ "failed" \in Steps
  BY DEF Steps
<1>4. CASE Goto(r, "failed") /\ events' = events \cup {"panic"} /\ UNCHANGED <<store, host, bounds>>
  <2> DEFINE p == [requests[r] EXCEPT !.at = "failed"]
  <2>1. p \in Requested /\ Same(p, requests[r]) /\ p.at = "failed" /\ p.clean = requests[r].clean /\ p.gone = requests[r].gone
    BY <1>3, Parts, Ats
  <2>2. Put(r, p)
    BY <1>4 DEF Goto
  <2> HIDE DEF p
  <2>3. Others(r) /\ (requests'[r] = p \/ Gone(requests'[r], p, p.at))
    BY <2>1, <2>2, Puts
  <2>4. Panics(r)
    BY <1>4, <2>1, <2>3 DEF Panics, Gone, Same
  <2> QED
    BY <1>1, <1>4, <2>4 DEF store
<1> HIDE DEF Outcome
<1>5. CASE /\ maps' = Merged(r) /\ UNCHANGED <<app, saved>>
           /\ \/ Did(r, host, "fail")
              \/ host.compose # NoFile /\ Did(r, Rewritten(r), "pull")
              \/ host.compose # NoFile /\ host' = [Kept(host) EXCEPT !.compose = Torn]
                 /\ Put(r, [requests[r] EXCEPT !.at = "fail", !.clean = FALSE]) /\ Fault("fault")
  BY <1>1, <1>3, <1>5, DidIs, Spoils DEF Fault
<1> QED
  BY <1>2, <1>4, <1>5

\* An upgrade that fell at a step, which it did by itself or with something going wrong.
FellTo(r, at) ==
  LET p == requests'[r]
      q == requests[r]
  IN  /\ Others(r)
      /\ \/ events' = events /\ p.gone = q.gone
         \/ events' = events \cup {"fault"}
      /\ p.at = "undo" /\ p.fell = at
      /\ p.op = q.op /\ p.pars = q.pars /\ p.keep = q.keep /\ p.entry = q.entry /\ p.copy = q.copy /\ p.snap = q.snap
      /\ p.was = q.was /\ p.alone = q.alone
      /\ p.clean => q.clean /\ ~p.gone

LEMMA FellIs ==
  ASSUME TypeOK, NEW r \in Requests, Sound(requests[r]), NEW at \in {"pull", "restart", "health"},
         Quietly, Put(r, [requests[r] EXCEPT !.at = "undo", !.fell = at])
  PROVE  FellTo(r, at) /\ events' = events /\ requests'[r].gone = requests[r].gone
<1> DEFINE q == requests[r]
           p == [q EXCEPT !.at = "undo", !.fell = at]
<1>1. q \in Requested /\ (q.clean => ~q.gone)
  BY Parts DEF Sound
<1>2. "undo" \in Steps /\ "undo" \notin Answers
  BY DEF Steps, Answers
<1>3. /\ p \in Requested /\ p.at = "undo" /\ p.fell = at /\ p.clean = q.clean /\ p.gone = q.gone
      /\ p.op = q.op /\ p.pars = q.pars /\ p.keep = q.keep /\ p.entry = q.entry /\ p.copy = q.copy
      /\ p.snap = q.snap /\ p.was = q.was /\ p.alone = q.alone
  BY <1>1, <1>2 DEF Requested
<1> HIDE DEF p
<1>4. Others(r) /\ requests'[r] = p
  BY <1>2, <1>3, Puts DEF Gone, p
<1> QED
  BY <1>1, <1>3, <1>4 DEF FellTo, Quietly

LEMMA FellMidwayIs ==
  ASSUME TypeOK, NEW r \in Requests, Sound(requests[r]), NEW gone \in BOOLEAN, NEW h, FellMidway(r, h, gone)
  PROVE  FellTo(r, "restart") /\ host' = h /\ "fault" \in events' /\ requests'[r].gone = gone
<1> DEFINE q == requests[r]
           b == q.clean /\ ~gone
           p == [q EXCEPT !.at = "undo", !.fell = "restart", !.gone = gone, !.clean = b]
<1>1. q \in Requested /\ q.clean \in BOOLEAN
  BY Parts
<1>2. "undo" \in Steps /\ "undo" \notin Answers
  BY DEF Steps, Answers
<1>3. b \in BOOLEAN /\ (b => q.clean /\ ~gone)
  BY <1>1
<1>4. Put(r, p) /\ Fault("fault") /\ host' = h
  BY DEF FellMidway
<1> HIDE DEF b
<1>5. /\ p \in Requested /\ p.at = "undo" /\ p.fell = "restart" /\ p.clean = b /\ p.gone = gone
      /\ p.op = q.op /\ p.pars = q.pars /\ p.keep = q.keep /\ p.entry = q.entry /\ p.copy = q.copy
      /\ p.snap = q.snap /\ p.was = q.was /\ p.alone = q.alone
  BY ZenonT(30), <1>1, <1>2, <1>3 DEF Requested
<1> HIDE DEF p
<1>6. Others(r) /\ requests'[r] = p
  BY <1>2, <1>4, <1>5, Puts DEF Gone
<1> QED
  BY <1>3, <1>4, <1>5, <1>6 DEF FellTo, Fault

LEMMA PullDoes ==
  ASSUME TypeOK, NEW r \in Requests, Sound(requests[r]), Pull(r)
  PROVE  /\ requests[r].op = "upgrade" /\ requests[r].at = "pull" /\ UNCHANGED <<store, host>>
         /\ Well(r, "restart") \/ FellTo(r, "pull")
<1>1. requests[r].op = "upgrade" /\ requests[r].at = "pull" /\ UNCHANGED store /\ "restart" \in Steps
  BY Whose DEF Pull, OnHost, At, Steps
<1>2. CASE Fell(r, "pull")
  BY <1>1, <1>2, FellIs DEF Fell
<1>3. CASE Did(r, host, "restart")
  BY <1>1, <1>3, DidIs
<1> QED
  BY <1>1, <1>2, <1>3 DEF Pull

LEMMA RestartDoes ==
  ASSUME TypeOK, NEW r \in Requests, Sound(requests[r]), Restart(r), requests[r].op # "upgrade"
  PROVE  LET good == IF requests[r].op = "restart" THEN "ok" ELSE "done"
             bad == IF requests[r].op = "restart" THEN "failed" ELSE "fail"
         IN  /\ requests[r].op \in {"restart", "rollback"} /\ requests[r].at = "restart" /\ UNCHANGED store
             /\ \/ Usable(host) /\ Outcome(r, Restarted(host), good, RestartLeft(host), bad)
                \/ ~Usable(host) /\ host' = Restarted(host) /\ Well(r, bad)
<1> DEFINE good == IF requests[r].op = "restart" THEN "ok" ELSE "done"
           bad == IF requests[r].op = "restart" THEN "failed" ELSE "fail"
<1>1. requests[r].op \in {"restart", "rollback"} /\ requests[r].at = "restart" /\ UNCHANGED store
  BY Whose DEF Restart, OnHost, At
<1>2. good \in Steps /\ bad \in Steps
  BY DEF Steps
<1>3. IF Usable(host) THEN \E h \in Halfway(Stopped(host)) : Bound(r, Restarted(host), h, good, bad)
      ELSE Did(r, Restarted(host), bad)
  BY DEF Restart, Op
<1> HIDE DEF good, bad
<1>4. ASSUME NEW h \in Halfway(Stopped(host)), Bound(r, Restarted(host), h, good, bad)
      PROVE  Outcome(r, Restarted(host), good, RestartLeft(host), bad)
  BY <1>2, <1>4, LeftIs DEF RestartLeft
<1>5. \/ Usable(host) /\ Outcome(r, Restarted(host), good, RestartLeft(host), bad)
      \/ ~Usable(host) /\ host' = Restarted(host) /\ Well(r, bad)
  BY <1>2, <1>3, <1>4, DidIs
<1> QED
  BY <1>1, <1>5 DEF good, bad

LEMMA UpRestartDoes ==
  ASSUME TypeOK, NEW r \in Requests, Sound(requests[r]), Restart(r), requests[r].op = "upgrade"
  PROVE  /\ requests[r].at = "restart" /\ UNCHANGED store
         /\ \/ Usable(host) /\ host' = Restarted(host) /\ Well(r, "health")
            \/ /\ FellTo(r, "restart")
               /\ \/ requests[r].gone /\ host' = host
                  \/ Usable(host) /\ host' \in RestartLeft(host) /\ "fault" \in events'
                  \/ ~Usable(host) /\ host' = Restarted(host)
                  \/ host' \in {host, Restarted(host)} /\ "fault" \in events' /\ requests'[r].gone
<1>1. requests[r].at = "restart" /\ UNCHANGED store /\ "health" \in Steps
  BY DEF Restart, OnHost, At, Steps
<1>2. IF requests[r].gone THEN Fell(r, "restart")
      ELSE \/ Usable(host) /\ Did(r, Restarted(host), "health")
           \/ Usable(host) /\ \E h \in Halfway(Stopped(host)) : FellMidway(r, h, FALSE)
           \/ ~Usable(host) /\ host' = Restarted(host) /\ Quietly
              /\ Put(r, [requests[r] EXCEPT !.at = "undo", !.fell = "restart"])
           \/ \E h \in {host, Restarted(host)} : FellMidway(r, h, TRUE)
  BY DEF Restart, Op
<1>3. CASE requests[r].gone /\ Fell(r, "restart")
  BY <1>1, <1>3, FellIs DEF Fell
<1>4. CASE Usable(host) /\ Did(r, Restarted(host), "health")
  BY <1>1, <1>4, DidIs
<1>5. ASSUME Usable(host), NEW h \in Halfway(Stopped(host)), FellMidway(r, h, FALSE)
      PROVE  FellTo(r, "restart") /\ host' \in RestartLeft(host) /\ "fault" \in events'
  <2>1. h \in RestartLeft(host)
    BY <1>5 DEF RestartLeft
  <2>2. FellTo(r, "restart") /\ host' = h /\ "fault" \in events'
    BY <1>5, FellMidwayIs
  <2> QED
    BY <2>1, <2>2
<1>6. CASE ~Usable(host) /\ host' = Restarted(host) /\ Quietly /\ Put(r, [requests[r] EXCEPT !.at = "undo", !.fell = "restart"])
  BY <1>1, <1>6, FellIs
<1>7. ASSUME NEW h \in {host, Restarted(host)}, FellMidway(r, h, TRUE)
      PROVE  /\ FellTo(r, "restart")
             /\ host' \in {host, Restarted(host)} /\ "fault" \in events' /\ requests'[r].gone
  BY <1>7, FellMidwayIs
<1> QED
  BY <1>1, <1>2, <1>3, <1>4, <1>5, <1>6, <1>7

LEMMA HealthDoes ==
  ASSUME TypeOK, NEW r \in Requests, Sound(requests[r]), Health(r)
  PROVE  /\ requests[r].op = "upgrade" /\ requests[r].at = "health" /\ UNCHANGED <<store, host>>
         /\ (host.unit.up /\ Well(r, "finish")) \/ FellTo(r, "health")
<1>1. requests[r].op = "upgrade" /\ requests[r].at = "health" /\ UNCHANGED store /\ "finish" \in Steps
  BY Whose DEF Health, OnHost, At, Steps
<1>2. CASE Fell(r, "health")
  BY <1>1, <1>2, FellIs DEF Fell
<1>3. CASE host.unit.up /\ Did(r, host, "finish")
  BY <1>1, <1>3, DidIs
<1> QED
  BY <1>1, <1>2, <1>3 DEF Health

LEMMA UndoDoes ==
  ASSUME TypeOK, NEW r \in Requests, Sound(requests[r]), Undo(r)
  PROVE  LET next == IF requests[r].fell = "pull" THEN "fail" ELSE "save"
         IN  /\ requests[r].op = "upgrade" /\ requests[r].at = "undo" /\ UNCHANGED store
             /\ \/ host.backup = NoFile /\ host' = host /\ Well(r, next)
                \/ host.backup # NoFile /\ host' = [host EXCEPT !.compose = host.backup] /\ Well(r, next)
                \/ host' \in {host, [host EXCEPT !.compose = Torn]} /\ Ill(r, next, "fault")
<1> DEFINE next == IF requests[r].fell = "pull" THEN "fail" ELSE "save"
<1>1. requests[r].op = "upgrade" /\ requests[r].at = "undo" /\ UNCHANGED store /\ next \in Steps
  BY Whose DEF Undo, OnHost, At, Steps
<1>2. IF host.backup = NoFile THEN Did(r, host, next)
      ELSE \/ Did(r, [host EXCEPT !.compose = host.backup], next)
           \/ \E h \in {host, [host EXCEPT !.compose = Torn]} : Fails(r, h, next)
  BY DEF Undo
<1> HIDE DEF next
<1>3. \/ host.backup = NoFile /\ host' = host /\ Well(r, next)
      \/ host.backup # NoFile /\ host' = [host EXCEPT !.compose = host.backup] /\ Well(r, next)
      \/ host' \in {host, [host EXCEPT !.compose = Torn]} /\ Ill(r, next, "fault")
  BY <1>1, <1>2, DidIs, FailsIs
<1> QED
  BY <1>1, <1>3 DEF next

\* Where the script of a request ends, and where it goes when it fails.
OnError(q) == IF q.op = "upgrade" /\ q.fell # "restart" THEN "again" ELSE "fail"
AfterAll(q) == IF q.op = "rollback" THEN "restart" ELSE OnError(q)
HasSnap(q, h) == \E s \in h.snaps : s.no = q.snap
TheSnap(q, h) == CHOOSE s \in h.snaps : s.no = q.snap

LEMMA ScriptIs ==
  ASSUME TypeOK, NEW r \in Requests, Sound(requests[r]), requests[r].op \in {"rollback", "upgrade"}, NEW done,
         NEW next \in {"remove", "restore", "end"}, Script(r, done, next)
  PROVE  LET good == IF next = "end" THEN AfterAll(requests[r]) ELSE next
         IN  \/ HasSnap(requests[r], host) /\ Outcome(r, done, good, {host, done}, OnError(requests[r]))
             \/ ~HasSnap(requests[r], host) /\ host' = host /\ Well(r, OnError(requests[r]))
<1> DEFINE q == requests[r]
           good == IF next = "end" THEN AfterAll(q) ELSE next
           bad == OnError(q)
<1>1. good \in Steps /\ bad \in Steps
  BY DEF Steps, AfterAll, OnError
<1>2. IF HasSnap(q, host) THEN Bound(r, done, host, good, bad) ELSE Did(r, host, bad)
  <2> DEFINE after == IF q.op = "rollback" THEN "restart" ELSE IF q.fell = "restart" THEN "fail" ELSE "again"
             error == IF q.op = "rollback" THEN "fail" ELSE after
  <2>1. after = AfterAll(q) /\ error = bad
    BY DEF AfterAll, OnError
  <2>2. IF HasSnap(q, host) THEN Bound(r, done, host, IF next = "end" THEN after ELSE next, error) ELSE Did(r, host, error)
    BY DEF Script, HasSnap, Op
  <2> HIDE DEF after, error, bad
  <2> QED
    BY <2>1, <2>2
<1> HIDE DEF good, bad
<1>3. \/ HasSnap(q, host) /\ Outcome(r, done, good, {host, done}, bad)
      \/ ~HasSnap(q, host) /\ host' = host /\ Well(r, bad)
  BY <1>1, <1>2, BoundIs, DidIs DEF Outcome
<1> QED
  BY <1>3 DEF good, bad

LEMMA SaveDoes ==
  ASSUME TypeOK, NEW r \in Requests, Sound(requests[r]), SaveData(r)
  PROVE  LET done == IF host.data = "none" THEN host ELSE WithSnap(host)
         IN  /\ requests[r].op \in {"rollback", "upgrade"} /\ requests[r].at = "save" /\ UNCHANGED store
             /\ \/ HasSnap(requests[r], host) /\ Outcome(r, done, "remove", {host, done}, OnError(requests[r]))
                \/ ~HasSnap(requests[r], host) /\ host' = host /\ Well(r, OnError(requests[r]))
<1> DEFINE done == IF host.data = "none" THEN host ELSE WithSnap(host)
<1>1. requests[r].op \in {"rollback", "upgrade"} /\ requests[r].at = "save" /\ UNCHANGED store
  BY Whose DEF SaveData, OnHost, At
<1>2. Script(r, done, "remove")
  BY DEF SaveData
<1> HIDE DEF done
<1>3. \/ HasSnap(requests[r], host) /\ Outcome(r, done, "remove", {host, done}, OnError(requests[r]))
      \/ ~HasSnap(requests[r], host) /\ host' = host /\ Well(r, OnError(requests[r]))
  BY <1>1, <1>2, ScriptIs
<1> QED
  BY <1>1, <1>3 DEF done

LEMMA RemoveDoes ==
  ASSUME TypeOK, NEW r \in Requests, Sound(requests[r]), RemoveData(r)
  PROVE  LET done == [host EXCEPT !.data = "none", !.unit.attached = FALSE]
         IN  /\ requests[r].op \in {"rollback", "upgrade"} /\ requests[r].at = "remove" /\ UNCHANGED store
             /\ \/ HasSnap(requests[r], host) /\ Outcome(r, done, "restore", {host, done}, OnError(requests[r]))
                \/ ~HasSnap(requests[r], host) /\ host' = host /\ Well(r, OnError(requests[r]))
<1> DEFINE done == [host EXCEPT !.data = "none", !.unit.attached = FALSE]
<1>1. requests[r].op \in {"rollback", "upgrade"} /\ requests[r].at = "remove" /\ UNCHANGED store
  BY Whose DEF RemoveData, OnHost, At
<1>2. Script(r, done, "restore")
  BY DEF RemoveData
<1> HIDE DEF done
<1>3. \/ HasSnap(requests[r], host) /\ Outcome(r, done, "restore", {host, done}, OnError(requests[r]))
      \/ ~HasSnap(requests[r], host) /\ host' = host /\ Well(r, OnError(requests[r]))
  BY <1>1, <1>2, ScriptIs
<1> QED
  BY <1>1, <1>3 DEF done

LEMMA RestoreDoes ==
  ASSUME TypeOK, NEW r \in Requests, Sound(requests[r]), RestoreData(r)
  PROVE  LET done == IF host.data = "none" THEN [host EXCEPT !.data = TheSnap(requests[r], host).data] ELSE host
         IN  /\ requests[r].op \in {"rollback", "upgrade"} /\ requests[r].at = "restore" /\ UNCHANGED store
             /\ \/ HasSnap(requests[r], host)
                   /\ Outcome(r, done, AfterAll(requests[r]), {host, done}, OnError(requests[r]))
                \/ ~HasSnap(requests[r], host) /\ host' = host /\ Well(r, OnError(requests[r]))
<1> DEFINE done == IF host.data = "none" THEN [host EXCEPT !.data = TheSnap(requests[r], host).data] ELSE host
<1>1. requests[r].op \in {"rollback", "upgrade"} /\ requests[r].at = "restore" /\ UNCHANGED store
  BY Whose DEF RestoreData, OnHost, At
<1>2. Script(r, done, "end")
  BY DEF RestoreData, TheSnap
<1> HIDE DEF done
<1>3. \/ HasSnap(requests[r], host) /\ Outcome(r, done, AfterAll(requests[r]), {host, done}, OnError(requests[r]))
      \/ ~HasSnap(requests[r], host) /\ host' = host /\ Well(r, OnError(requests[r]))
  BY <1>1, <1>2, ScriptIs
<1> QED
  BY <1>1, <1>3 DEF done

LEMMA AgainDoes ==
  ASSUME TypeOK, NEW r \in Requests, Sound(requests[r]), Again(r)
  PROVE  /\ requests[r].op = "upgrade" /\ requests[r].at = "again" /\ UNCHANGED store
         /\ \/ Usable(host) /\ Outcome(r, Restarted(host), "fail", RestartLeft(host), "fail")
            \/ ~Usable(host) /\ host' = Restarted(host) /\ Well(r, "fail")
<1>1. requests[r].op = "upgrade" /\ requests[r].at = "again" /\ UNCHANGED store /\ "fail" \in Steps
  BY Whose DEF Again, OnHost, At, Steps
<1>2. IF Usable(host) THEN \E h \in Halfway(Stopped(host)) : Bound(r, Restarted(host), h, "fail", "fail")
      ELSE Did(r, Restarted(host), "fail")
  BY DEF Again
<1>3. ASSUME NEW h \in Halfway(Stopped(host)), Bound(r, Restarted(host), h, "fail", "fail")
      PROVE  Outcome(r, Restarted(host), "fail", RestartLeft(host), "fail")
  BY <1>1, <1>3, LeftIs DEF RestartLeft
<1> QED
  BY <1>1, <1>2, <1>3, DidIs

\* A snapshot chosen by its number is the one of it.
LEMMA TheSnapIs ==
  ASSUME NEW q, NEW h, GoodHost(h), HasSnap(q, h)
  PROVE  /\ TheSnap(q, h) \in h.snaps /\ TheSnap(q, h).no = q.snap /\ TheSnap(q, h).data \in Contents \ {"none"}
         /\ \A s \in h.snaps : s.no = q.snap => s = TheSnap(q, h)
<1>1. TheSnap(q, h) \in h.snaps /\ TheSnap(q, h).no = q.snap
  BY DEF HasSnap, TheSnap
<1>2. h.snaps \subseteq [no : Nat \ {0}, data : Contents \ {"none"}]
  BY HostParts DEF GoodHost
<1>3. TheSnap(q, h).data \in Contents \ {"none"}
  BY <1>1, <1>2
<1> QED
  BY <1>1, <1>3 DEF GoodHost

FirstOf(op) == CASE op \in {"install", "upgrade"} -> "check" [] op \in {"start", "stop", "rollback"} -> "mark"
                 [] op = "restart" -> "restart" [] op = "delete" -> "stop"

\* What is kept of the requests that another one comes to.
Met(p, q) ==
  /\ p.op = q.op /\ p.at = q.at /\ p.copy = q.copy /\ p.entry = q.entry /\ p.pars = q.pars /\ p.keep = q.keep
  /\ p.snap = q.snap /\ p.gone = q.gone /\ p.fell = q.fell /\ p.alone = FALSE /\ p.clean = FALSE

LEMMA FirstIs ==
  ASSUME NEW op \in Ops
  PROVE  First[op] = FirstOf(op) /\ FirstOf(op) \in Steps \ Answers
<1>1. CASE op \in {"install", "upgrade", "start", "stop"}
  BY <1>1 DEF First, FirstOf, Steps, Answers
<1>2. CASE op \in {"restart", "delete", "rollback"}
  BY <1>2 DEF First, FirstOf, Steps, Answers
<1> QED
  BY <1>1, <1>2 DEF Ops

LEMMA MetIs ==
  ASSUME NEW q \in Requested
  PROVE  LET p == [q EXCEPT !.alone = FALSE, !.was = NoHost, !.clean = FALSE]
         IN  p \in Requested /\ Met(p, q) /\ (q = Idle => p = Idle)
<1> DEFINE p == [q EXCEPT !.alone = FALSE, !.was = NoHost, !.clean = FALSE]
<1>1. NoHost \in Hosts
  BY NoHostIs DEF GoodHost
<1>2. p \in Requested /\ Met(p, q)
  BY <1>1 DEF Requested, Met
<1>3. [Idle EXCEPT !.alone = FALSE, !.was = NoHost, !.clean = FALSE] = Idle
  <2>1. Idle.was = NoHost
    BY DEF Idle
  <2> QED
    BY <2>1, IdleIs DEF Requested
<1> QED
  BY <1>2, <1>3

LEMMA ArriveDoes ==
  ASSUME TypeOK, AllSound, NEW r \in Requests, Arrive(r)
  PROVE  LET p == requests'[r]
         IN  /\ requests[r] = Idle /\ UNCHANGED <<store, host>> /\ events \subseteq events'
             /\ requests' \in [Requests -> Requested]
             /\ p.op \in Ops /\ p.at = FirstOf(p.op) /\ p.copy = NoApp /\ p.entry = "none" /\ p.gone = FALSE
             /\ p.fell = "none"
             /\ p.clean => p.op = "upgrade"
             /\ p.alone => Busy = {} /\ (p.op \in Compared => p.was = host)
             /\ \A s \in Requests \ {r} : Met(requests'[s], requests[s]) /\ (requests[s] = Idle => requests'[s] = Idle)
             /\ events' \cap {"overlap", "restart of none"} = {} =>
                  /\ Busy = {} \/ (p.op \notin {"install", "delete"} /\ \A s \in Busy : Op(s) \notin {"install", "delete"})
                  /\ p.op = "restart" => app # NoApp
<1>1. PICK op \in Ops, i \in Pars, n \in {0} \cup {s.no : s \in host.snaps}, keep \in BOOLEAN :
        /\ i \in Inputs(op)
        /\ n # 0 => op = "rollback"
        /\ keep => op = "delete"
        /\ requests' = [q \in Requests |->
             IF q = r THEN [Idle EXCEPT !.op = op, !.at = First[op], !.pars = i, !.snap = n, !.keep = keep,
                                        !.was = IF op \in Compared /\ Busy = {} THEN host ELSE NoHost,
                                        !.alone = (Busy = {}), !.clean = (op = "upgrade")]
             ELSE [requests[q] EXCEPT !.alone = FALSE, !.was = NoHost, !.clean = FALSE]]
        /\ events' = events \cup
             IF Busy # {} /\ (op \in {"install", "delete"} \/ \E q \in Busy : Op(q) \in {"install", "delete"})
               THEN {"overlap"} ELSE IF op = "restart" /\ app = NoApp THEN {"restart of none"} ELSE {}
  BY Zenon DEF Arrive
<1>2. requests[r] = Idle /\ UNCHANGED <<store, host>>
  BY Whose DEF Arrive, AllSound
<1> DEFINE b == Busy = {}
           c == op = "upgrade"
           w == IF op \in Compared /\ b THEN host ELSE NoHost
           f == First[op]
           p == [Idle EXCEPT !.op = op, !.at = f, !.pars = i, !.snap = n, !.keep = keep, !.was = w,
                             !.alone = b, !.clean = c]
<1>3. b \in BOOLEAN /\ c \in BOOLEAN
  OBVIOUS
<1>4. w \in Hosts /\ n \in Nat /\ f \in Steps /\ f = FirstOf(op)
  <2>1. NoHost \in Hosts /\ host \in Hosts
    BY NoHostIs DEF GoodHost, TypeOK
  <2>2. host.snaps \subseteq [no : Nat \ {0}, data : Contents \ {"none"}]
    BY <2>1, HostParts
  <2> QED
    BY <2>1, <2>2, FirstIs
<1>5. requests'[r] = p
  BY <1>1
<1> HIDE DEF w, c, b, f
<1>6. /\ p \in Requested /\ p.op = op /\ p.at = f /\ p.copy = NoApp /\ p.entry = "none" /\ p.gone = FALSE /\ p.fell = "none"
      /\ p.alone = b /\ p.clean = c /\ p.was = w
  <2>1. p \in Requested /\ p.entry = Idle.entry /\ p.copy = Idle.copy /\ p.gone = Idle.gone /\ p.fell = Idle.fell
    BY ZenonT(30), <1>3, <1>4, IdleIs DEF Requested
  <2>2. p.op = op /\ p.at = f /\ p.alone = b /\ p.clean = c /\ p.was = w
    BY ZenonT(30), IdleIs DEF Requested
  <2>3. Idle.entry = "none" /\ Idle.copy = NoApp /\ Idle.gone = FALSE /\ Idle.fell = "none"
    BY DEF Idle
  <2> HIDE DEF p
  <2> QED
    BY <2>1, <2>2, <2>3
<1> HIDE DEF p
<1>7. \A s \in Requests \ {r} : requests'[s] \in Requested /\ Met(requests'[s], requests[s])
                                /\ (requests[s] = Idle => requests'[s] = Idle)
  BY <1>1, MetIs, Parts
<1>8. requests' \in [Requests -> Requested]
  BY <1>1, <1>5, <1>6, <1>7
<1>9. events \subseteq events'
  BY <1>1
<1>10. events' \cap {"overlap", "restart of none"} = {} =>
         /\ Busy = {} \/ (op \notin {"install", "delete"} /\ \A s \in Busy : Op(s) \notin {"install", "delete"})
         /\ op = "restart" => app # NoApp
  BY <1>1
<1>11. (b => Busy = {}) /\ (b /\ op \in Compared => w = host) /\ (c => op = "upgrade")
  BY DEF b, c, w
<1> QED
  BY <1>2, <1>4, <1>5, <1>6, <1>7, <1>8, <1>9, <1>10, <1>11

------------------------------------------------------------------------------
(* Types.                                                                      *)

StoreTyped ==
  /\ maps' \in Seq(Pars) /\ Len(maps') >= Len(maps) /\ app' \in Records(maps')
  /\ saved'.pars \in Pars /\ saved'.rec \in [status : Statuses, version : Known, map : Nat] \cup {NoApp}

LEMMA RecordIs ==
  ASSUME NEW m \in Seq(Pars), NEW a \in Records(m)
  PROVE  /\ a # NoApp => a \in [status : Statuses, version : Known, map : 1..Len(m)]
         /\ a \in [status : Statuses, version : Known, map : Nat] \cup {NoApp}
         /\ Form(a, m).rec = a /\ Form(a, m).pars \in Pars
         /\ a.version \in Known \cup {"none"} /\ a.status \in Statuses \cup {"none"}
         /\ a.status = "none" => a = NoApp
<1>1. a # NoApp => a \in [status : Statuses, version : Known, map : 1..Len(m)]
  BY DEF Records
<1>2. Len(m) \in Nat /\ \A i \in 1..Len(m) : m[i] \in Pars /\ i \in Nat
  OBVIOUS
<1>3. a \in [status : Statuses, version : Known, map : Nat] \cup {NoApp}
  BY <1>1, <1>2
<1>4. Form(a, m).rec = a /\ Form(a, m).pars \in Pars
  <2>1. CASE a = NoApp
    BY <2>1 DEF Form, Pars
  <2>2. CASE a # NoApp
    BY <1>1, <1>2, <2>2 DEF Form
  <2> QED
    BY <2>1, <2>2
<1>5. a.version \in Known \cup {"none"} /\ a.status \in Statuses \cup {"none"} /\ (a.status = "none" => a = NoApp)
  BY <1>1 DEF NoApp, Statuses
<1> QED
  BY <1>1, <1>3, <1>4, <1>5

LEMMA StatusOf ==
  ASSUME NEW m \in Seq(Pars), NEW a \in Records(m), a # NoApp, NEW s \in Statuses
  PROVE  LET b == [a EXCEPT !.status = s]
         IN  b \in Records(m) /\ b.status = s /\ b.version = a.version /\ b.map = a.map /\ b # NoApp
<1>1. a \in [status : Statuses, version : Known, map : 1..Len(m)]
  BY RecordIs
<1>2. "none" \notin Statuses /\ NoApp.status = "none"
  BY DEF Statuses, NoApp
<1> QED
  BY <1>1, <1>2 DEF Records

LEMMA UpgradedOf ==
  ASSUME NEW m \in Seq(Pars), NEW a \in Records(m), a # NoApp
  PROVE  LET b == [a EXCEPT !.version = Newest, !.status = "running"]
         IN  b \in Records(m) /\ b.status = "running" /\ b.version = Newest /\ b # NoApp
<1>1. a \in [status : Statuses, version : Known, map : 1..Len(m)]
  BY RecordIs
<1>2. "running" \in Statuses /\ NoApp.status = "none" /\ Newest \in Known
  BY Catalog DEF Statuses, NoApp
<1> QED
  BY <1>1, <1>2 DEF Records

LEMMA AddedOf ==
  ASSUME NEW m \in Seq(Pars), NEW p \in Pars, NEW v \in Known
  PROVE  LET n == Append(m, p)
             b == [status |-> "running", version |-> v, map |-> Len(n)]
         IN  n \in Seq(Pars) /\ Len(n) >= Len(m) /\ b \in Records(n) /\ b.status = "running" /\ b.version = v /\ b # NoApp
<1>1. Append(m, p) \in Seq(Pars) /\ Len(Append(m, p)) = Len(m) + 1 /\ Len(m) \in Nat
  OBVIOUS
<1>2. "running" \in Statuses /\ NoApp.status = "none"
  BY DEF Statuses, NoApp
<1> QED
  BY <1>1, <1>2 DEF Records

LEMMA SavingTyped ==
  ASSUME TypeOK, NEW r \in Requests, NEW m \in Seq(Pars), Len(m) >= Len(maps), NEW a \in Records(m), NEW good, NEW bad,
         Saving(r, a, m, good, bad)
  PROVE  StoreTyped /\ requests' \in [Requests -> Requested]
<1>1. app' = a /\ maps' = m /\ (saved' = Form(a, m) \/ saved' = saved) /\ requests' \in [Requests -> Requested]
  BY DEF Saving, Well, Ill, Others
<1> QED
  BY <1>1, RecordIs DEF StoreTyped, TypeOK

LEMMA StoreKept ==
  ASSUME TypeOK, UNCHANGED store
  PROVE  StoreTyped
BY DEF TypeOK, StoreTyped, store

LEMMA MoreTyped ==
  ASSUME TypeOK, StoreTyped, requests' \in [Requests -> Requested], GoodHost(host')
  PROVE  TypeOK'
<1>1. Len(maps) \in Nat /\ Len(maps') \in Nat /\ Len(maps') >= Len(maps)
  BY DEF TypeOK, StoreTyped
<1>2. Records(maps) \subseteq Records(maps')
  BY <1>1 DEF Records
<1>3. Requested \subseteq Requested'
  BY <1>2 DEF Requested
<1>4. requests' \in [Requests -> Requested']
  BY <1>3
<1> QED
  BY <1>4 DEF TypeOK, StoreTyped, GoodHost

\* The hosts that a command may leave.
LEMMA OutcomeTyped ==
  ASSUME NEW r \in Requests, NEW done, NEW good, NEW left, NEW bad, GoodHost(host), GoodHost(done),
         \A h \in left : GoodHost(h), Outcome(r, done, good, left, bad)
  PROVE  GoodHost(host') /\ requests' \in [Requests -> Requested]
BY DEF Outcome, Well, Ill, Others

LEMMA MergedIs ==
  ASSUME TypeOK, NEW r \in Requests, Sound(requests[r]), requests[r].op = "upgrade", requests[r].at = "render"
  PROVE  /\ Merged(r) \in Seq(Pars) /\ Len(Merged(r)) = Len(maps)
         /\ [version |-> requests[r].entry, pars |-> Merged(r)[requests[r].copy.map]] \in Composes \ {NoFile, Torn}
<1> DEFINE i == requests[r].copy.map
           p == requests[r].pars
           m == Merged(r)
<1>1. requests[r].copy \in Records(maps) /\ p \in Pars /\ maps \in Seq(Pars)
  BY Parts DEF TypeOK
<1>2. requests[r].copy # NoApp /\ requests[r].entry \in Known
  BY DEF Sound, Answers
<1>3. i \in 1..Len(maps)
  BY <1>1, <1>2, RecordIs
<1> HIDE DEF i, p
<1>4. m = IF p = 0 THEN maps ELSE [maps EXCEPT ![i] = p]
  BY DEF Merged, i, p
<1> HIDE DEF m
<1>5. m \in Seq(Pars) /\ Len(m) = Len(maps)
  BY <1>1, <1>3, <1>4
<1>6. m[i] \in Pars
  BY <1>3, <1>5
<1>7. [version |-> requests[r].entry, pars |-> m[i]] \in Composes \ {NoFile, Torn}
  BY <1>2, <1>6, FileKinds
<1> QED
  BY <1>5, <1>7 DEF m, i

LEMMA KeptIs ==
  ASSUME NEW h, GoodHost(h), NEW c \in Composes
  PROVE  LET g == [Kept(h) EXCEPT !.compose = c]
         IN  /\ GoodHost(g) /\ g.compose = c /\ g.backup = h.compose /\ g.data = h.data /\ g.unit = h.unit /\ g.snaps = h.snaps
<1>1. /\ GoodHost(Kept(h)) /\ Kept(h).backup = h.compose /\ Kept(h).data = h.data /\ Kept(h).unit = h.unit
      /\ Kept(h).snaps = h.snaps
  BY HostParts, NewBackup DEF Kept, GoodHost
<1> QED
  BY <1>1, NewCompose

LEMMA NoFiles ==
  ASSUME NEW h, GoodHost(h)
  PROVE  LET g == [h EXCEPT !.compose = NoFile, !.backup = NoFile]
         IN  /\ GoodHost(g) /\ g.compose = NoFile /\ g.backup = NoFile /\ g.data = h.data /\ g.unit = h.unit /\ g.snaps = h.snaps
<1> DEFINE k == [h EXCEPT !.compose = NoFile]
           g == [k EXCEPT !.backup = NoFile]
<1>1. GoodHost(k) /\ k.compose = NoFile /\ k.data = h.data /\ k.unit = h.unit /\ k.snaps = h.snaps
  BY FileKinds, NewCompose
<1>2. g = [h EXCEPT !.compose = NoFile, !.backup = NoFile]
  BY DEF GoodHost, Hosts
<1> HIDE DEF k
<1>3. GoodHost(g) /\ g.compose = NoFile /\ g.backup = NoFile /\ g.data = h.data /\ g.unit = h.unit /\ g.snaps = h.snaps
  BY <1>1, FileKinds, NewBackup
<1> QED
  BY <1>2, <1>3

LEMMA MadeIs ==
  ASSUME NEW h, GoodHost(h)
  PROVE  LET g == [h EXCEPT !.data = IF @ = "none" THEN "empty" ELSE @]
         IN  GoodHost(g) /\ Unmoved(g, h) /\ g.data # "none" /\ g.unit = h.unit
<1> DEFINE d == IF h.data = "none" THEN "empty" ELSE h.data
<1>1. d \in Contents /\ d # "none"
  BY HostParts DEF GoodHost, Contents
<1>2. [h EXCEPT !.data = IF @ = "none" THEN "empty" ELSE @] = [h EXCEPT !.data = d]
  OBVIOUS
<1> HIDE DEF d
<1> QED
  BY <1>1, <1>2, NewData DEF Unmoved

LEMMA RestoredIs ==
  ASSUME NEW q, NEW h, GoodHost(h), HasSnap(q, h)
  PROVE  LET g == IF h.data = "none" THEN [h EXCEPT !.data = TheSnap(q, h).data] ELSE h
         IN  /\ GoodHost(g) /\ Unmoved(g, h) /\ g.data # "none" /\ g.unit = h.unit
             /\ h.data = "none" => g.data = TheSnap(q, h).data
<1>1. TheSnap(q, h).data \in Contents \ {"none"}
  BY TheSnapIs
<1> QED
  BY <1>1, NewData DEF Unmoved

LEMMA GoodIs ==
  ASSUME TypeOK
  PROVE  GoodHost(host) /\ app \in Records(maps) /\ maps \in Seq(Pars) /\ Len(maps) >= Len(maps)
BY DEF TypeOK, GoodHost

LEMMA InstallTyped ==
  ASSUME TypeOK, NEW r \in Requests, Sound(requests[r]), Check(r) \/ Make(r) \/ Write(r) \/ Snap(r) \/ Add(r) \/ CleanUp(r)
  PROVE  TypeOK'
<1> USE GoodIs
<1>1. CASE Check(r)
  BY <1>1, CheckDoes, StoreKept, MoreTyped DEF Chosen, Well, Others, GoodHost, store
<1>2. CASE Make(r)
  <2>1. GoodHost(host') /\ requests' \in [Requests -> Requested]
    BY <1>2, MakeDoes, MadeIs, OutcomeTyped
  <2> QED
    BY <1>2, <2>1, MakeDoes, StoreKept, MoreTyped
<1>3. CASE Write(r)
  <2> DEFINE c == [version |-> requests[r].entry, pars |-> requests[r].pars]
  <2>1. c \in Composes
    BY <1>3, WriteDoes, Parts, FileKinds DEF Sound, Answers
  <2> DEFINE written == [host EXCEPT !.compose = c]
  <2>2. GoodHost(written) /\ GoodHost(RemoveAll(host))
    BY <2>1, NewCompose, RemoveAllIs
  <2>4. Outcome(r, written, "snap", {RemoveAll(host)}, "failed")
    BY <1>3, WriteDoes
  <2> HIDE DEF written
  <2>3. GoodHost(host') /\ requests' \in [Requests -> Requested]
    BY <2>2, <2>4, OutcomeTyped
  <2> QED
    BY <1>3, <2>3, WriteDoes, StoreKept, MoreTyped
<1>4. CASE Snap(r)
  BY <1>4, SnapDoes, WithSnapIs, StoreKept, MoreTyped DEF Snapped, Well, Ill, Others
<1>5. CASE Add(r)
  <2>1. CASE UNCHANGED store /\ Well(r, "stop")
    BY <1>5, <2>1, AddDoes, StoreKept, MoreTyped DEF Well, Others
  <2>2. CASE Saving(r, [status |-> "running", version |-> requests[r].entry, map |-> Len(Append(maps, requests[r].pars))],
                    Append(maps, requests[r].pars), "ok", "stop")
    <3>1. requests[r].pars \in Pars /\ requests[r].entry \in Known
      BY <1>5, AddDoes, Parts DEF Sound, Answers
    <3>2. StoreTyped /\ requests' \in [Requests -> Requested]
      BY <2>2, <3>1, AddedOf, SavingTyped
    <3> QED
      BY <1>5, <3>2, AddDoes, MoreTyped
  <2> QED
    BY <1>5, <2>1, <2>2, AddDoes
<1>6. CASE CleanUp(r)
  BY ZenonT(30), <1>6, CleanUpDoes, RemoveAllIs, StoreKept, MoreTyped DEF Well, Others
<1> QED
  BY <1>1, <1>2, <1>3, <1>4, <1>5, <1>6

LEMMA SimpleTyped ==
  ASSUME TypeOK, NEW r \in Requests, Sound(requests[r]),
         Start(r) \/ Stop(r) \/ Mark(r) \/ Fail(r) \/ Done(r) \/ Answer(r) \/ Files(r) \/ Drop(r) \/ Leave(r)
  PROVE  TypeOK'
<1> USE GoodIs
<1>1. CASE Start(r)
  <2>1. Usable(host) \/ host.unit.active => GoodHost(Started(host))
    BY StartedIs
  <2>2. Usable(host) \/ host.unit.active => \A h \in StartLeft(host) : GoodHost(h)
    BY StartLeftIs
  <2>3. GoodHost(host') /\ requests' \in [Requests -> Requested]
    BY <1>1, <2>1, <2>2, StartDoes DEF Outcome, Well, Ill, Others
  <2> QED
    BY <1>1, <2>3, StartDoes, StoreKept, MoreTyped
<1>2. CASE Stop(r)
  <2>1. GoodHost(Stopped(host))
    BY StoppedIs
  <2>2. GoodHost(host') /\ requests' \in [Requests -> Requested]
    BY <1>2, <2>1, StopDoes DEF Outcome, Well, Ill, Others
  <2> QED
    BY <1>2, <2>2, StopDoes, StoreKept, MoreTyped
<1>3. ASSUME NEW s \in Statuses, NEW good, NEW bad, app # NoApp, UNCHANGED host,
             Saving(r, [app EXCEPT !.status = s], maps, good, bad)
      PROVE  TypeOK'
  <2>1. [app EXCEPT !.status = s] \in Records(maps)
    BY <1>3, StatusOf
  <2>2. StoreTyped /\ requests' \in [Requests -> Requested]
    BY <1>3, <2>1, SavingTyped
  <2> QED
    BY <1>3, <2>2, MoreTyped
<1>4. CASE Mark(r)
  <2>1. MarkOf(requests[r].op) \in Statuses
    BY <1>4, MarkDoes DEF MarkOf, Statuses
  <2> QED
    BY <1>3, <1>4, <2>1, MarkDoes, StoreKept, MoreTyped DEF Well, Others
<1>5. CASE Fail(r)
  BY <1>3, <1>5, FailDoes, StoreKept, MoreTyped DEF Well, Others, Statuses
<1>6. CASE Done(r)
  <2>1. (IF requests[r].op = "stop" THEN "stopped" ELSE "running") \in Statuses
    BY DEF Statuses
  <2> QED
    BY <1>3, <1>6, <2>1, DoneDoes, StoreKept, MoreTyped DEF Well, Others
<1>7. CASE Answer(r)
  BY <1>7, AnswerDoes, StoreKept, MoreTyped DEF Others
<1>8. CASE Files(r)
  <2> DEFINE emptied == [RemoveAll(host) EXCEPT !.snaps = {}]
             part == [host EXCEPT !.compose = NoFile, !.backup = NoFile]
  <2>2. GoodHost(emptied) /\ GoodHost(RemoveAll(host)) /\ GoodHost(part)
    BY RemoveAllIs, NoFiles
  <2>3. host' \in {host, emptied, RemoveAll(host), part} /\ requests' \in [Requests -> Requested]
    BY <1>8, FilesDoes DEF Well, Ill, Others
  <2> HIDE DEF emptied, part
  <2>1. GoodHost(host') /\ requests' \in [Requests -> Requested]
    BY <2>2, <2>3
  <2> QED
    BY <1>8, <2>1, FilesDoes, StoreKept, MoreTyped
<1>9. CASE Drop(r)
  <2>1. NoApp \in Records(maps)
    BY DEF Records
  <2>2. StoreTyped /\ requests' \in [Requests -> Requested]
    BY <1>9, <2>1, DropDoes, SavingTyped, StoreKept DEF Well, Others
  <2> QED
    BY <1>9, <2>2, DropDoes, MoreTyped
<1>10. CASE Leave(r)
  BY <1>10, LeaveDoes, StoreKept, MoreTyped DEF Ill, Others
<1> QED
  BY <1>1, <1>2, <1>4, <1>5, <1>6, <1>7, <1>8, <1>9, <1>10

LEMMA UpgradeTyped ==
  ASSUME TypeOK, NEW r \in Requests, Sound(requests[r]),
         Render(r) \/ Pull(r) \/ Restart(r) \/ Health(r) \/ Undo(r) \/ Again(r) \/ Finish(r) \/ Tidy(r)
  PROVE  TypeOK'
<1> USE GoodIs
<1>1. CASE Render(r)
  <2>1. Merged(r) \in Seq(Pars) /\ Len(Merged(r)) = Len(maps) /\ GoodHost(Rewritten(r))
        /\ GoodHost([Kept(host) EXCEPT !.compose = Torn])
    BY <1>1, RenderDoes, MergedIs, KeptIs, FileKinds DEF Rewritten
  <2>2. GoodHost(host') /\ requests' \in [Requests -> Requested]
    BY <1>1, <2>1, RenderDoes DEF Panics, Well, Ill, Others
  <2>3. maps' \in Seq(Pars) /\ Len(maps') = Len(maps) /\ UNCHANGED <<app, saved>> /\ Len(maps) \in Nat
    BY <1>1, <2>1, RenderDoes
  <2>4. StoreTyped
    BY <2>3 DEF StoreTyped, TypeOK, Records
  <2> QED
    BY <2>2, <2>4, MoreTyped
<1>2. CASE Pull(r)
  BY <1>2, PullDoes, StoreKept, MoreTyped DEF Well, FellTo, Others
<1>3. CASE Restart(r)
  <2>1. GoodHost(Restarted(host)) /\ (Usable(host) => \A h \in RestartLeft(host) : GoodHost(h))
    BY RestartedIs, RestartLeftIs
  <2>2. GoodHost(host') /\ requests' \in [Requests -> Requested]
    BY <1>3, <2>1, RestartDoes, UpRestartDoes DEF Outcome, Well, Ill, FellTo, Others
  <2> QED
    BY <1>3, <2>2, RestartDoes, UpRestartDoes, StoreKept, MoreTyped
<1>4. CASE Health(r)
  BY <1>4, HealthDoes, StoreKept, MoreTyped DEF Well, FellTo, Others
<1>5. CASE Undo(r)
  <2>1. GoodHost([host EXCEPT !.compose = host.backup]) /\ GoodHost([host EXCEPT !.compose = Torn])
    BY HostParts, FileKinds, NewCompose DEF GoodHost
  <2>2. GoodHost(host') /\ requests' \in [Requests -> Requested]
    BY <1>5, <2>1, UndoDoes DEF Well, Ill, Others
  <2> QED
    BY <1>5, <2>2, UndoDoes, StoreKept, MoreTyped
<1>6. CASE Again(r)
  <2>1. GoodHost(Restarted(host)) /\ (Usable(host) => \A h \in RestartLeft(host) : GoodHost(h))
    BY RestartedIs, RestartLeftIs
  <2>2. GoodHost(host') /\ requests' \in [Requests -> Requested]
    BY <1>6, <2>1, AgainDoes DEF Outcome, Well, Ill, Others
  <2> QED
    BY <1>6, <2>2, AgainDoes, StoreKept, MoreTyped
<1>7. CASE Finish(r)
  <2>1. requests[r].copy \in Records(maps) /\ requests[r].copy # NoApp
    BY <1>7, FinishDoes, Parts DEF Sound, Answers
  <2>2. [requests[r].copy EXCEPT !.version = Newest, !.status = "running"] \in Records(maps)
    BY <2>1, UpgradedOf
  <2>3. StoreTyped /\ requests' \in [Requests -> Requested]
    BY <1>7, <2>2, FinishDoes, SavingTyped, StoreKept DEF Well, Others
  <2> QED
    BY <1>7, <2>3, FinishDoes, MoreTyped
<1>8. CASE Tidy(r)
  BY <1>8, TidyDoes, NewBackup, FileKinds, StoreKept, MoreTyped DEF Well, Others
<1> QED
  BY <1>1, <1>2, <1>3, <1>4, <1>5, <1>6, <1>7, <1>8

LEMMA ScriptTyped ==
  ASSUME TypeOK, NEW r \in Requests, Sound(requests[r]), SaveData(r) \/ RemoveData(r) \/ RestoreData(r)
  PROVE  TypeOK'
<1> USE GoodIs
<1>1. CASE SaveData(r)
  <2>1. GoodHost(IF host.data = "none" THEN host ELSE WithSnap(host))
    BY WithSnapIs
  <2>2. GoodHost(host') /\ requests' \in [Requests -> Requested]
    BY <1>1, <2>1, SaveDoes DEF Outcome, Well, Ill, Others
  <2> QED
    BY <1>1, <2>2, SaveDoes, StoreKept, MoreTyped
<1>2. CASE RemoveData(r)
  <2> DEFINE done == [host EXCEPT !.data = "none", !.unit.attached = FALSE]
  <2>2. GoodHost(done)
    BY RemovedIs
  <2>3. host' \in {host, done} /\ requests' \in [Requests -> Requested]
    BY <1>2, RemoveDoes DEF Outcome, Well, Ill, Others
  <2> HIDE DEF done
  <2>1. GoodHost(host') /\ requests' \in [Requests -> Requested]
    BY <2>2, <2>3
  <2> QED
    BY <1>2, <2>1, RemoveDoes, StoreKept, MoreTyped
<1>3. CASE RestoreData(r)
  <2>1. HasSnap(requests[r], host) =>
          GoodHost(IF host.data = "none" THEN [host EXCEPT !.data = TheSnap(requests[r], host).data] ELSE host)
    BY RestoredIs
  <2>2. GoodHost(host') /\ requests' \in [Requests -> Requested]
    BY <1>3, <2>1, RestoreDoes DEF Outcome, Well, Ill, Others
  <2> QED
    BY <1>3, <2>2, RestoreDoes, StoreKept, MoreTyped
<1> QED
  BY <1>1, <1>2, <1>3

LEMMA WritesDoes ==
  ASSUME TypeOK, AppWrites
  PROVE  LET v == host.unit.of.version
         IN  /\ host.unit.up /\ host.unit.attached /\ host.data # "none" /\ v \in Known
             /\ GoodHost(host') /\ Unmoved(host', host) /\ host'.unit = host.unit /\ host'.data = v
             /\ UNCHANGED <<store, requests, events>>
<1>1. host.unit.of \in Composes \ {Torn, NoFile}
  BY GoodIs, HostParts DEF GoodHost, AppWrites
<1>2. host.unit.of.version \in Known
  BY <1>1, FileKinds
<1> QED
  BY <1>2, GoodIs, NewData DEF AppWrites, Unmoved, Contents

LEMMA RestartsTyped ==
  ASSUME TypeOK, Restarts
  PROVE  TypeOK'
<1>1. requests' = [r \in Requests |-> Idle] /\ UNCHANGED host /\ saved' = Form(app', maps')
  BY DEF Restarts
<1>2. maps' \in Seq(Pars) /\ app' \in Records(maps')
  <2>1. CASE saved.rec = NoApp
    BY <2>1 DEF Restarts, Records
  <2>2. CASE saved.rec # NoApp
    <3>1. saved.rec \in [status : Statuses, version : Known, map : Nat] /\ saved.pars \in Pars
      BY <2>2 DEF TypeOK
    <3>2. app' = [saved.rec EXCEPT !.map = 1] /\ maps' = <<saved.pars>>
      BY <2>2 DEF Restarts
    <3>3. maps' \in Seq(Pars) /\ Len(maps') = 1
      BY <3>1, <3>2
    <3> QED
      BY <3>1, <3>2, <3>3 DEF Records
  <2> QED
    BY <2>1, <2>2
<1>3. saved'.pars \in Pars /\ saved'.rec \in [status : Statuses, version : Known, map : Nat] \cup {NoApp}
  BY <1>1, <1>2, RecordIs
<1>4. (Idle \in Requested)'
  <2>1. NoApp \in Records(maps') /\ NoHost \in Hosts
    BY NoHostIs DEF Records, GoodHost
  <2> QED
    BY <2>1 DEF Idle, Requested, Pars
<1>5. requests' \in [Requests -> Requested']
  BY <1>1, <1>4
<1> QED
  BY <1>1, <1>2, <1>3, <1>5 DEF TypeOK

LEMMA TypeStep ==
  ASSUME TypeOK, AllSound, Next
  PROVE  TypeOK'
<1>1. ASSUME NEW r \in Requests, Arrive(r)
      PROVE  TypeOK'
  BY <1>1, ArriveDoes, GoodIs, StoreKept, MoreTyped
<1>2. ASSUME NEW r \in Requests, Leave(r) \/ Run(r)
      PROVE  TypeOK'
  <2>1. Sound(requests[r])
    BY DEF AllSound
  <2> QED
    BY <1>2, <2>1, InstallTyped, SimpleTyped, UpgradeTyped, ScriptTyped DEF Run
<1>3. CASE AppWrites
  BY <1>3, WritesDoes, StoreKept, MoreTyped DEF TypeOK
<1>4. CASE SaveOther
  <2>1. StoreTyped
    BY <1>4, GoodIs, RecordIs DEF SaveOther, StoreTyped
  <2> QED
    BY <1>4, <2>1, GoodIs, MoreTyped DEF SaveOther, TypeOK
<1> QED
  BY <1>1, <1>2, <1>3, <1>4, RestartsTyped DEF Next

------------------------------------------------------------------------------
(* What a request knows at each step.                                          *)

Leads(q, at) ==
  /\ q.op # "none"
  /\ q.op = "install" => at \in {"check", "make", "write", "snap", "start", "add", "stop", "cleanup"} \cup Answers
  /\ q.op = "upgrade" => at \in {"check", "snap", "mark", "render", "pull", "restart", "health", "finish", "tidy", "fail"}
                                \cup Failing \cup Answers
  /\ q.op = "start" => at \in {"mark", "start", "done", "fail"} \cup Answers
  /\ q.op = "stop" => at \in {"mark", "stop", "done", "fail"} \cup Answers
  /\ q.op = "restart" => at \in {"restart"} \cup Answers
  /\ q.op = "delete" => at \in {"stop", "files", "drop"} \cup Answers
  /\ q.op = "rollback" => at \in {"mark", "save", "remove", "restore", "restart", "done", "fail"} \cup Answers
  /\ at \notin {"check"} \cup Answers => q.at \notin {"check"} \cup Answers
  /\ q.op = "upgrade" /\ at \in Failing => q.fell # "none"

LEMMA SoundOn ==
  ASSUME TypeOK, NEW r \in Requests, Sound(requests[r]), NEW at, NEW e, Well(r, at) \/ Ill(r, at, e), Leads(requests[r], at)
  PROVE  Sound(requests'[r])
<1>1. CASE requests'[r] = Idle
  BY <1>1, IdleIs
<1>2. CASE Same(requests'[r], requests[r]) /\ requests'[r].at = at
  <2>1. OnPath(requests'[r])
    BY <1>2 DEF OnPath, Same, Leads
  <2>2. requests'[r].clean => requests[r].clean /\ ~requests'[r].gone
    <3>1. Idle.clean = FALSE
      BY IdleIs
    <3>2. CASE Well(r, at)
      BY <3>1, <3>2 DEF Well, Gone, Sound
    <3>3. CASE Ill(r, at, e)
      BY <3>1, <3>3 DEF Ill, Gone
    <3> QED
      BY <3>2, <3>3
  <2> QED
    BY <1>2, <2>1, <2>2 DEF Sound, Same, Leads
<1> QED
  BY <1>1, <1>2 DEF Well, Ill, Gone

LEMMA SoundOut ==
  ASSUME TypeOK, NEW r \in Requests, Sound(requests[r]), NEW done, NEW good, NEW left, NEW bad,
         Outcome(r, done, good, left, bad), Leads(requests[r], good), Leads(requests[r], bad)
  PROVE  Sound(requests'[r])
<1>1. Well(r, good) \/ Ill(r, bad, "fault") \/ Well(r, bad)
  BY DEF Outcome
<1> QED
  BY <1>1, SoundOn

LEMMA SoundSaving ==
  ASSUME TypeOK, NEW r \in Requests, Sound(requests[r]), NEW a, NEW m, NEW good, NEW bad,
         Saving(r, a, m, good, bad), Leads(requests[r], good), Leads(requests[r], bad)
  PROVE  Sound(requests'[r])
<1>1. Well(r, good) \/ Ill(r, bad, "save failed")
  BY DEF Saving
<1> QED
  BY <1>1, SoundOn

LEMMA FellSound ==
  ASSUME TypeOK, NEW r \in Requests, Sound(requests[r]), requests[r].op = "upgrade", requests[r].at \notin {"check"} \cup Answers,
         NEW at \in {"pull", "restart", "health"}, FellTo(r, at)
  PROVE  Sound(requests'[r])
BY DEF FellTo, Sound, OnPath, Failing, Answers

LEMMA InstallSound ==
  ASSUME TypeOK, NEW r \in Requests, Sound(requests[r]),
         Check(r) \/ Make(r) \/ Write(r) \/ Snap(r) \/ Start(r) \/ Add(r) \/ Stop(r) \/ CleanUp(r)
  PROVE  Sound(requests'[r])
<1>1. CASE Check(r)
  <2>1. CASE Well(r, "failed")
    BY <1>1, <2>1, CheckDoes, SoundOn DEF Leads, Answers, Failing
  <2>2. CASE (requests[r].op = "install" <=> app = NoApp) /\ Chosen(r)
    BY <1>1, <2>2, CheckDoes DEF Chosen, Sound, OnPath, Answers, Failing
  <2> QED
    BY <1>1, <2>1, <2>2, CheckDoes
<1>2. CASE Make(r)
  <2>1. Leads(requests[r], "write") /\ Leads(requests[r], "failed")
    BY <1>2, MakeDoes DEF Leads, Answers
  <2> QED
    BY <1>2, <2>1, MakeDoes, SoundOut
<1>3. CASE Write(r)
  <2>1. Leads(requests[r], "snap") /\ Leads(requests[r], "failed")
    BY <1>3, WriteDoes DEF Leads, Answers
  <2> QED
    BY <1>3, <2>1, WriteDoes, SoundOut
<1>4. CASE Snap(r)
  <2>1. \A at \in {IF requests[r].op = "install" THEN "start" ELSE "failed"} : Leads(requests[r], at)
    BY <1>4, SnapDoes DEF Leads, Answers, Failing
  <2>2. CASE Snapped(r)
    BY <1>4, <2>2, SnapDoes DEF Snapped, Sound, OnPath, Answers, Failing
  <2> QED
    BY <1>4, <2>1, <2>2, SnapDoes, SoundOn
<1>5. CASE Start(r)
  <2> DEFINE good == IF requests[r].op = "install" THEN "add" ELSE "done"
             bad == IF requests[r].op = "install" THEN "cleanup" ELSE "fail"
  <2>1. Leads(requests[r], good) /\ Leads(requests[r], bad)
    BY <1>5, StartDoes DEF Leads, Answers
  <2>2. \/ Outcome(r, Started(host), good, StartLeft(host), bad)
        \/ Well(r, bad)
    BY <1>5, StartDoes
  <2> HIDE DEF good, bad
  <2> QED
    BY <2>1, <2>2, SoundOn, SoundOut
<1>6. CASE Add(r)
  <2>1. Leads(requests[r], "ok") /\ Leads(requests[r], "stop")
    BY <1>6, AddDoes DEF Leads, Answers
  <2> QED
    BY <1>6, <2>1, AddDoes, SoundOn, SoundSaving
<1>7. CASE Stop(r)
  <2>1. PICK next, bad \in Steps :
          /\ next = CASE requests[r].op = "install" -> "cleanup" [] requests[r].op = "delete" -> "files"
                      [] requests[r].op = "stop" -> "done"
          /\ bad = IF requests[r].op = "stop" THEN "fail" ELSE next
          /\ Outcome(r, Stopped(host), next, {host, Stopped(host)}, bad)
    BY <1>7, StopDoes
  <2>2. Leads(requests[r], next) /\ Leads(requests[r], bad)
    BY <1>7, <2>1, StopDoes DEF Leads, Answers
  <2> QED
    BY <2>1, <2>2, SoundOut
<1>8. CASE CleanUp(r)
  <2>1. Leads(requests[r], "failed")
    BY <1>8, CleanUpDoes DEF Leads, Answers
  <2> QED
    BY <1>8, <2>1, CleanUpDoes, SoundOn
<1> QED
  BY <1>1, <1>2, <1>3, <1>4, <1>5, <1>6, <1>7, <1>8

LEMMA SimpleSound ==
  ASSUME TypeOK, NEW r \in Requests, Sound(requests[r]),
         Mark(r) \/ Fail(r) \/ Done(r) \/ Answer(r) \/ Files(r) \/ Drop(r) \/ Leave(r) \/ Finish(r) \/ Tidy(r)
  PROVE  Sound(requests'[r])
<1>1. CASE Mark(r)
  <2>1. Leads(requests[r], "failed") /\ Leads(requests[r], AfterMark(requests[r].op))
    BY <1>1, MarkDoes DEF Leads, Answers, AfterMark, Failing
  <2> QED
    BY <1>1, <2>1, MarkDoes, SoundOn, SoundSaving
<1>2. CASE Fail(r)
  <2>1. Leads(requests[r], "failed")
    BY <1>2, FailDoes DEF Leads, Answers, Failing
  <2> QED
    BY <1>2, <2>1, FailDoes, SoundOn, SoundSaving
<1>3. CASE Done(r)
  <2>1. Leads(requests[r], "failed") /\ Leads(requests[r], "ok")
    BY <1>3, DoneDoes DEF Leads, Answers, Failing
  <2> QED
    BY <1>3, <2>1, DoneDoes, SoundOn, SoundSaving
<1>4. CASE Answer(r)
  BY <1>4, AnswerDoes, IdleIs
<1>5. CASE Files(r)
  <2>1. Leads(requests[r], "failed") /\ Leads(requests[r], "drop")
    BY <1>5, FilesDoes DEF Leads, Answers, Failing
  <2> QED
    BY <1>5, <2>1, FilesDoes, SoundOn
<1>6. CASE Drop(r)
  <2>1. Leads(requests[r], "failed") /\ Leads(requests[r], "ok")
    BY <1>6, DropDoes DEF Leads, Answers, Failing
  <2> QED
    BY <1>6, <2>1, DropDoes, SoundOn, SoundSaving
<1>7. CASE Leave(r)
  <2>1. Leads(requests[r], requests[r].at)
    BY <1>7, LeaveDoes, Whose DEF Leads, Sound, OnPath
  <2> QED
    BY <1>7, <2>1, LeaveDoes, SoundOn
<1>8. CASE Finish(r)
  <2>1. Leads(requests[r], "failed") /\ Leads(requests[r], "tidy")
    BY <1>8, FinishDoes DEF Leads, Answers, Failing
  <2> QED
    BY <1>8, <2>1, FinishDoes, SoundOn, SoundSaving
<1>9. CASE Tidy(r)
  <2>1. Leads(requests[r], "ok")
    BY <1>9, TidyDoes DEF Leads, Answers, Failing
  <2> QED
    BY <1>9, <2>1, TidyDoes, SoundOn
<1> QED
  BY <1>1, <1>2, <1>3, <1>4, <1>5, <1>6, <1>7, <1>8, <1>9

LEMMA UpgradeSound ==
  ASSUME TypeOK, NEW r \in Requests, Sound(requests[r]),
         Render(r) \/ Pull(r) \/ Restart(r) \/ Health(r) \/ Undo(r) \/ Again(r)
  PROVE  Sound(requests'[r])
<1>1. CASE Render(r)
  <2>1. Leads(requests[r], "fail") /\ Leads(requests[r], "pull") /\ Leads(requests[r], "failed")
    BY <1>1, RenderDoes DEF Leads, Answers, Failing
  <2>2. CASE Panics(r)
    BY <1>1, <2>2, RenderDoes, IdleIs DEF Panics, Gone, Same, Sound, OnPath, Answers, Failing
  <2> QED
    BY <1>1, <2>1, <2>2, RenderDoes, SoundOn
<1>2. CASE Pull(r)
  <2>1. Leads(requests[r], "restart") /\ requests[r].at \notin {"check"} \cup Answers
    BY <1>2, PullDoes DEF Leads, Answers, Failing
  <2> QED
    BY <1>2, <2>1, PullDoes, SoundOn, FellSound
<1>3. CASE Restart(r) /\ requests[r].op = "upgrade"
  <2>1. Leads(requests[r], "health") /\ requests[r].at \notin {"check"} \cup Answers
    BY <1>3, UpRestartDoes DEF Leads, Answers, Failing
  <2> QED
    BY <1>3, <2>1, UpRestartDoes, SoundOn, FellSound
<1>4. CASE Restart(r) /\ requests[r].op # "upgrade"
  <2> DEFINE good == IF requests[r].op = "restart" THEN "ok" ELSE "done"
             bad == IF requests[r].op = "restart" THEN "failed" ELSE "fail"
  <2>1. Leads(requests[r], good) /\ Leads(requests[r], bad)
    BY <1>4, RestartDoes DEF Leads, Answers
  <2>2. \/ Outcome(r, Restarted(host), good, RestartLeft(host), bad)
        \/ Well(r, bad)
    BY <1>4, RestartDoes
  <2> HIDE DEF good, bad
  <2> QED
    BY <2>1, <2>2, SoundOn, SoundOut
<1>5. CASE Health(r)
  <2>1. Leads(requests[r], "finish") /\ requests[r].at \notin {"check"} \cup Answers
    BY <1>5, HealthDoes DEF Leads, Answers, Failing
  <2> QED
    BY <1>5, <2>1, HealthDoes, SoundOn, FellSound
<1>6. CASE Undo(r)
  <2>1. \A at \in {IF requests[r].fell = "pull" THEN "fail" ELSE "save"} : Leads(requests[r], at)
    BY <1>6, UndoDoes DEF Leads, Answers, Failing, Sound
  <2> QED
    BY <1>6, <2>1, UndoDoes, SoundOn
<1>7. CASE Again(r)
  <2>1. Leads(requests[r], "fail")
    BY <1>7, AgainDoes DEF Leads, Answers, Failing
  <2> QED
    BY <1>7, <2>1, AgainDoes, SoundOn, SoundOut
<1> QED
  BY <1>1, <1>2, <1>3, <1>4, <1>5, <1>6, <1>7

LEMMA ScriptSound ==
  ASSUME TypeOK, NEW r \in Requests, Sound(requests[r]), SaveData(r) \/ RemoveData(r) \/ RestoreData(r)
  PROVE  Sound(requests'[r])
<1>1. ASSUME requests[r].op \in {"rollback", "upgrade"}, requests[r].at \in {"save", "remove", "restore"}
      PROVE  Leads(requests[r], OnError(requests[r])) /\ Leads(requests[r], AfterAll(requests[r]))
             /\ Leads(requests[r], "remove") /\ Leads(requests[r], "restore")
  BY <1>1 DEF Leads, OnError, AfterAll, Answers, Failing, Sound
<1>2. CASE SaveData(r)
  BY <1>1, <1>2, SaveDoes, SoundOn, SoundOut
<1>3. CASE RemoveData(r)
  BY <1>1, <1>3, RemoveDoes, SoundOn, SoundOut
<1>4. CASE RestoreData(r)
  BY <1>1, <1>4, RestoreDoes, SoundOn, SoundOut
<1> QED
  BY <1>2, <1>3, <1>4

LEMMA RunSound ==
  ASSUME TypeOK, NEW r \in Requests, Sound(requests[r]), Leave(r) \/ Run(r)
  PROVE  Sound(requests'[r])
BY InstallSound, SimpleSound, UpgradeSound, ScriptSound DEF Run

Kin(p, q) == p.op = q.op /\ p.was = q.was /\ p.keep = q.keep /\ p.pars = q.pars

\* A request that runs moves alone: what others are, and that it met none of them, is not for it to change.
Stays(r) ==
  /\ Others(r) /\ events \subseteq events'
  /\ requests'[r].alone => requests[r].alone /\ Kin(requests'[r], requests[r])
  /\ requests'[r].clean => requests[r].clean

LEMMA WellStays ==
  ASSUME TypeOK, NEW r \in Requests, NEW at, Well(r, at)
  PROVE  Stays(r)
BY IdleIs DEF Well, Gone, Same, Stays, Kin

LEMMA IllStays ==
  ASSUME TypeOK, NEW r \in Requests, NEW at, NEW e, Ill(r, at, e)
  PROVE  Stays(r)
BY IdleIs DEF Ill, Gone, Same, Stays, Kin

LEMMA OutcomeStays ==
  ASSUME TypeOK, NEW r \in Requests, NEW done, NEW good, NEW left, NEW bad, Outcome(r, done, good, left, bad)
  PROVE  Stays(r)
BY WellStays, IllStays DEF Outcome

LEMMA SavingStays ==
  ASSUME TypeOK, NEW r \in Requests, NEW a, NEW m, NEW good, NEW bad, Saving(r, a, m, good, bad)
  PROVE  Stays(r)
BY WellStays, IllStays DEF Saving

LEMMA FellStays ==
  ASSUME TypeOK, NEW r \in Requests, NEW at, FellTo(r, at)
  PROVE  Stays(r)
BY DEF FellTo, Stays, Kin

LEMMA RunStays ==
  ASSUME TypeOK, NEW r \in Requests, Sound(requests[r]), Leave(r) \/ Run(r)
  PROVE  Stays(r) /\ requests[r].at # "idle"
<1> USE WellStays, IllStays, OutcomeStays, SavingStays, FellStays
<1>1. CASE Check(r)
  BY <1>1, CheckDoes DEF Chosen, Stays, Kin
<1>2. CASE Make(r) \/ Write(r) \/ CleanUp(r)
  BY <1>2, MakeDoes, WriteDoes, CleanUpDoes
<1>3. CASE Snap(r)
  BY <1>3, SnapDoes DEF Snapped, Stays, Kin
<1>4. CASE Start(r) \/ Stop(r)
  BY <1>4, StartDoes, StopDoes
<1>5. CASE Add(r) \/ Mark(r)
  BY <1>5, AddDoes, MarkDoes
<1>6. CASE Fail(r) \/ Done(r) \/ Drop(r) \/ Finish(r)
  BY <1>6, FailDoes, DoneDoes, DropDoes, FinishDoes
<1>7. CASE Answer(r)
  BY <1>7, AnswerDoes, IdleIs DEF Stays, Answers
<1>8. CASE Files(r) \/ Tidy(r)
  BY <1>8, FilesDoes, TidyDoes
<1>9. CASE Leave(r)
  BY <1>9, LeaveDoes
<1>10. CASE Render(r)
  BY <1>10, RenderDoes, IdleIs DEF Panics, Gone, Same, Stays, Kin
<1>11. CASE Pull(r) \/ Health(r)
  BY <1>11, PullDoes, HealthDoes
<1>12. CASE Restart(r)
  BY <1>12, RestartDoes, UpRestartDoes
<1>13. CASE Undo(r)
  BY <1>13, UndoDoes
<1>14. CASE Again(r)
  BY <1>14, AgainDoes
<1>15. CASE SaveData(r) \/ RemoveData(r) \/ RestoreData(r)
  BY <1>15, SaveDoes, RemoveDoes, RestoreDoes
<1> QED
  BY <1>1, <1>2, <1>3, <1>4, <1>5, <1>6, <1>7, <1>8, <1>9, <1>10, <1>11, <1>12, <1>13, <1>14, <1>15 DEF Run

LEMMA SoundStep ==
  ASSUME TypeOK, AllSound, Next
  PROVE  AllSound'
<1>1. ASSUME NEW r \in Requests, Arrive(r)
      PROVE  AllSound'
  <2>1. Sound(requests'[r])
    <3> DEFINE p == requests'[r]
    <3>1. p.op \in Ops /\ p.at = FirstOf(p.op) /\ p.gone = FALSE /\ (p.clean => p.op = "upgrade")
      BY <1>1, ArriveDoes
    <3>2. CASE p.op \in {"install", "upgrade", "start", "stop"}
      BY <3>1, <3>2 DEF Sound, OnPath, FirstOf, Answers, Failing
    <3>3. CASE p.op \in {"restart", "delete", "rollback"}
      BY <3>1, <3>3 DEF Sound, OnPath, FirstOf, Answers, Failing
    <3> QED
      BY <3>1, <3>2, <3>3 DEF Ops
  <2>2. ASSUME NEW s \in Requests \ {r}
        PROVE  Sound(requests'[s])
    <3>1. Met(requests'[s], requests[s]) /\ (requests[s] = Idle => requests'[s] = Idle) /\ Sound(requests[s])
      BY <1>1, ArriveDoes DEF AllSound
    <3> QED
      BY <3>1 DEF Met, Sound, OnPath
  <2> QED
    BY <2>1, <2>2 DEF AllSound
<1>2. ASSUME NEW r \in Requests, Leave(r) \/ Run(r)
      PROVE  AllSound'
  BY <1>2, RunSound, RunStays DEF Stays, Others, AllSound
<1>3. CASE AppWrites \/ SaveOther
  BY <1>3 DEF AppWrites, SaveOther, AllSound
<1>4. CASE Restarts
  BY <1>4, IdleIs DEF Restarts, AllSound
<1> QED
  BY <1>1, <1>2, <1>3, <1>4 DEF Next

\* A request is alone when no other is at work.
AloneInv == \A r \in Requests : requests[r].alone => \A s \in Requests \ {r} : requests[s] = Idle

LEMMA AloneStep ==
  ASSUME TypeOK, AllSound, AloneInv, Next
  PROVE  AloneInv'
<1>1. ASSUME NEW r \in Requests, Arrive(r)
      PROVE  AloneInv'
  <2>1. requests'[r].alone => \A s \in Requests : requests[s] = Idle
    <3>1. requests'[r].alone => Busy = {}
      BY <1>1, ArriveDoes
    <3> QED
      BY <3>1, Whose DEF Busy, AllSound
  <2>2. \A s \in Requests \ {r} : ~requests'[s].alone /\ (requests[s] = Idle => requests'[s] = Idle)
    BY <1>1, ArriveDoes DEF Met
  <2> QED
    BY <2>1, <2>2 DEF AloneInv
<1>2. ASSUME NEW r \in Requests, Leave(r) \/ Run(r)
      PROVE  AloneInv'
  <2>1. Stays(r) /\ requests[r] # Idle
    BY <1>2, RunStays, IdleIs DEF AllSound
  <2> QED
    BY <2>1 DEF Stays, Others, AloneInv
<1>3. CASE AppWrites \/ SaveOther
  BY <1>3 DEF AppWrites, SaveOther, AloneInv
<1>4. CASE Restarts
  BY <1>4, IdleIs DEF Restarts, AloneInv
<1> QED
  BY <1>1, <1>2, <1>3, <1>4 DEF Next

\* While a request is alone, no other runs.
LEMMA OnlyRuns ==
  ASSUME TypeOK, AllSound, AloneInv, NEW r \in Requests, Leave(r) \/ Run(r), NEW s \in Requests \ {r}
  PROVE  ~requests[s].alone /\ requests'[s] = requests[s]
BY RunStays, IdleIs DEF AloneInv, AllSound, Stays, Others

------------------------------------------------------------------------------
(* The status that stays.                                                      *)

Settled == {"none", "running", "stopped", "error"}

\* A request at such a step will leave the status settled.
ClosesAt(op, at) ==
  \/ op = "start" /\ at \in {"start", "done", "fail"}
  \/ op = "stop" /\ at \in {"stop", "done", "fail"}
  \/ op = "rollback" /\ at \in {"save", "remove", "restore", "restart", "done", "fail"}
  \/ op = "upgrade" /\ at \in {"render", "pull", "restart", "health", "finish", "fail"} \cup Failing
Closes(q) == ClosesAt(q.op, q.at)

Closing == app.status \in Settled \/ \E r \in Requests : Closes(requests[r])
SettledInv == events \cap {"save failed", "stopped", "panic"} = {} => Closing

\* It goes on so.
Follows(r) ==
  /\ Closes(requests'[r]) /\ requests'[r].op = requests[r].op
  /\ requests'[r].at = "render" => requests[r].at = "render"

LEMMA ClosesOn ==
  ASSUME TypeOK, NEW r \in Requests, NEW at, NEW e, Well(r, at) \/ Ill(r, at, e), ClosesAt(requests[r].op, at)
  PROVE  Closes(requests'[r]) /\ requests'[r].op = requests[r].op /\ requests'[r].at = at
<1>1. at \notin Answers
  BY DEF ClosesAt, Answers, Failing
<1> QED
  BY <1>1 DEF Well, Ill, Gone, Same, Closes

LEMMA FollowsOn ==
  ASSUME TypeOK, NEW r \in Requests, NEW at, NEW e, Well(r, at) \/ Ill(r, at, e), ClosesAt(requests[r].op, at), at # "render"
  PROVE  Follows(r)
BY ClosesOn DEF Follows

LEMMA FollowsOut ==
  ASSUME TypeOK, NEW r \in Requests, NEW done, NEW good, NEW left, NEW bad, Outcome(r, done, good, left, bad),
         ClosesAt(requests[r].op, good), ClosesAt(requests[r].op, bad), good # "render", bad # "render"
  PROVE  Follows(r)
BY FollowsOn DEF Outcome

\* While the record stays, what closes goes on to.
LEMMA StaysClosing ==
  ASSUME Closing, NEW r \in Requests, Others(r), app' = app, Closes(requests[r]) => Closes(requests'[r])
  PROVE  Closing'
BY DEF Closing, Others

LEMMA NowSettled ==
  ASSUME app'.status \in Settled
  PROVE  Closing'
BY DEF Closing

LEMMA InstallClosing ==
  ASSUME TypeOK, NEW r \in Requests, Sound(requests[r]), Closing,
         Check(r) \/ Make(r) \/ Write(r) \/ Snap(r) \/ CleanUp(r) \/ Answer(r) \/ Files(r) \/ Tidy(r)
  PROVE  Closing'
<1>1. UNCHANGED app
  BY CheckDoes, MakeDoes, WriteDoes, SnapDoes, CleanUpDoes, AnswerDoes, FilesDoes, TidyDoes DEF store
<1>2. ~Closes(requests[r])
  BY ZenonT(30), CheckDoes, MakeDoes, WriteDoes, SnapDoes, CleanUpDoes, AnswerDoes, FilesDoes, TidyDoes DEF Closes, ClosesAt, Answers, Failing
<1>3. Others(r)
  BY RunStays DEF Run, Stays
<1> QED
  BY <1>1, <1>2, <1>3, StaysClosing

HostStep(r) ==
  \/ Start(r) \/ Stop(r) \/ Pull(r) \/ Restart(r) \/ Health(r) \/ Undo(r) \/ Again(r)
  \/ SaveData(r) \/ RemoveData(r) \/ RestoreData(r) \/ Leave(r)

LEMMA HostStepIs ==
  ASSUME TypeOK, NEW r \in Requests, Sound(requests[r]), HostStep(r)
  PROVE  UNCHANGED store /\ Others(r)
<1>1. UNCHANGED store
  BY StartDoes, StopDoes, PullDoes, RestartDoes, UpRestartDoes, HealthDoes, UndoDoes, AgainDoes, SaveDoes, RemoveDoes,
     RestoreDoes, LeaveDoes DEF HostStep, store
<1> QED
  BY <1>1, RunStays DEF HostStep, Run, Stays

LEMMA HostFollows ==
  ASSUME TypeOK, NEW r \in Requests, Sound(requests[r]), HostStep(r), Closes(requests[r])
  PROVE  Follows(r)
<1> DEFINE op == requests[r].op
<1>3. ASSUME NEW at, FellTo(r, at), op = "upgrade"
      PROVE  Follows(r)
  BY <1>3 DEF FellTo, Follows, Closes, ClosesAt, Failing
<1>4. CASE Start(r)
  <2>1. op = "start"
    BY <1>4, StartDoes DEF Closes, ClosesAt
  <2>2. ClosesAt(op, "done") /\ ClosesAt(op, "fail")
    BY <2>1 DEF ClosesAt
  <2> QED
    BY <1>4, <2>1, <2>2, StartDoes, FollowsOn, FollowsOut
<1>5. CASE Stop(r)
  <2>1. op = "stop"
    BY <1>5, StopDoes DEF Closes, ClosesAt
  <2>2. ClosesAt(op, "done") /\ ClosesAt(op, "fail")
    BY <2>1 DEF ClosesAt
  <2>3. PICK next, bad \in Steps : next = "done" /\ bad = "fail" /\ Outcome(r, Stopped(host), next, {host, Stopped(host)}, bad)
    BY <1>5, <2>1, StopDoes
  <2> QED
    BY <2>2, <2>3, FollowsOut
<1>6. CASE Pull(r)
  <2>1. op = "upgrade" /\ ClosesAt(op, "restart")
    BY <1>6, PullDoes DEF ClosesAt
  <2> QED
    BY <1>3, <1>6, <2>1, PullDoes, FollowsOn
<1>7. CASE Restart(r) /\ op = "upgrade"
  <2>1. ClosesAt(op, "health")
    BY <1>7 DEF ClosesAt
  <2> QED
    BY <1>3, <1>7, <2>1, UpRestartDoes, FollowsOn
<1>8. CASE Restart(r) /\ op # "upgrade"
  <2>1. op = "rollback"
    BY <1>8, RestartDoes DEF Closes, ClosesAt
  <2>2. ClosesAt(op, "done") /\ ClosesAt(op, "fail")
    BY <2>1 DEF ClosesAt
  <2> QED
    BY <1>8, <2>1, <2>2, RestartDoes, FollowsOn, FollowsOut
<1>9. CASE Health(r)
  <2>1. op = "upgrade" /\ ClosesAt(op, "finish")
    BY <1>9, HealthDoes DEF ClosesAt
  <2> QED
    BY <1>3, <1>9, <2>1, HealthDoes, FollowsOn
<1>10. CASE Undo(r)
  <2>1. op = "upgrade" /\ \A at \in {IF requests[r].fell = "pull" THEN "fail" ELSE "save"} : ClosesAt(op, at) /\ at # "render"
    BY <1>10, UndoDoes DEF ClosesAt, Failing
  <2> QED
    BY <1>10, <2>1, UndoDoes, FollowsOn
<1>11. CASE Again(r)
  <2>1. op = "upgrade" /\ ClosesAt(op, "fail")
    BY <1>11, AgainDoes DEF ClosesAt
  <2> QED
    BY <1>11, <2>1, AgainDoes, FollowsOn, FollowsOut
<1>12. CASE SaveData(r) \/ RemoveData(r) \/ RestoreData(r)
  <2>1. op \in {"rollback", "upgrade"}
    BY <1>12, SaveDoes, RemoveDoes, RestoreDoes
  <2>2. ClosesAt(op, OnError(requests[r])) /\ ClosesAt(op, AfterAll(requests[r]))
        /\ ClosesAt(op, "remove") /\ ClosesAt(op, "restore")
        /\ OnError(requests[r]) # "render" /\ AfterAll(requests[r]) # "render"
    BY <2>1 DEF ClosesAt, OnError, AfterAll, Failing
  <2> QED
    BY <1>12, <2>2, SaveDoes, RemoveDoes, RestoreDoes, FollowsOn, FollowsOut
<1>13. CASE Leave(r)
  BY <1>13, LeaveDoes, ClosesOn DEF Closes, Follows
<1> QED
  BY <1>4, <1>5, <1>6, <1>7, <1>8, <1>9, <1>10, <1>11, <1>12, <1>13 DEF HostStep

LEMMA StoreClosing ==
  ASSUME TypeOK, NEW r \in Requests, Sound(requests[r]), Closing, events' \cap {"save failed", "panic"} = {},
         Add(r) \/ Mark(r) \/ Fail(r) \/ Done(r) \/ Drop(r) \/ Finish(r) \/ Render(r)
  PROVE  Closing'
<1>1. Others(r) /\ NoApp.status = "none" /\ "none" \in Settled
  BY RunStays DEF Run, Stays, NoApp, Settled
<1>2. ASSUME app = NoApp, UNCHANGED store
      PROVE  Closing'
  BY <1>1, <1>2, NowSettled DEF store
<1>3. ASSUME NEW a, NEW m, NEW good, NEW bad, Saving(r, a, m, good, bad)
      PROVE  app' = a /\ Well(r, good)
  BY <1>3 DEF Saving, Ill
<1>4. CASE Add(r)
  <2>1. CASE UNCHANGED store
    BY <1>1, <1>4, <2>1, AddDoes, StaysClosing DEF store, Closes, ClosesAt
  <2>2. CASE ~UNCHANGED store
    <3> DEFINE m == Append(maps, requests[r].pars)
               a == [status |-> "running", version |-> requests[r].entry, map |-> Len(m)]
    <3>2. Saving(r, a, m, "ok", "stop")
      BY <1>4, <2>2, AddDoes
    <3>3. a.status = "running"
      OBVIOUS
    <3> HIDE DEF a, m
    <3>1. app'.status = "running"
      BY <1>3, <3>2, <3>3
    <3> QED
      BY <3>1, NowSettled DEF Settled
  <2> QED
    BY <2>1, <2>2
<1>5. ASSUME NEW s \in Statuses, NEW good, NEW bad, app # NoApp, Saving(r, [app EXCEPT !.status = s], maps, good, bad)
      PROVE  app'.status = s /\ Well(r, good)
  <2> DEFINE a == [app EXCEPT !.status = s]
  <2>1. a.status = s
    BY ZenonT(30), <1>5, StatusOf, GoodIs
  <2>2. Saving(r, a, maps, good, bad)
    BY <1>5
  <2> HIDE DEF a
  <2> QED
    BY <1>3, <2>1, <2>2
<1>6. CASE Mark(r)
  <2>1. MarkOf(requests[r].op) \in Statuses /\ ClosesAt(requests[r].op, AfterMark(requests[r].op))
    BY <1>6, MarkDoes DEF MarkOf, AfterMark, Statuses, ClosesAt
  <2>2. app # NoApp => Closes(requests'[r])
    BY <1>5, <1>6, <2>1, MarkDoes, ClosesOn
  <2> QED
    BY <1>2, <1>6, <2>2, MarkDoes DEF Closing
<1>7. CASE Fail(r)
  BY <1>2, <1>5, <1>7, FailDoes, NowSettled DEF Settled, Statuses
<1>8. CASE Done(r)
  <2>1. (IF requests[r].op = "stop" THEN "stopped" ELSE "running") \in Statuses \cap Settled
    BY DEF Statuses, Settled
  <2> QED
    BY <1>2, <1>5, <1>8, <2>1, DoneDoes, NowSettled
<1>9. CASE Drop(r)
  BY <1>1, <1>2, <1>3, <1>9, DropDoes, NowSettled
<1>10. CASE Finish(r)
  <2>1. requests[r].copy \in Records(maps) /\ requests[r].copy # NoApp
    BY <1>10, FinishDoes, Parts DEF Sound, Answers
  <2>2. [requests[r].copy EXCEPT !.version = Newest, !.status = "running"].status = "running"
    BY <2>1, GoodIs, UpgradedOf
  <2>3. app # NoApp => app'.status = "running"
    BY <1>3, <1>10, <2>2, FinishDoes
  <2> QED
    BY <1>2, <1>10, <2>3, FinishDoes, NowSettled DEF Settled
<1>11. CASE Render(r)
  <2>1. ~Panics(r) /\ app' = app
    BY <1>11, RenderDoes DEF Panics
  <2>2. requests[r].op = "upgrade" /\ ClosesAt("upgrade", "fail") /\ ClosesAt("upgrade", "pull")
    BY <1>11, RenderDoes DEF ClosesAt
  <2>3. Closes(requests'[r])
    <3>1. Well(r, "fail") \/ Well(r, "pull") \/ Ill(r, "fail", "fault")
      BY <1>11, <2>1, RenderDoes
    <3> QED
      BY ZenonT(30), <2>2, <3>1, ClosesOn
  <2> QED
    BY <2>3 DEF Closing
<1> QED
  BY <1>4, <1>6, <1>7, <1>8, <1>9, <1>10, <1>11

LEMMA SettledStep ==
  ASSUME TypeOK, AllSound, SettledInv, Next
  PROVE  SettledInv'
<1> SUFFICES ASSUME events' \cap {"save failed", "stopped", "panic"} = {} PROVE Closing'
  BY DEF SettledInv
<1>1. ASSUME NEW r \in Requests, Arrive(r)
      PROVE  Closing'
  <2>1. Closing
    BY <1>1, ArriveDoes DEF SettledInv
  <2>2. requests[r] = Idle /\ app' = app
    BY <1>1, ArriveDoes DEF store
  <2>3. \A s \in Requests : Closes(requests[s]) => s # r /\ Closes(requests'[s])
    BY ZenonT(30), <1>1, <2>2, ArriveDoes, IdleIs DEF Met, Closes, ClosesAt
  <2> QED
    BY <2>1, <2>2, <2>3 DEF Closing
<1>2. ASSUME NEW r \in Requests, Leave(r) \/ Run(r)
      PROVE  Closing'
  <2>1. Closing
    BY <1>2, RunStays DEF SettledInv, AllSound, Stays
  <2>2. CASE HostStep(r)
    BY <2>1, <2>2, HostStepIs, HostFollows, StaysClosing DEF AllSound, Follows, store
  <2> QED
    BY <1>2, <2>1, <2>2, InstallClosing, StoreClosing DEF Run, HostStep, AllSound
<1>3. CASE AppWrites \/ SaveOther
  BY <1>3 DEF AppWrites, SaveOther, SettledInv, Closing, store
<1>4. CASE Restarts
  BY <1>4 DEF Restarts, Fault
<1> QED
  BY <1>1, <1>2, <1>3, <1>4 DEF Next

------------------------------------------------------------------------------
(* The file of the store.                                                      *)

\* An upgrade that has merged its parameters will save the store.
RendersAt(at) == at \in {"pull", "restart", "health", "finish", "fail"} \cup Failing
Renders(q) == q.op = "upgrade" /\ RendersAt(q.at)
Saved == saved.rec = app /\ (saved = Form(app, maps) \/ (app # NoApp /\ \E r \in Requests : Renders(requests[r])))
SavedInv == "save failed" \notin events => Saved

LEMMA SavedIs ==
  ASSUME TypeOK, NEW r, NEW a, NEW m, NEW good, NEW bad, Saving(r, a, m, good, bad), "save failed" \notin events'
  PROVE  Saved'
<1>1. app' = a /\ maps' = m /\ saved' = Form(a, m)
  BY DEF Saving, Ill
<1> QED
  BY <1>1 DEF Saved, Form

LEMMA StaysSaved ==
  ASSUME Saved, NEW r \in Requests, Others(r), UNCHANGED store, Renders(requests[r]) => Renders(requests'[r]) \/ app = NoApp
  PROVE  Saved'
BY DEF Saved, Others, store, Form

LEMMA OtherSaved ==
  ASSUME TypeOK, NEW r \in Requests, Sound(requests[r]), Saved, "save failed" \notin events',
         Run(r) \/ Leave(r), ~HostStep(r), ~Render(r)
  PROVE  Saved'
<1>1. Others(r)
  BY RunStays DEF Run, Stays
<1> DEFINE q == requests[r]
<1>2. CASE Check(r) \/ Make(r) \/ Write(r) \/ Snap(r) \/ CleanUp(r) \/ Answer(r) \/ Files(r) \/ Tidy(r)
  <2>1. UNCHANGED store /\ ~Renders(q)
    BY ZenonT(30), <1>2, CheckDoes, MakeDoes, WriteDoes, SnapDoes, CleanUpDoes, AnswerDoes, FilesDoes, TidyDoes
       DEF store, Renders, RendersAt, Answers, Failing
  <2> QED
    BY <1>1, <2>1, StaysSaved
<1>3. CASE Add(r)
  <2>1. UNCHANGED store \/ Saving(r, [status |-> "running", version |-> q.entry, map |-> Len(Append(maps, q.pars))],
                                  Append(maps, q.pars), "ok", "stop")
    BY <1>3, AddDoes
  <2>2. ~Renders(q)
    BY <1>3, AddDoes DEF Renders
  <2> QED
    BY <1>1, <2>1, <2>2, SavedIs, StaysSaved
<1>4. CASE app = NoApp /\ UNCHANGED store
  BY <1>1, <1>4, StaysSaved
<1>5. CASE Mark(r) \/ Fail(r) \/ Done(r) \/ Drop(r) \/ Finish(r)
  BY <1>4, <1>5, MarkDoes, FailDoes, DoneDoes, DropDoes, FinishDoes, SavedIs
<1> QED
  BY <1>2, <1>3, <1>5 DEF Run, HostStep

LEMMA SavedStep ==
  ASSUME TypeOK, AllSound, SavedInv, Next
  PROVE  SavedInv'
<1> SUFFICES ASSUME "save failed" \notin events' PROVE Saved'
  BY DEF SavedInv
<1>1. ASSUME NEW r \in Requests, Arrive(r)
      PROVE  Saved'
  <2>1. Saved /\ requests[r] = Idle /\ UNCHANGED store
    BY <1>1, ArriveDoes DEF SavedInv
  <2>2. \A s \in Requests : Renders(requests[s]) => s # r /\ Renders(requests'[s])
    BY <1>1, <2>1, ArriveDoes, IdleIs DEF Met, Renders
  <2> QED
    BY <2>1, <2>2 DEF Saved, store, Form
<1>2. ASSUME NEW r \in Requests, Leave(r) \/ Run(r)
      PROVE  Saved'
  <2>1. Saved /\ Sound(requests[r])
    BY <1>2, RunStays DEF SavedInv, AllSound, Stays
  <2>2. CASE HostStep(r)
    <3>1. Renders(requests[r]) => Renders(requests'[r])
      <4> SUFFICES ASSUME Renders(requests[r]) PROVE Renders(requests'[r])
        OBVIOUS
      <4>1. Closes(requests[r]) /\ requests[r].at # "render" /\ requests[r].op = "upgrade"
        BY DEF Renders, RendersAt, Closes, ClosesAt, Failing
      <4> QED
        BY <2>1, <2>2, <4>1, HostFollows DEF Follows, Closes, ClosesAt, Renders, RendersAt
    <3> QED
      BY <2>1, <2>2, <3>1, HostStepIs, StaysSaved
  <2>3. CASE Render(r)
    <3>1. CASE Panics(r) /\ UNCHANGED maps
      <4>1. Others(r) /\ UNCHANGED store /\ ~Renders(requests[r])
        BY <2>1, <2>3, <3>1, RenderDoes DEF Panics, store, Renders, RendersAt, Failing
      <4> QED
        BY <2>1, <4>1, StaysSaved
    <3>2. CASE Well(r, "fail") \/ Well(r, "pull") \/ Ill(r, "fail", "fault")
      <4>1. requests[r].op = "upgrade" /\ ClosesAt("upgrade", "fail") /\ ClosesAt("upgrade", "pull") /\ UNCHANGED <<app, saved>>
        BY <2>1, <2>3, RenderDoes DEF ClosesAt
      <4>2. Renders(requests'[r])
        BY <3>2, <4>1, ClosesOn DEF Renders, RendersAt
      <4> QED
        BY <2>1, <4>1, <4>2 DEF Saved, Form
    <3> QED
      BY <2>1, <2>3, <3>1, <3>2, RenderDoes
  <2> QED
    BY <1>2, <2>1, <2>2, <2>3, OtherSaved
<1>3. CASE AppWrites
  BY <1>3 DEF AppWrites, SavedInv, Saved, store, Form
<1>4. CASE SaveOther \/ Restarts
  <2>1. saved' = Form(app', maps')
    BY <1>4 DEF SaveOther, Restarts
  <2> QED
    BY <2>1 DEF Saved, Form
<1> QED
  BY <1>1, <1>2, <1>3, <1>4 DEF Next

------------------------------------------------------------------------------
(* What a request that met no other has come to, with record a and host h.     *)

\* A start that left an active unit alone, or started it.
Ran(q, h) == IF q.was.unit.active THEN h.unit = q.was.unit ELSE Serves(q, h)

Installs(q, a, h) ==
  /\ q.at \in {"make", "write", "snap", "start", "add"} => a = NoApp
  /\ q.at \in {"write", "snap", "start", "add", "ok"} => h.data # "none"
  /\ q.at \in {"snap", "start", "add", "ok"} => h.compose.version = q.entry
  /\ q.at \in {"check", "make", "write", "snap", "start"} => h.unit = q.was.unit
  /\ q.at \in {"add", "ok"} => Ran(q, h)
  /\ q.at = "ok" => a.status = "running" /\ a.version = q.entry
Upgrades(q, a, h) ==
  /\ q.at \notin {"check", "failed"} => a # NoApp
  /\ q.at \in {"check", "snap", "mark", "render", "pull", "restart"} => h.unit = q.was.unit
  /\ q.at \in {"pull", "restart"} => h.compose.version = q.entry
  /\ q.at \in {"health", "finish", "tidy", "ok"} => Serves(q, h) /\ h.compose.version = q.entry
  /\ q.at \in {"tidy", "ok"} => a.status = "running" /\ a.version = Newest
RunsIt(q, a, h) ==
  /\ q.op = "start" =>
       /\ q.at \in {"mark", "start"} => h.unit = q.was.unit
       /\ q.at \in {"done", "ok"} => Ran(q, h)
       /\ q.at = "ok" => a.status = "running"
  /\ q.op = "stop" =>
       /\ q.at \in {"done", "ok"} => ~h.unit.active
       /\ q.at = "ok" => a.status = "stopped"
  /\ q.op = "restart" => (q.at = "ok" => h.unit.up /\ h.unit.of = h.compose)
  /\ q.op = "rollback" =>
       /\ q.at \in {"mark", "save", "remove", "restore", "restart"} =>
            h.unit.up = q.was.unit.up /\ h.unit.active = q.was.unit.active
       /\ q.at \in {"done", "ok"} => Serves(q, h)
       /\ q.at = "ok" => a.status = "running"
Deletes(q, a, h) ==
  /\ q.at \in {"drop", "ok"} /\ ~q.keep => h.compose = NoFile /\ h.data = "none" /\ ~h.unit.attached
  /\ q.at = "ok" => a = NoApp

HasDone(q, a, h) ==
  /\ q.op = "install" => Installs(q, a, h)
  /\ q.op = "upgrade" => Upgrades(q, a, h)
  /\ q.op \in {"start", "stop", "restart", "rollback"} => RunsIt(q, a, h)
  /\ q.op = "delete" => Deletes(q, a, h)

AnswersInv == \A r \in Requests : requests[r].alone => HasDone(requests[r], app, host)

\* A request that is alone is not forgotten.
LEMMA WellAlone ==
  ASSUME NEW r \in Requests, NEW at, Well(r, at), requests'[r].alone
  PROVE  Same(requests'[r], requests[r]) /\ requests'[r].at = at
BY IdleIs DEF Well, Gone

LEMMA IllAlone ==
  ASSUME NEW r \in Requests, NEW at, NEW e, Ill(r, at, e), requests'[r].alone
  PROVE  Same(requests'[r], requests[r]) /\ requests'[r].at = at
BY IdleIs DEF Ill, Gone

LEMMA OutAlone ==
  ASSUME NEW r \in Requests, NEW done, NEW good, NEW left, NEW bad, Outcome(r, done, good, left, bad), requests'[r].alone
  PROVE  /\ Same(requests'[r], requests[r])
         /\ (host' = done /\ requests'[r].at = good) \/ requests'[r].at = bad
BY WellAlone, IllAlone DEF Outcome

LEMMA SavingAlone ==
  ASSUME NEW r \in Requests, NEW a, NEW m, NEW good, NEW bad, Saving(r, a, m, good, bad), requests'[r].alone
  PROVE  /\ Same(requests'[r], requests[r]) /\ app' = a
         /\ requests'[r].at = good \/ requests'[r].at = bad
BY WellAlone, IllAlone DEF Saving

\* The steps of each kind of request.
LEMMA StepsOf ==
  ASSUME TypeOK, NEW r \in Requests, Sound(requests[r]), Run(r)
  PROVE  LET op == requests[r].op
         IN  /\ op = "install" =>
                  Check(r) \/ Make(r) \/ Write(r) \/ Snap(r) \/ Start(r) \/ Add(r) \/ Stop(r) \/ CleanUp(r) \/ Answer(r)
             /\ op = "upgrade" =>
                  \/ Check(r) \/ Snap(r) \/ Mark(r) \/ Render(r) \/ Pull(r) \/ Restart(r) \/ Health(r) \/ Undo(r) \/ SaveData(r)
                  \/ RemoveData(r) \/ RestoreData(r) \/ Again(r) \/ Fail(r) \/ Finish(r) \/ Tidy(r) \/ Answer(r)
             /\ op = "start" => Mark(r) \/ Start(r) \/ Fail(r) \/ Done(r) \/ Answer(r)
             /\ op = "stop" => Mark(r) \/ Stop(r) \/ Fail(r) \/ Done(r) \/ Answer(r)
             /\ op = "restart" => Restart(r) \/ Answer(r)
             /\ op = "delete" => Stop(r) \/ Files(r) \/ Drop(r) \/ Answer(r)
             /\ op = "rollback" =>
                  \/ Mark(r) \/ SaveData(r) \/ RemoveData(r) \/ RestoreData(r) \/ Restart(r) \/ Fail(r) \/ Done(r) \/ Answer(r)
             /\ op \in Ops
<1> DEFINE op == requests[r].op
<1>1. Make(r) \/ Write(r) \/ Add(r) \/ CleanUp(r) => op = "install"
  BY MakeDoes, WriteDoes, AddDoes, CleanUpDoes
<1>2. Check(r) \/ Snap(r) => op \in {"install", "upgrade"}
  BY CheckDoes, SnapDoes
<1>3. (Start(r) => op \in {"install", "start"}) /\ (Stop(r) => op \in {"install", "delete", "stop"})
  BY StartDoes, StopDoes
<1>4. Mark(r) \/ Fail(r) => op \in {"start", "stop", "rollback", "upgrade"}
  BY MarkDoes, FailDoes
<1>5. Done(r) => op \in {"start", "stop", "rollback"}
  BY DoneDoes
<1>6. Render(r) \/ Pull(r) \/ Health(r) \/ Undo(r) \/ Again(r) \/ Finish(r) \/ Tidy(r) => op = "upgrade"
  BY RenderDoes, PullDoes, HealthDoes, UndoDoes, AgainDoes, FinishDoes, TidyDoes
<1>7. Restart(r) => op \in {"restart", "rollback", "upgrade"}
  BY RestartDoes
<1>8. SaveData(r) \/ RemoveData(r) \/ RestoreData(r) => op \in {"rollback", "upgrade"}
  BY SaveDoes, RemoveDoes, RestoreDoes
<1>9. Files(r) \/ Drop(r) => op = "delete"
  BY FilesDoes, DropDoes
<1>10. op \in Ops
  BY RunStays, Whose, Parts
<1> HIDE DEF op
<1> QED
  BY <1>1, <1>2, <1>3, <1>4, <1>5, <1>6, <1>7, <1>8, <1>9, <1>10 DEF Run, op

\* What a start comes to, of a host whose unit is the one that was found.
LEMMA StartedRan ==
  ASSUME TypeOK, NEW q, Usable(host) \/ host.unit.active, host.unit = q.was.unit
  PROVE  Ran(q, Started(host))
BY GoodIs, StartedIs DEF Ran, Serves, Unmoved

\* An installation and a deletion.
LEMMA InstallDone ==
  ASSUME TypeOK, NEW r \in Requests, Sound(requests[r]), HasDone(requests[r], app, host), requests'[r].alone, Run(r),
         requests[r].op = "install"
  PROVE  Installs(requests'[r], app', host')
<1> DEFINE q == requests[r]
           p == requests'[r]
<1> USE GoodIs
<1>1. Installs(q, app, host)
  BY DEF HasDone
<1>2. CASE Check(r)
  <2>1. CASE Chosen(r) /\ app = NoApp
    BY <1>1, <1>2, <2>1, CheckDoes DEF Chosen, Installs, store
  <2>2. CASE Well(r, "failed")
    BY <2>2, WellAlone DEF Installs
  <2> QED
    BY <1>2, <2>1, <2>2, CheckDoes
<1>3. CASE Make(r)
  <2> DEFINE made == [host EXCEPT !.data = IF @ = "none" THEN "empty" ELSE @]
  <2>1. made.data # "none" /\ made.unit = host.unit
    BY MadeIs
  <2>2. Outcome(r, made, "write", {host}, "failed") /\ q.at = "make" /\ app' = app
    BY <1>3, MakeDoes DEF store
  <2> HIDE DEF made
  <2> QED
    BY <1>1, <2>1, <2>2, OutAlone DEF Installs, Same
<1>4. CASE Write(r)
  <2> DEFINE c == [version |-> q.entry, pars |-> q.pars]
             written == [host EXCEPT !.compose = c]
  <2>1. c \in Composes /\ c.version = q.entry
    BY <1>4, WriteDoes, Parts, FileKinds DEF Sound, Answers
  <2>2. Outcome(r, written, "snap", {RemoveAll(host)}, "failed") /\ q.at = "write" /\ app' = app
    BY <1>4, WriteDoes DEF store
  <2> HIDE DEF c
  <2>3. written.compose = c /\ written.data = host.data /\ written.unit = host.unit
    BY <2>1, NewCompose
  <2> HIDE DEF written
  <2> QED
    BY <1>1, <2>1, <2>2, <2>3, OutAlone DEF Installs, Same
<1>5. CASE Snap(r)
  <2>1. q.at = "snap" /\ app' = app
    BY <1>5, SnapDoes DEF store
  <2>2. host'.data = host.data /\ host'.compose = host.compose /\ host'.unit = host.unit
    BY <1>5, SnapDoes, WithSnapIs
  <2>3. p.at = "start" /\ p.entry = q.entry /\ p.was = q.was
    BY <1>5, SnapDoes, WellAlone, IllAlone DEF Snapped, Same
  <2> QED
    BY <1>1, <2>1, <2>2, <2>3 DEF Installs
<1>6. CASE Start(r)
  <2>1. q.at = "start" /\ app' = app
    BY <1>6, StartDoes DEF store
  <2>2. \/ (Usable(host) \/ host.unit.active) /\ host' = Started(host) /\ p.at = "add" /\ Same(p, q)
        \/ p.at = "cleanup"
    BY <1>6, StartDoes, OutAlone, WellAlone
  <2>3. Usable(host) \/ host.unit.active =>
          Started(host).compose = host.compose /\ (host.data # "none" => Started(host).data = host.data)
    BY StartedIs DEF Unmoved
  <2>4. host.unit = q.was.unit
    BY <1>1, <2>1 DEF Installs
  <2>5. p.at = "add" => Ran(q, host')
    BY <2>2, <2>4, StartedRan
  <2>6. p.at = "add" => Ran(p, host')
    BY <2>2, <2>5 DEF Ran, Serves, Same
  <2> QED
    BY <1>1, <2>1, <2>2, <2>3, <2>6 DEF Installs, Same
<1>7. CASE Add(r)
  <2> DEFINE m == Append(maps, q.pars)
             a == [status |-> "running", version |-> q.entry, map |-> Len(m)]
  <2>1. a.status = "running" /\ a.version = q.entry
    OBVIOUS
  <2>2. q.at = "add" /\ host' = host /\ (Well(r, "stop") \/ Saving(r, a, m, "ok", "stop"))
    BY <1>7, AddDoes
  <2> HIDE DEF a, m
  <2> QED
    BY <1>1, <2>1, <2>2, WellAlone, SavingAlone DEF Installs, Same, Ran, Serves
<1>8. CASE Stop(r)
  <2>1. p.at = "cleanup"
    BY <1>8, StopDoes, OutAlone
  <2> QED
    BY <2>1 DEF Installs
<1>9. CASE CleanUp(r)
  <2>1. p.at = "failed"
    BY <1>9, CleanUpDoes, WellAlone
  <2> QED
    BY <2>1 DEF Installs
<1>10. CASE Answer(r)
  BY <1>10, AnswerDoes, IdleIs
<1> QED
  BY <1>2, <1>3, <1>4, <1>5, <1>6, <1>7, <1>8, <1>9, <1>10, StepsOf

LEMMA DeleteDone ==
  ASSUME TypeOK, NEW r \in Requests, Sound(requests[r]), HasDone(requests[r], app, host), requests'[r].alone, Run(r),
         requests[r].op = "delete"
  PROVE  Deletes(requests'[r], app', host')
<1> DEFINE q == requests[r]
           p == requests'[r]
<1> USE GoodIs
<1>1. Deletes(q, app, host)
  BY DEF HasDone
<1>2. CASE Stop(r)
  <2>1. p.at = "files"
    BY <1>2, StopDoes, OutAlone
  <2> QED
    BY <2>1 DEF Deletes
<1>3. CASE Files(r)
  <2> DEFINE emptied == [RemoveAll(host) EXCEPT !.snaps = {}]
  <2>1. \A h \in {RemoveAll(host), emptied} : h.compose = NoFile /\ h.data = "none" /\ ~h.unit.attached
    BY ZenonT(30), RemoveAllIs
  <2>2. p.at \in {"drop", "failed"} /\ Same(p, q) /\ (p.at = "drop" /\ ~q.keep => host' \in {RemoveAll(host), emptied})
    BY <1>3, FilesDoes, WellAlone, IllAlone
  <2> HIDE DEF emptied
  <2> QED
    BY <2>1, <2>2 DEF Deletes, Same
<1>4. CASE Drop(r)
  BY <1>1, <1>4, DropDoes, WellAlone, SavingAlone DEF Deletes, Same
<1>5. CASE Answer(r)
  BY <1>5, AnswerDoes, IdleIs
<1> QED
  BY <1>2, <1>3, <1>4, <1>5, StepsOf

LEMMA FellAlone ==
  ASSUME NEW r \in Requests, NEW at, FellTo(r, at)
  PROVE  requests'[r].at = "undo"
BY DEF FellTo

\* Where the script goes.
LEMMA ScriptAlone ==
  ASSUME TypeOK, NEW r \in Requests, Sound(requests[r]), requests'[r].alone, SaveData(r) \/ RemoveData(r) \/ RestoreData(r)
  PROVE  /\ requests'[r].at \in {"remove", "restore", OnError(requests[r]), AfterAll(requests[r])}
         /\ app' = app /\ requests[r].at \in {"save", "remove", "restore"}
<1> DEFINE p == requests'[r]
           bad == OnError(requests[r])
<1>1. ASSUME NEW done, NEW good, Outcome(r, done, good, {host, done}, bad) \/ Well(r, bad)
      PROVE  p.at \in {good, bad}
  BY <1>1, OutAlone, WellAlone
<1> HIDE DEF p, bad
<1>2. CASE SaveData(r)
  BY <1>1, <1>2, SaveDoes DEF store, p, bad
<1>3. CASE RemoveData(r)
  <2> DEFINE done == [host EXCEPT !.data = "none", !.unit.attached = FALSE]
  <2>1. Outcome(r, done, "restore", {host, done}, bad) \/ Well(r, bad)
    BY <1>3, RemoveDoes DEF bad
  <2> HIDE DEF done
  <2>2. p.at \in {"restore", bad}
    BY <1>1, <2>1
  <2> QED
    BY <1>3, <2>2, RemoveDoes DEF store, p, bad
<1>4. CASE RestoreData(r)
  <2> DEFINE done == IF host.data = "none" THEN [host EXCEPT !.data = TheSnap(requests[r], host).data] ELSE host
  <2>1. Outcome(r, done, AfterAll(requests[r]), {host, done}, bad) \/ Well(r, bad)
    BY <1>4, RestoreDoes DEF bad
  <2> HIDE DEF done
  <2>2. p.at \in {AfterAll(requests[r]), bad}
    BY <1>1, <2>1
  <2> QED
    BY <1>4, <2>2, RestoreDoes DEF store, p, bad
<1> QED
  BY <1>2, <1>3, <1>4

\* The script leaves the unit as it is; only the containers lose the directory that it removes.
LEMMA ScriptUnit ==
  ASSUME TypeOK, NEW r \in Requests, Sound(requests[r]), SaveData(r) \/ RemoveData(r) \/ RestoreData(r)
  PROVE  host'.unit.up = host.unit.up /\ host'.unit.active = host.unit.active
<1> DEFINE q == requests[r]
<1> USE GoodIs
<1>1. CASE SaveData(r)
  <2>1. \A h \in {host, IF host.data = "none" THEN host ELSE WithSnap(host)} : h.unit = host.unit
    BY WithSnapIs
  <2> QED
    BY <1>1, <2>1, SaveDoes DEF Outcome
<1>2. CASE RemoveData(r)
  <2> DEFINE done == [host EXCEPT !.data = "none", !.unit.attached = FALSE]
  <2>1. done.unit.up = host.unit.up /\ done.unit.active = host.unit.active
    BY RemovedIs
  <2>2. Outcome(r, done, "restore", {host, done}, OnError(q)) \/ host' = host
    BY <1>2, RemoveDoes
  <2> HIDE DEF done
  <2> QED
    BY <2>1, <2>2 DEF Outcome
<1>3. CASE RestoreData(r)
  <2> DEFINE done == IF host.data = "none" THEN [host EXCEPT !.data = TheSnap(q, host).data] ELSE host
  <2>1. HasSnap(q, host) => done.unit = host.unit
    BY RestoredIs
  <2>2. (HasSnap(q, host) /\ Outcome(r, done, AfterAll(q), {host, done}, OnError(q))) \/ host' = host
    BY <1>3, RestoreDoes
  <2> HIDE DEF done
  <2> QED
    BY <2>1, <2>2 DEF Outcome
<1> QED
  BY <1>1, <1>2, <1>3

LEMMA UpgradeDone ==
  ASSUME TypeOK, NEW r \in Requests, Sound(requests[r]), HasDone(requests[r], app, host), requests'[r].alone, Run(r),
         requests[r].op = "upgrade"
  PROVE  Upgrades(requests'[r], app', host')
<1> DEFINE q == requests[r]
           p == requests'[r]
<1> USE GoodIs
<1>1. Upgrades(q, app, host)
  BY DEF HasDone
<1>2. ASSUME \/ p.at \in {"undo", "fail"} \cup Failing
             \/ p.at \in {"snap", "mark", "render"} /\ q.at \in {"check", "snap", "mark"} /\ host'.unit = host.unit,
             app' # NoApp
      PROVE  Upgrades(p, app', host')
  BY <1>1, <1>2, RunStays DEF Upgrades, Failing, Stays, Kin
<1>3. ASSUME p.at = "failed"
      PROVE  Upgrades(p, app', host')
  BY <1>3 DEF Upgrades
<1>4. q.at \notin {"check", "failed"} => app # NoApp
  BY <1>1 DEF Upgrades
<1>5. CASE Check(r)
  <2>1. p.at = "failed" \/ (p.at = "snap" /\ q.at = "check" /\ host' = host /\ app' # NoApp)
    BY <1>5, CheckDoes, WellAlone DEF Chosen, store
  <2> QED
    BY <1>2, <1>3, <2>1
<1>6. CASE Snap(r)
  <2>1. p.at \in {"failed", "mark"} /\ app' = app /\ q.at = "snap"
    BY <1>6, SnapDoes, WellAlone, IllAlone DEF Snapped, store
  <2>2. host'.unit = host.unit
    BY <1>6, SnapDoes, WithSnapIs
  <2> QED
    BY <1>2, <1>3, <1>4, <2>1, <2>2
<1>7. CASE Mark(r)
  <2>1. q.at = "mark" /\ app # NoApp /\ host' = host
    BY <1>4, <1>7, MarkDoes
  <2> DEFINE a == [app EXCEPT !.status = MarkOf(q.op)]
  <2>2. MarkOf(q.op) \in Statuses /\ AfterMark(q.op) = "render"
    BY DEF MarkOf, AfterMark, Statuses
  <2>3. a # NoApp
    BY <2>1, <2>2, StatusOf
  <2>4. Saving(r, a, maps, AfterMark(q.op), "failed")
    BY <1>7, <2>1, MarkDoes
  <2> HIDE DEF a
  <2>5. p.at \in {"render", "failed"} /\ app' # NoApp
    BY <2>2, <2>3, <2>4, SavingAlone
  <2> QED
    BY <1>2, <1>3, <2>1, <2>5
<1>8. CASE Render(r)
  <2>1. q.at = "render" /\ app' = app
    BY <1>8, RenderDoes
  <2>2. CASE Panics(r)
    BY <1>3, <2>2, IdleIs DEF Panics, Gone
  <2>3. CASE Well(r, "fail") \/ Ill(r, "fail", "fault")
    BY <1>2, <1>4, <2>1, <2>3, WellAlone, IllAlone
  <2>4. CASE host' = Rewritten(r) /\ Well(r, "pull")
    <3>1. host'.compose.version = q.entry /\ host'.unit = host.unit
      <4> DEFINE c == [version |-> q.entry, pars |-> Merged(r)[q.copy.map]]
      <4>1. c \in Composes /\ c.version = q.entry
        BY <2>1, MergedIs
      <4>2. host' = [Kept(host) EXCEPT !.compose = c]
        BY <2>4 DEF Rewritten
      <4> HIDE DEF c
      <4> QED
        BY <4>1, <4>2, KeptIs
    <3>2. p.at = "pull" /\ p.entry = q.entry /\ p.was = q.was
      BY <2>4, WellAlone DEF Same
    <3> QED
      BY <1>1, <1>4, <2>1, <3>1, <3>2 DEF Upgrades
  <2> QED
    BY <1>8, <2>2, <2>3, <2>4, RenderDoes
<1>9. CASE Pull(r)
  <2>1. q.at = "pull" /\ app' = app /\ host' = host /\ (FellTo(r, "pull") \/ Well(r, "restart"))
    BY <1>9, PullDoes DEF store
  <2>2. CASE FellTo(r, "pull")
    BY <1>2, <1>4, <2>1, <2>2, FellAlone
  <2>3. CASE Well(r, "restart")
    <3>1. p.at = "restart" /\ p.entry = q.entry /\ p.was = q.was
      BY <2>3, WellAlone DEF Same
    <3> QED
      BY <1>1, <2>1, <3>1 DEF Upgrades
  <2> QED
    BY <2>1, <2>2, <2>3
<1>10. CASE Restart(r)
  <2>1. q.at = "restart" /\ app' = app
        /\ (FellTo(r, "restart") \/ (Usable(host) /\ host' = Restarted(host) /\ Well(r, "health")))
    BY <1>10, UpRestartDoes DEF store
  <2>2. CASE FellTo(r, "restart")
    BY <1>2, <1>4, <2>1, <2>2, FellAlone
  <2>3. CASE Usable(host) /\ host' = Restarted(host) /\ Well(r, "health")
    <3>1. p.at = "health" /\ p.entry = q.entry /\ p.was = q.was
      BY <2>3, WellAlone DEF Same
    <3>2. host.unit = q.was.unit
      BY <1>1, <2>1 DEF Upgrades
    <3>3. Serves(p, host') /\ host'.compose = host.compose
      BY <2>3, <3>1, <3>2, RestartedIs DEF Serves, Unmoved
    <3> QED
      BY <1>1, <2>1, <3>1, <3>3 DEF Upgrades
  <2> QED
    BY <2>1, <2>2, <2>3
<1>11. CASE Health(r)
  <2>1. q.at = "health" /\ app' = app /\ host' = host /\ (FellTo(r, "health") \/ Well(r, "finish"))
    BY <1>11, HealthDoes DEF store
  <2>2. CASE FellTo(r, "health")
    BY <1>2, <1>4, <2>1, <2>2, FellAlone
  <2>3. CASE Well(r, "finish")
    <3>1. p.at = "finish" /\ p.entry = q.entry /\ p.was = q.was
      BY <2>3, WellAlone DEF Same
    <3> QED
      BY <1>1, <2>1, <3>1 DEF Upgrades, Serves
  <2> QED
    BY <2>1, <2>2, <2>3
<1>12. CASE Undo(r)
  <2>1. p.at \in {"fail", "save"} /\ app' = app /\ q.at = "undo"
    BY <1>12, UndoDoes, WellAlone, IllAlone DEF store
  <2> QED
    BY <1>2, <1>4, <2>1 DEF Failing
<1>13. CASE SaveData(r) \/ RemoveData(r) \/ RestoreData(r)
  <2>1. OnError(q) \in {"again", "fail"} /\ AfterAll(q) \in {"again", "fail"}
    BY DEF OnError, AfterAll
  <2>2. p.at \in {"remove", "restore", OnError(q), AfterAll(q)} /\ app' = app /\ q.at \in {"save", "remove", "restore"}
    BY <1>13, ScriptAlone
  <2> QED
    BY <1>2, <1>4, <2>1, <2>2 DEF Failing
<1>14. CASE Again(r)
  <2>1. p.at = "fail" /\ app' = app /\ q.at = "again"
    BY <1>14, AgainDoes, OutAlone, WellAlone DEF store
  <2> QED
    BY <1>2, <1>4, <2>1
<1>15. CASE Fail(r)
  BY <1>3, <1>15, FailDoes, WellAlone, SavingAlone
<1>16. CASE Finish(r)
  <2> DEFINE a == [q.copy EXCEPT !.version = Newest, !.status = "running"]
  <2>1. q.copy \in Records(maps) /\ q.copy # NoApp
    BY <1>16, FinishDoes, Parts DEF Sound, Answers
  <2>2. a.status = "running" /\ a.version = Newest /\ a # NoApp
    BY <2>1, UpgradedOf
  <2>3. q.at = "finish" /\ host' = host /\ Saving(r, a, maps, "tidy", "failed")
    BY <1>4, <1>16, FinishDoes
  <2> HIDE DEF a
  <2>4. app' = a /\ p.entry = q.entry /\ p.was = q.was /\ (p.at = "failed" \/ p.at = "tidy")
    BY <2>3, SavingAlone DEF Same
  <2> QED
    BY <1>1, <1>3, <2>2, <2>3, <2>4 DEF Upgrades, Serves
<1>17. CASE Tidy(r)
  <2> DEFINE g == [host EXCEPT !.backup = NoFile]
  <2>1. g.compose = host.compose /\ g.unit = host.unit
    BY FileKinds, NewBackup
  <2>2. q.at = "tidy" /\ app' = app /\ host' = g /\ Well(r, "ok")
    BY <1>17, TidyDoes DEF store
  <2> HIDE DEF g
  <2>3. p.at = "ok" /\ p.entry = q.entry /\ p.was = q.was
    BY <2>2, WellAlone DEF Same
  <2> QED
    BY <1>1, <2>1, <2>2, <2>3 DEF Upgrades, Serves
<1>18. CASE Answer(r)
  BY <1>18, AnswerDoes, IdleIs
<1> QED
  BY <1>5, <1>6, <1>7, <1>8, <1>9, <1>10, <1>11, <1>12, <1>13, <1>14, <1>15, <1>16, <1>17, <1>18, StepsOf

\* The requests that run what is installed, or stop it.
LEMMA RunDone ==
  ASSUME TypeOK, NEW r \in Requests, Sound(requests[r]), HasDone(requests[r], app, host), requests'[r].alone, Run(r),
         requests[r].op \in {"start", "stop", "restart", "rollback"}
  PROVE  RunsIt(requests'[r], app', host')
<1> DEFINE q == requests[r]
           p == requests'[r]
<1> USE GoodIs
<1>1. RunsIt(q, app, host)
  BY DEF HasDone
<1>2. Kin(p, q)
  BY RunStays DEF Stays
<1>3. ASSUME p.at \in {"fail", "failed"} \/ (q.op = "stop" /\ p.at \notin {"done", "ok"})
      PROVE  RunsIt(p, app', host')
  BY <1>2, <1>3 DEF RunsIt, Kin
<1>4. CASE Mark(r)
  <2>1. /\ q.op = "start" => AfterMark(q.op) = "start"
        /\ q.op = "stop" => AfterMark(q.op) = "stop"
        /\ q.op = "rollback" => AfterMark(q.op) = "save"
        /\ q.op \in {"start", "stop", "rollback"} /\ q.at = "mark" /\ host' = host
    BY <1>4, MarkDoes DEF AfterMark
  <2>2. p.at \in {"failed", AfterMark(q.op)}
    <3> DEFINE a == [app EXCEPT !.status = MarkOf(q.op)]
    <3>1. Well(r, "failed") \/ Saving(r, a, maps, AfterMark(q.op), "failed")
      BY <1>4, MarkDoes
    <3> HIDE DEF a
    <3> QED
      BY <3>1, WellAlone, SavingAlone
  <2> QED
    BY <1>1, <1>2, <1>3, <2>1, <2>2 DEF RunsIt, Kin
<1>5. CASE Start(r)
  <2>1. q.op = "start" /\ q.at = "start"
    BY <1>5, StartDoes
  <2>2. p.at = "fail" \/ (p.at = "done" /\ host' = Started(host) /\ (Usable(host) \/ host.unit.active))
    BY <1>5, <2>1, StartDoes, OutAlone, WellAlone
  <2>3. host.unit = q.was.unit
    BY <1>1, <2>1 DEF RunsIt
  <2>4. p.at = "done" => Ran(q, host')
    BY <2>2, <2>3, StartedRan
  <2>5. p.at = "done" => Ran(p, host')
    BY <1>2, <2>4 DEF Ran, Serves, Kin
  <2> QED
    BY <1>2, <1>3, <2>1, <2>2, <2>5 DEF RunsIt, Kin
<1>6. CASE Stop(r)
  <2>1. q.op = "stop"
    BY <1>6, StopDoes
  <2>2. p.at = "fail" \/ (p.at = "done" /\ host' = Stopped(host))
    BY <1>6, <2>1, StopDoes, OutAlone
  <2>3. p.at = "done" => ~host'.unit.active
    BY <2>2, StoppedIs
  <2> QED
    BY <1>2, <1>3, <2>1, <2>2, <2>3 DEF RunsIt, Kin
<1>7. CASE Restart(r)
  <2>1. q.op \in {"restart", "rollback"} /\ q.at = "restart"
    BY <1>7, RestartDoes
  <2>2. \/ p.at \in {"failed", "fail"}
        \/ /\ Usable(host) /\ host' = Restarted(host)
           /\ p.at = IF q.op = "restart" THEN "ok" ELSE "done"
    BY <1>7, <2>1, RestartDoes, OutAlone, WellAlone
  <2>3. p.at \notin {"failed", "fail"} =>
          host'.unit.up /\ host'.unit.of = host'.compose /\ (host'.unit.attached \/ (host.unit.up /\ ~host.unit.active))
    BY <2>2, RestartedIs DEF Unmoved
  <2>4. q.op = "rollback" => host.unit.up = q.was.unit.up /\ host.unit.active = q.was.unit.active
    BY <1>1, <2>1 DEF RunsIt
  <2>5. q.op = "rollback" /\ p.at \notin {"failed", "fail"} => Serves(p, host')
    BY <1>2, <2>3, <2>4 DEF Serves, Kin
  <2> QED
    BY <1>2, <1>3, <2>1, <2>2, <2>3, <2>5 DEF RunsIt, Kin
<1>8. CASE SaveData(r) \/ RemoveData(r) \/ RestoreData(r)
  <2>1. q.op = "rollback" /\ OnError(q) = "fail" /\ AfterAll(q) = "restart"
    BY <1>8, SaveDoes, RemoveDoes, RestoreDoes DEF OnError, AfterAll
  <2>2. p.at \in {"remove", "restore", "fail", "restart"} /\ q.at \in {"save", "remove", "restore"}
    BY <1>8, <2>1, ScriptAlone
  <2>3. host'.unit.up = host.unit.up /\ host'.unit.active = host.unit.active
    BY <1>8, ScriptUnit
  <2> QED
    BY <1>1, <1>2, <1>3, <2>1, <2>2, <2>3 DEF RunsIt, Kin
<1>9. CASE Fail(r)
  BY <1>3, <1>9, FailDoes, WellAlone, SavingAlone
<1>10. CASE Done(r)
  <2> DEFINE s == IF q.op = "stop" THEN "stopped" ELSE "running"
             a == [app EXCEPT !.status = s]
  <2>1. q.at = "done" /\ host' = host /\ (Well(r, "failed") \/ (app # NoApp /\ Saving(r, a, maps, "ok", "failed")))
    BY <1>10, DoneDoes
  <2>2. s \in Statuses
    BY DEF Statuses
  <2>3. app # NoApp => a.status = s
    BY <2>2, StatusOf
  <2> HIDE DEF a
  <2>4. p.at = "failed" \/ (p.at = "ok" /\ app'.status = s)
    BY <2>1, <2>3, WellAlone, SavingAlone
  <2>5. q.op \in {"start", "stop", "rollback"} /\ (q.op = "stop" => s = "stopped") /\ (q.op # "stop" => s = "running")
    BY <1>10, DoneDoes
  <2> HIDE DEF s
  <2>6. CASE p.at = "ok" /\ app'.status = s
    BY <1>1, <1>2, <2>1, <2>5, <2>6 DEF RunsIt, Kin, Ran, Serves
  <2> QED
    BY <1>3, <2>4, <2>6
<1>11. CASE Answer(r)
  BY <1>11, AnswerDoes, IdleIs
<1> QED
  BY <1>4, <1>5, <1>6, <1>7, <1>8, <1>9, <1>10, <1>11, StepsOf

LEMMA AnswersStep ==
  ASSUME TypeOK, AllSound, AloneInv, AnswersInv, Next
  PROVE  AnswersInv'
<1>1. ASSUME NEW r \in Requests, Arrive(r)
      PROVE  AnswersInv'
  <2> DEFINE p == requests'[r]
  <2>1. /\ p.op \in Ops /\ p.at = FirstOf(p.op) /\ host' = host
        /\ \A s \in Requests \ {r} : ~requests'[s].alone
        /\ p.alone /\ p.op \in {"install", "upgrade", "start", "rollback"} => p.was = host
    BY <1>1, ArriveDoes DEF Met, Compared
  <2>2. ASSUME p.alone
        PROVE  HasDone(p, app', host')
    <3>1. CASE p.op \in {"install", "upgrade", "start", "stop"}
      BY <2>1, <2>2, <3>1 DEF FirstOf, HasDone, Installs, Upgrades, RunsIt
    <3>2. CASE p.op \in {"restart", "delete", "rollback"}
      BY <2>1, <2>2, <3>2 DEF FirstOf, HasDone, RunsIt, Deletes
    <3> QED
      BY <2>1, <3>1, <3>2 DEF Ops
  <2> QED
    BY <2>1, <2>2 DEF AnswersInv
<1>2. ASSUME NEW r \in Requests, Leave(r) \/ Run(r)
      PROVE  AnswersInv'
  <2>1. \A s \in Requests \ {r} : ~requests'[s].alone
    BY <1>2, OnlyRuns
  <2>2. SUFFICES ASSUME requests'[r].alone PROVE HasDone(requests'[r], app', host')
    BY <2>1 DEF AnswersInv
  <2>3. Sound(requests[r]) /\ HasDone(requests[r], app, host) /\ requests'[r].op = requests[r].op
    BY <1>2, <2>2, RunStays DEF AllSound, AnswersInv, Stays, Kin
  <2>4. CASE Run(r)
    BY <2>2, <2>3, <2>4, InstallDone, UpgradeDone, DeleteDone, RunDone DEF HasDone
  <2>5. CASE Leave(r)
    <3>1. app' = app /\ host' = host /\ Same(requests'[r], requests[r]) /\ requests'[r].at = requests[r].at
      BY <2>2, <2>5, LeaveDoes, IllAlone DEF store
    <3> QED
      BY <2>3, <3>1 DEF Same, HasDone, Installs, Upgrades, RunsIt, Deletes, Ran, Serves
  <2> QED
    BY <1>2, <2>4, <2>5
<1>3. CASE AppWrites
  <2>1. /\ requests' = requests /\ app' = app /\ host'.compose = host.compose /\ host'.unit = host.unit
        /\ host'.data # "none" /\ host.unit.attached
    BY <1>3, WritesDoes, Catalog DEF store, Unmoved
  <2>2. ASSUME NEW q, HasDone(q, app, host)
        PROVE  HasDone(q, app, host')
    BY <2>1, <2>2 DEF HasDone, Installs, Upgrades, RunsIt, Deletes, Ran, Serves
  <2> QED
    BY <2>1, <2>2 DEF AnswersInv
<1>4. CASE SaveOther
  BY <1>4 DEF SaveOther, AnswersInv
<1>5. CASE Restarts
  BY <1>5, IdleIs DEF Restarts, AnswersInv
<1> QED
  BY <1>1, <1>2, <1>3, <1>4, <1>5 DEF Next

------------------------------------------------------------------------------
(* What an upgrade that nothing else disturbed can still put back.             *)

Old(q) == {q.was.data, q.was.unit.of.version, q.was.compose.version}
OldSnap(q, h) == \E s \in h.snaps : s.no = q.snap /\ s.data \in Old(q)
Early == {"check", "snap", "mark", "render"}

\* What may have written to the data when there is no snapshot to go back to.
Mixed(q) == Old(q) \cup {q.entry}

\* With record a and host h.
RestoresFile(q, a, h) ==
  /\ q.at = "check" => q.copy = NoApp /\ q.entry = "none"
  /\ q.at \notin {"check", "tidy", "ok"} => q.entry = "none" \/ a.version = q.copy.version
  /\ q.at \in Early \cup {"failed", "fail", "save", "remove", "restore", "again"} => h.compose = q.was.compose
  /\ q.at \in {"pull", "restart", "health", "undo"} => h.backup = q.was.compose /\ h.backup # NoFile
RestoresData(q, h) ==
  LET kept == q.at \in Early \cup {"pull", "restart"} \/ (q.at = "undo" /\ q.fell = "pull")
  IN  /\ kept \/ (q.at \in {"fail", "failed", "again"} /\ q.snap # 0) => h.data \in Old(q)
      /\ kept => h.unit.of = q.was.unit.of
      /\ q.at \in {"fail", "failed"} /\ q.snap # 0 => ~h.unit.attached \/ h.unit.of.version \in Old(q)
      /\ q.at \in {"mark", "render", "pull", "restart", "again"} => h.data # "none"
      /\ q.at = "restore" => h.data = "none"
      /\ q.at = "restore" \/ (q.at = "again" /\ q.snap # 0) => ~h.unit.attached
      /\ q.at \in {"health", "undo", "save", "again", "fail", "failed"} /\ q.snap = 0 =>
           h.data \in Mixed(q) /\ (~h.unit.attached \/ h.unit.of.version \in Mixed(q))
      /\ q.at \in {"health", "undo", "save"} /\ q.snap = 0 => h.data # "none"
RestoresSnap(q, h) ==
  /\ q.at \in {"mark", "render", "pull", "restart", "health", "undo", "save"} => q.snap = 0 \/ OldSnap(q, h)
  /\ q.at \in {"remove", "restore"} => OldSnap(q, h)
CanRestore(q, a, h) == RestoresFile(q, a, h) /\ RestoresData(q, h) /\ RestoresSnap(q, h)

RestoresInv == \A r \in Requests : requests[r].alone /\ requests[r].clean => CanRestore(requests[r], app, host)

\* No snapshot has the number 0.
LEMMA SnapZero ==
  ASSUME NEW q, NEW h, GoodHost(h)
  PROVE  (HasSnap(q, h) => q.snap # 0) /\ (OldSnap(q, h) => q.snap # 0)
<1>1. h.snaps \subseteq [no : Nat \ {0}, data : Contents \ {"none"}]
  BY HostParts DEF GoodHost
<1> QED
  BY <1>1 DEF HasSnap, OldSnap

\* After a request fell, it stays clean only when all goes well.
LEMMA WellOnly ==
  ASSUME NEW r \in Requests, Sound(requests[r]), requests[r].clean, requests[r].fell # "none",
         NEW done, NEW good, NEW left, NEW bad,
         Outcome(r, done, good, left, bad), requests'[r].alone, requests'[r].clean
  PROVE  Same(requests'[r], requests[r]) /\ requests'[r].at = good /\ host' = done
<1>1. ~requests[r].gone
  BY DEF Sound
<1>2. ~Ill(r, bad, "fault")
  BY IdleIs DEF Ill, Gone
<1> QED
  BY <1>1, <1>2, WellAlone DEF Outcome

LEMMA SavesClean ==
  ASSUME NEW r \in Requests, NEW a, NEW m, NEW good, NEW bad, Saving(r, a, m, good, bad), requests'[r].alone, requests'[r].clean
  PROVE  Same(requests'[r], requests[r]) /\ requests'[r].at = good /\ app' = a
<1>1. ~Ill(r, bad, "save failed")
  BY IdleIs DEF Ill, Gone
<1> QED
  BY <1>1, WellAlone DEF Saving

\* The same request, with the same record and host, at a step that asks for less.
LEMMA EarlyRestore ==
  ASSUME TypeOK, NEW r \in Requests, Sound(requests[r]), HasDone(requests[r], app, host), requests[r].op = "upgrade",
         requests[r].clean, CanRestore(requests[r], app, host), requests'[r].alone, requests'[r].clean,
         Check(r) \/ Snap(r) \/ Mark(r) \/ Render(r) \/ Pull(r) \/ Fail(r)
  PROVE  CanRestore(requests'[r], app', host')
<1> DEFINE q == requests[r]
           p == requests'[r]
<1> USE GoodIs
<1>1. RestoresFile(q, app, host) /\ RestoresData(q, host) /\ RestoresSnap(q, host)
  BY DEF CanRestore
<1>2. CASE Check(r)
  <2>1. q.at = "check" /\ UNCHANGED <<app, host>>
    BY <1>2, CheckDoes DEF store
  <2>2. CASE Well(r, "failed")
    <3>1. Same(p, q) /\ p.at = "failed"
      BY <2>2, WellAlone
    <3> QED
      BY <1>1, <2>1, <2>2, <3>1 DEF CanRestore, RestoresFile, RestoresData, RestoresSnap, Same, Early, Old, Mixed
  <2>3. CASE Chosen(r)
    <3>1. p.at = "snap" /\ p.copy = app /\ p.was = q.was
      BY <2>3 DEF Chosen
    <3> QED
      BY <1>1, <2>1, <3>1 DEF CanRestore, RestoresFile, RestoresData, RestoresSnap, Early, Old
  <2> QED
    BY <1>2, <2>2, <2>3, CheckDoes
<1>3. CASE Snap(r)
  <2>1. q.at = "snap" /\ app' = app
    BY <1>3, SnapDoes DEF store
  <2>2. CASE host' = host /\ (Well(r, "failed") \/ Ill(r, "failed", "fault"))
    <3>1. Same(p, q) /\ p.at = "failed"
      BY <2>2, WellAlone, IllAlone
    <3> QED
      BY <1>1, <2>1, <2>2, <3>1 DEF CanRestore, RestoresFile, RestoresData, RestoresSnap, Same, Early, Old, Mixed
  <2>3. CASE host.data # "none" /\ host' = WithSnap(host) /\ Snapped(r)
    <3>1. /\ p.at = "mark" /\ p.copy = q.copy /\ p.was = q.was /\ p.entry = q.entry
          /\ p.snap = NewSnap(host) \/ p.snap = 0
      BY <2>3 DEF Snapped
    <3>2. /\ host'.compose = host.compose /\ host'.data = host.data /\ host'.unit = host.unit
          /\ \E s \in host'.snaps : s.no = NewSnap(host) /\ s.data = host.data
      BY <2>3, WithSnapIs
    <3>3. host.data \in Old(q) /\ Old(p) = Old(q)
      BY <1>1, <2>1, <3>1 DEF RestoresData, Early, Old
    <3>4. p.snap = 0 \/ OldSnap(p, host')
      BY <3>1, <3>2, <3>3 DEF OldSnap
    <3> QED
      BY <1>1, <2>1, <2>3, <3>1, <3>2, <3>3, <3>4 DEF CanRestore, RestoresFile, RestoresData, RestoresSnap, Early
  <2> QED
    BY <1>3, <2>2, <2>3, SnapDoes
<1>4. ASSUME q.at \in {"mark", "fail"}, host' = host, app'.version = app.version, Same(p, q),
             p.at = "failed" \/ (q.at = "mark" /\ p.at = "render")
      PROVE  CanRestore(p, app', host')
  <2>1. /\ Old(p) = Old(q) /\ Mixed(p) = Mixed(q) /\ Old(q) \subseteq Mixed(q) /\ q.was.unit.of.version \in Old(q)
        /\ OldSnap(q, host) => OldSnap(p, host)
    BY <1>4 DEF Same, Old, Mixed, OldSnap
  <2>2. RestoresFile(p, app', host')
    BY <1>1, <1>4 DEF RestoresFile, Same, Early
  <2>3. RestoresData(p, host')
    BY <1>1, <1>4, <2>1 DEF RestoresData, Same, Early
  <2>4. RestoresSnap(p, host')
    BY <1>1, <1>4, <2>1 DEF RestoresSnap, Same
  <2> QED
    BY <2>2, <2>3, <2>4 DEF CanRestore
<1>5. CASE Mark(r)
  <2> DEFINE a == [app EXCEPT !.status = MarkOf(q.op)]
  <2>1. q.at = "mark" /\ host' = host
        /\ ((UNCHANGED store /\ Well(r, "failed")) \/ (app # NoApp /\ Saving(r, a, maps, AfterMark(q.op), "failed")))
    BY <1>5, MarkDoes
  <2>2. AfterMark(q.op) = "render" /\ MarkOf(q.op) \in Statuses
    BY DEF AfterMark, MarkOf, Statuses
  <2>3. app # NoApp => a.version = app.version
    BY <2>2, StatusOf
  <2> HIDE DEF a
  <2>4. CASE UNCHANGED store /\ Well(r, "failed")
    BY <1>4, <2>1, <2>4, WellAlone DEF store
  <2>5. CASE app # NoApp /\ Saving(r, a, maps, "render", "failed")
    BY <1>4, <2>1, <2>3, <2>5, SavesClean
  <2> QED
    BY <2>1, <2>2, <2>4, <2>5
<1>6. CASE Fail(r)
  <2> DEFINE a == [app EXCEPT !.status = "error"]
  <2>1. q.at = "fail" /\ host' = host
        /\ ((UNCHANGED store /\ Well(r, "failed")) \/ (app # NoApp /\ Saving(r, a, maps, "failed", "failed")))
    BY <1>6, FailDoes
  <2>2. app # NoApp => a.version = app.version
    BY StatusOf DEF Statuses
  <2> HIDE DEF a
  <2>3. CASE UNCHANGED store /\ Well(r, "failed")
    BY <1>4, <2>1, <2>3, WellAlone DEF store
  <2>4. CASE app # NoApp /\ Saving(r, a, maps, "failed", "failed")
    BY <1>4, <2>1, <2>2, <2>4, SavesClean
  <2> QED
    BY <2>1, <2>3, <2>4
<1>7. CASE Render(r)
  <2>1. q.at = "render" /\ app' = app
    BY <1>7, RenderDoes
  <2>2. CASE host' = host /\ (Panics(r) \/ Well(r, "fail"))
    <3>1. Same(p, q) /\ p.at \in {"failed", "fail"}
      BY <2>2, WellAlone, IdleIs DEF Panics, Gone
    <3> QED
      BY <1>1, <2>1, <2>2, <3>1 DEF CanRestore, RestoresFile, RestoresData, RestoresSnap, Same, Early, Old, Mixed
  <2>3. CASE host.compose # NoFile /\ host' = Rewritten(r) /\ Well(r, "pull")
    <3> DEFINE c == [version |-> q.entry, pars |-> Merged(r)[q.copy.map]]
    <3>1. c \in Composes /\ host' = [Kept(host) EXCEPT !.compose = c]
      BY <2>1, <2>3, MergedIs DEF Rewritten
    <3> HIDE DEF c
    <3>2. host'.backup = host.compose /\ host'.data = host.data /\ host'.unit = host.unit /\ host'.snaps = host.snaps
      BY <3>1, KeptIs
    <3>3. Same(p, q) /\ p.at = "pull"
      BY <2>3, WellAlone
    <3> QED
      <4>1. Old(p) = Old(q) /\ (OldSnap(q, host) => OldSnap(p, host'))
        BY <3>2, <3>3 DEF Same, Old, OldSnap
      <4>2. RestoresFile(p, app', host')
        BY <1>1, <2>1, <2>3, <3>2, <3>3 DEF RestoresFile, Same, Early
      <4>3. RestoresData(p, host')
        BY <1>1, <2>1, <3>2, <3>3, <4>1 DEF RestoresData, Same, Early
      <4>4. RestoresSnap(p, host')
        BY <1>1, <2>1, <3>3, <4>1 DEF RestoresSnap, Same
      <4> QED
        BY <4>2, <4>3, <4>4 DEF CanRestore
  <2> QED
    BY <1>7, <2>2, <2>3, RenderDoes
<1>8. CASE Pull(r)
  <2>1. q.at = "pull" /\ app' = app /\ host' = host
    BY <1>8, PullDoes DEF store
  <2>2. \/ p.at = "restart" \/ (p.at = "undo" /\ p.fell = "pull")
    BY <1>8, PullDoes, WellAlone DEF FellTo
  <2>3. p.copy = q.copy /\ p.was = q.was /\ p.snap = q.snap /\ p.entry = q.entry
    BY <1>8, PullDoes, WellAlone DEF FellTo, Same
  <2> QED
    BY <1>1, <2>1, <2>2, <2>3 DEF CanRestore, RestoresFile, RestoresData, RestoresSnap, Early, Old, OldSnap, Mixed
<1> QED
  BY <1>2, <1>3, <1>5, <1>6, <1>7, <1>8

LEMMA LateRestore ==
  ASSUME TypeOK, NEW r \in Requests, Sound(requests[r]), HasDone(requests[r], app, host), requests[r].op = "upgrade",
         requests[r].clean, CanRestore(requests[r], app, host), requests'[r].alone, requests'[r].clean,
         \/ Restart(r) \/ Health(r) \/ Undo(r) \/ SaveData(r) \/ RemoveData(r) \/ RestoreData(r)
         \/ Again(r) \/ Finish(r) \/ Tidy(r)
  PROVE  CanRestore(requests'[r], app', host')
<1> DEFINE q == requests[r]
           p == requests'[r]
<1> USE GoodIs
<1>1. RestoresFile(q, app, host) /\ RestoresData(q, host) /\ RestoresSnap(q, host)
  BY DEF CanRestore
<1>2. q.at \in Failing => q.fell # "none"
  BY DEF Sound
<1>3. CASE Restart(r)
  <2>1. q.at = "restart" /\ app' = app
    BY <1>3, UpRestartDoes DEF store
  <2>2. p.copy = q.copy /\ p.was = q.was /\ p.snap = q.snap /\ p.entry = q.entry
        /\ (p.at = "health" \/ (p.at = "undo" /\ p.fell = "restart"))
    BY <1>3, UpRestartDoes, WellAlone DEF FellTo, Same
  <2>3. host' \in {host, Restarted(host)} \/ (Usable(host) /\ host' \in RestartLeft(host))
    BY <1>3, UpRestartDoes
  <2>4. host.data # "none" /\ host.data \in Old(q) /\ host.unit.of = q.was.unit.of /\ host.compose.version = q.entry
    BY <1>1, <2>1 DEF RestoresData, HasDone, Upgrades
  <2>5. /\ host'.backup = host.backup /\ host'.snaps = host.snaps /\ host'.data = host.data
        /\ ~host'.unit.attached \/ host'.unit.of \in {host.unit.of, host.compose}
    <3>1. \A h \in {host, Restarted(host)} :
            /\ h.backup = host.backup /\ h.snaps = host.snaps /\ h.data = host.data
            /\ ~h.unit.attached \/ h.unit.of \in {host.unit.of, host.compose}
      BY <2>4, RestartedIs DEF Unmoved
    <3> QED
      BY <2>3, <2>4, <3>1, RestartLeftIs DEF Unmoved
  <2>6. host'.data \in Mixed(p) /\ (~host'.unit.attached \/ host'.unit.of.version \in Mixed(p))
    BY <2>2, <2>4, <2>5 DEF Mixed, Old
  <2> QED
    BY <1>1, <2>1, <2>2, <2>4, <2>5, <2>6 DEF CanRestore, RestoresFile, RestoresData, RestoresSnap, Early, Old, OldSnap
<1>4. CASE Health(r)
  <2>1. q.at = "health" /\ app' = app /\ host' = host
    BY <1>4, HealthDoes DEF store
  <2>2. p.copy = q.copy /\ p.was = q.was /\ p.snap = q.snap /\ p.entry = q.entry
        /\ (p.at = "finish" \/ (p.at = "undo" /\ p.fell = "health"))
    BY <1>4, HealthDoes, WellAlone DEF FellTo, Same
  <2> QED
    BY <1>1, <2>1, <2>2 DEF CanRestore, RestoresFile, RestoresData, RestoresSnap, Early, Old, OldSnap, Mixed
<1>5. CASE Undo(r)
  <2> DEFINE undone == [host EXCEPT !.compose = host.backup]
             next == IF q.fell = "pull" THEN "fail" ELSE "save"
  <2>1. q.at = "undo" /\ app' = app
    BY <1>5, UndoDoes DEF store
  <2>2. host.backup # NoFile /\ host.backup = q.was.compose
    BY <1>1, <2>1 DEF RestoresFile
  <2>3. \/ host' = undone /\ Well(r, next)
        \/ Ill(r, next, "fault")
    BY <1>5, <2>2, UndoDoes
  <2>4. undone.compose = q.was.compose /\ undone.data = host.data /\ undone.unit = host.unit /\ undone.snaps = host.snaps
    BY <2>2, HostParts, NewCompose DEF GoodHost
  <2> HIDE DEF undone, next
  <2>5. ~Ill(r, next, "fault")
    BY <1>2, <2>1, IdleIs DEF Ill, Gone, Failing
  <2>6. host' = undone /\ Same(p, q) /\ p.at = next
    BY <2>3, <2>5, WellAlone
  <2>7. (p.at = "fail" /\ q.fell = "pull") \/ p.at = "save"
    BY <2>6 DEF next
  <2> QED
    <3>1. /\ Old(p) = Old(q) /\ Mixed(p) = Mixed(q) /\ Old(q) \subseteq Mixed(q) /\ q.was.unit.of.version \in Old(q)
          /\ OldSnap(q, host) => OldSnap(p, host')
      BY <2>4, <2>6 DEF Same, Old, OldSnap, Mixed
    <3>2. RestoresFile(p, app', host')
      BY <1>1, <2>1, <2>4, <2>6, <2>7 DEF RestoresFile, Same, Early
    <3>3. RestoresData(p, host')
      BY <1>1, <2>1, <2>4, <2>6, <2>7, <3>1 DEF RestoresData, Same, Early
    <3>4. RestoresSnap(p, host')
      BY <1>1, <2>1, <2>6, <2>7, <3>1 DEF RestoresSnap, Same
    <3> QED
      BY <3>2, <3>3, <3>4 DEF CanRestore
<1>6. ASSUME q.at \in {"save", "remove", "restore"}
      PROVE  /\ q.fell # "none" /\ OnError(q) \in {"again", "fail"} /\ AfterAll(q) \in {"again", "fail"}
             /\ (q.at = "save" /\ q.snap = 0 /\ ~HasSnap(q, host)) \/ (q.snap # 0 /\ OldSnap(q, host) /\ HasSnap(q, host))
  <2>1. q.fell # "none" /\ OnError(q) \in {"again", "fail"} /\ AfterAll(q) \in {"again", "fail"}
    BY <1>2, <1>6 DEF Failing, OnError, AfterAll
  <2>2. (q.at = "save" /\ q.snap = 0) \/ OldSnap(q, host)
    BY <1>1, <1>6 DEF RestoresSnap
  <2>3. OldSnap(q, host) => HasSnap(q, host)
    BY DEF OldSnap, HasSnap
  <2> QED
    BY <2>1, <2>2, <2>3, SnapZero
<1>6a. CASE SaveData(r) /\ q.snap = 0
  <2>1. q.at = "save" /\ app' = app
    BY <1>6a, SaveDoes DEF store
  <2>2. host' = host /\ Same(p, q) /\ p.at = OnError(q)
    BY <1>6, <1>6a, <2>1, SaveDoes, WellAlone
  <2>3. p.at \in {"again", "fail"}
    BY <1>6, <2>1, <2>2
  <2> QED
    BY <1>1, <1>6a, <2>1, <2>2, <2>3 DEF CanRestore, RestoresFile, RestoresData, RestoresSnap, Same, Early, Mixed, Old
<1>7. CASE SaveData(r) /\ q.snap # 0
  <2> DEFINE done == IF host.data = "none" THEN host ELSE WithSnap(host)
  <2>1. q.at = "save" /\ app' = app
    BY <1>7, SaveDoes DEF store
  <2>2. Outcome(r, done, "remove", {host, done}, OnError(q))
    BY <1>6, <1>7, <2>1, SaveDoes
  <2>2a. OldSnap(q, host)
    BY <1>6, <1>7, <2>1
  <2>3. done.compose = host.compose /\ host.snaps \subseteq done.snaps
    BY WithSnapIs
  <2> HIDE DEF done
  <2>4. host' = done /\ Same(p, q) /\ p.at = "remove"
    BY <1>6, <2>1, <2>2, WellOnly
  <2>5. OldSnap(p, host')
    BY <2>3, <2>4, <2>2a DEF OldSnap, Same, Old
  <2> QED
    BY <1>1, <2>1, <2>3, <2>4, <2>5 DEF CanRestore, RestoresFile, RestoresData, RestoresSnap, Same, Early
<1>8. CASE RemoveData(r)
  <2> DEFINE done == [host EXCEPT !.data = "none", !.unit.attached = FALSE]
  <2>1. q.at = "remove" /\ app' = app
    BY <1>8, RemoveDoes DEF store
  <2>2. Outcome(r, done, "restore", {host, done}, OnError(q))
    BY <1>6, <1>8, <2>1, RemoveDoes
  <2>3. done.compose = host.compose /\ host.snaps = done.snaps /\ done.data = "none" /\ ~done.unit.attached
    BY RemovedIs DEF Unmoved
  <2> HIDE DEF done
  <2>4. host' = done /\ Same(p, q) /\ p.at = "restore"
    BY <1>6, <2>1, <2>2, WellOnly
  <2>5. OldSnap(p, host')
    BY <1>1, <2>1, <2>3, <2>4 DEF RestoresSnap, OldSnap, Same, Old
  <2> QED
    BY <1>1, <2>1, <2>3, <2>4, <2>5 DEF CanRestore, RestoresFile, RestoresData, RestoresSnap, Same, Early
<1>9. CASE RestoreData(r)
  <2> DEFINE done == IF host.data = "none" THEN [host EXCEPT !.data = TheSnap(q, host).data] ELSE host
  <2>1. q.at = "restore" /\ app' = app
    BY <1>9, RestoreDoes DEF store
  <2>2. Outcome(r, done, AfterAll(q), {host, done}, OnError(q)) /\ HasSnap(q, host)
    BY <1>6, <1>9, <2>1, RestoreDoes
  <2>3. done.compose = host.compose /\ done.data = TheSnap(q, host).data /\ done.data # "none" /\ done.unit = host.unit
    BY <1>1, <2>1, <2>2, RestoredIs DEF RestoresData, Unmoved
  <2>4. TheSnap(q, host).data \in Old(q)
    BY <1>1, <2>1, <2>2, TheSnapIs DEF RestoresSnap, OldSnap
  <2>4a. q.snap # 0
    BY <1>6, <2>1
  <2> HIDE DEF done
  <2>5. host' = done /\ Same(p, q) /\ p.at = AfterAll(q)
    BY <1>6, <2>1, <2>2, WellOnly
  <2>6. p.at \in {"again", "fail"}
    BY <1>6, <2>1, <2>5
  <2> QED
    BY <1>1, <2>1, <2>3, <2>4, <2>5, <2>6, <2>4a DEF CanRestore, RestoresFile, RestoresData, RestoresSnap, Same, Early, Old
<1>10. CASE Again(r)
  <2>1. q.at = "again" /\ app' = app
    BY <1>10, AgainDoes DEF store
  <2>2. q.fell # "none" /\ host.data # "none" /\ host.compose = q.was.compose
    BY <1>1, <1>2, <2>1 DEF RestoresFile, RestoresData, Failing
  <2>3. /\ q.snap # 0 => host.data \in Old(q) /\ ~host.unit.attached
        /\ q.snap = 0 => host.data \in Mixed(q) /\ (~host.unit.attached \/ host.unit.of.version \in Mixed(q))
    BY <1>1, <2>1 DEF RestoresData
  <2>4. host' = Restarted(host) /\ Same(p, q) /\ p.at = "fail"
    BY <1>10, <2>2, AgainDoes, WellAlone, WellOnly
  <2>5. /\ host'.compose = host.compose /\ host'.data = host.data
        /\ host'.unit.of = host.compose \/ (host'.unit.of = host.unit.of /\ host'.unit.attached = host.unit.attached)
    BY <2>2, <2>4, RestartedIs DEF Unmoved
  <2>6. host.compose.version \in Old(q) /\ Old(p) = Old(q) /\ Mixed(p) = Mixed(q) /\ Old(q) \subseteq Mixed(q)
        /\ p.snap = q.snap
    BY <2>2, <2>4 DEF Old, Mixed, Same
  <2>7. /\ q.snap # 0 => host'.data \in Old(p) /\ (~host'.unit.attached \/ host'.unit.of.version \in Old(p))
        /\ q.snap = 0 => host'.data \in Mixed(p) /\ (~host'.unit.attached \/ host'.unit.of.version \in Mixed(p))
    BY <2>3, <2>5, <2>6
  <2> QED
    BY <1>1, <2>1, <2>2, <2>4, <2>5, <2>6, <2>7 DEF CanRestore, RestoresFile, RestoresData, RestoresSnap, Same, Early
<1>11. CASE Finish(r)
  <2>1. q.at = "finish" /\ app # NoApp
    BY <1>11, FinishDoes DEF HasDone, Upgrades
  <2>2. p.at = "tidy"
    BY <1>11, <2>1, FinishDoes, SavesClean
  <2> QED
    BY <2>2 DEF CanRestore, RestoresFile, RestoresData, RestoresSnap, Early
<1>12. CASE Tidy(r)
  <2>1. p.at = "ok"
    BY <1>12, TidyDoes, WellAlone
  <2> QED
    BY <2>1 DEF CanRestore, RestoresFile, RestoresData, RestoresSnap, Early
<1> QED
  BY <1>3, <1>4, <1>5, <1>7, <1>8, <1>9, <1>10, <1>11, <1>12, <1>6a

LEMMA RestoresStep ==
  ASSUME TypeOK, AllSound, AloneInv, AnswersInv, RestoresInv, Next
  PROVE  RestoresInv'
<1>1. ASSUME NEW r \in Requests, Arrive(r)
      PROVE  RestoresInv'
  <2> DEFINE p == requests'[r]
  <2>1. /\ \A s \in Requests \ {r} : ~requests'[s].alone
        /\ p.copy = NoApp /\ p.entry = "none" /\ p.at = FirstOf(p.op) /\ host' = host
        /\ p.clean => p.op = "upgrade"
        /\ p.alone /\ p.op = "upgrade" => p.was = host
    BY <1>1, ArriveDoes DEF Met, Compared
  <2>2. ASSUME p.alone, p.clean
        PROVE  CanRestore(p, app', host')
    <3>1. p.at = "check" /\ p.was = host /\ p.copy = NoApp /\ p.entry = "none" /\ host' = host
      BY <2>1, <2>2 DEF FirstOf
    <3> QED
      BY <3>1 DEF CanRestore, RestoresFile, RestoresData, RestoresSnap, Early, Old
  <2> QED
    BY <2>1, <2>2 DEF RestoresInv
<1>2. ASSUME NEW r \in Requests, Leave(r) \/ Run(r)
      PROVE  RestoresInv'
  <2>1. \A s \in Requests \ {r} : ~requests'[s].alone
    BY <1>2, OnlyRuns
  <2>2. SUFFICES ASSUME requests'[r].alone, requests'[r].clean PROVE CanRestore(requests'[r], app', host')
    BY <2>1 DEF RestoresInv
  <2>3. /\ Sound(requests[r]) /\ requests[r].alone /\ requests[r].clean
        /\ HasDone(requests[r], app, host) /\ CanRestore(requests[r], app, host)
    BY <1>2, <2>2, RunStays DEF AllSound, AnswersInv, RestoresInv, Stays
  <2>4. requests[r].op = "upgrade"
    BY <2>3 DEF Sound
  <2>5. ~Leave(r) /\ ~Answer(r)
    BY <2>2, LeaveDoes, AnswerDoes, IdleIs
  <2> QED
    BY <1>2, <2>2, <2>3, <2>4, <2>5, StepsOf, EarlyRestore, LateRestore
<1>3. CASE AppWrites
  <2>1. /\ requests' = requests /\ app' = app /\ host'.compose = host.compose /\ host'.backup = host.backup
        /\ host'.unit = host.unit /\ host'.snaps = host.snaps
        /\ host'.data # "none" /\ host'.data = host.unit.of.version /\ host.unit.attached
    BY <1>3, WritesDoes, Catalog DEF store, Unmoved
  <2>2. ASSUME NEW q, CanRestore(q, app, host)
        PROVE  CanRestore(q, app, host')
    <3>1. RestoresFile(q, app, host') /\ RestoresSnap(q, host')
      BY <2>1, <2>2 DEF CanRestore, RestoresFile, RestoresSnap, OldSnap
    <3>2. RestoresData(q, host')
      BY <2>1, <2>2 DEF CanRestore, RestoresData, Old, Mixed
    <3> QED
      BY <3>1, <3>2 DEF CanRestore
  <2> QED
    BY <2>1, <2>2 DEF RestoresInv
<1>4. CASE SaveOther
  BY <1>4 DEF SaveOther, RestoresInv
<1>5. CASE Restarts
  BY <1>5, IdleIs DEF Restarts, RestoresInv
<1> QED
  BY <1>1, <1>2, <1>3, <1>4, <1>5 DEF Next

------------------------------------------------------------------------------
(* The store and the host, as long as nothing goes wrong.                      *)

Calm == events \cap {"fault", "stopped", "overlap", "save failed", "restart of none"} = {}
Changes(q) == q.op \in {"install", "delete"}
Firm(h) == h.backup # Torn /\ (h.unit.up => h.unit.active)

\* An installation and a deletion at a step, with record a and host h.
Installing(at, a, h) ==
  /\ at \notin {"stop", "cleanup"}
  /\ at \in {"make", "write", "snap", "start", "add"} => a = NoApp
  /\ at \in {"check", "make", "write", "snap", "start", "failed"} /\ a = NoApp => ~h.unit.up
  /\ at \in {"check", "failed", "ok"} /\ a # NoApp => Usable(h) /\ h.data # "none"
  /\ at \in {"write", "snap", "start", "add"} => h.data # "none"
  /\ at \in {"snap", "start", "add"} => Usable(h)
  /\ at = "ok" => a # NoApp
Deleting(at, a, h) ==
  /\ a = NoApp => ~h.unit.up
  /\ at \in {"files", "drop"} \cup Answers => ~h.unit.up
  /\ at = "stop" /\ a # NoApp => Usable(h)
  /\ at \in Answers => a = NoApp

Fits(q, a, h) ==
  /\ ~q.gone
  /\ q.op = "install" => Installing(q.at, a, h)
  /\ q.op = "delete" => Deleting(q.at, a, h)
  /\ ~Changes(q) /\ a = NoApp => q.at \in {"idle", "check", "mark", "failed"}
  /\ q.at = "restore" => HasSnap(q, h)

\* A rollback that has removed the data puts it back.
Matches == IF app = NoApp THEN ~host.unit.up
           ELSE Usable(host) /\ (host.data # "none" \/ \E r \in Requests : requests[r].at = "restore")

Agree ==
  /\ Firm(host)
  /\ \A r \in Requests : Fits(requests[r], app, host)
  /\ \A r \in Requests : Changes(requests[r]) => \A s \in Requests \ {r} : requests[s] = Idle
  /\ (\A r \in Requests : ~Changes(requests[r])) => Matches
StoreInv == Calm => Agree

LEMMA IdleFits ==
  ASSUME NEW a, NEW h
  PROVE  Fits(Idle, a, h) /\ ~Changes(Idle)
BY IdleIs DEF Fits, Changes

\* A request goes to a step, or answers and is forgotten.
Moves(r, at) ==
  /\ Others(r)
  /\ \/ requests'[r] = Idle /\ at \in Answers
     \/ /\ requests'[r].op = requests[r].op /\ requests'[r].at = at /\ requests'[r].gone = requests[r].gone
        /\ at = "restore" => requests'[r].snap = requests[r].snap

LEMMA WellMoves ==
  ASSUME NEW r \in Requests, NEW at, Well(r, at)
  PROVE  Moves(r, at)
BY DEF Well, Gone, Same, Moves

LEMMA NotIll ==
  ASSUME NEW r \in Requests, Calm'
  PROVE  /\ \A at : ~Ill(r, at, "fault") /\ ~Ill(r, at, "save failed")
         /\ \A at : FellTo(r, at) => Moves(r, "undo")
BY DEF Ill, FellTo, Calm, Moves

LEMMA CalmOutcome ==
  ASSUME NEW r \in Requests, Calm', ~requests[r].gone, NEW done, NEW good, NEW left, NEW bad, Outcome(r, done, good, left, bad)
  PROVE  host' = done /\ Moves(r, good)
BY NotIll, WellMoves DEF Outcome

LEMMA CalmSaving ==
  ASSUME NEW r \in Requests, Calm', NEW a, NEW m, NEW good, NEW bad, Saving(r, a, m, good, bad)
  PROVE  app' = a /\ Moves(r, good)
BY NotIll, WellMoves DEF Saving

\* One that installs or deletes.
LEMMA ChangesOn ==
  ASSUME NEW r \in Requests, Agree, NEW at, Moves(r, at), Firm(host'),
         \/ requests[r].op = "install" /\ Installing(at, app', host')
         \/ requests[r].op = "delete" /\ Deleting(at, app', host'),
         at # "restore"
  PROVE  Agree'
<1> DEFINE q == requests[r]
           p == requests'[r]
<1>1. Changes(q) /\ ~q.gone /\ \A s \in Requests \ {r} : requests[s] = Idle
  BY DEF Agree, Changes, Fits
<1>2. \A s \in Requests \ {r} : requests'[s] = Idle
  BY <1>1 DEF Moves, Others
<1>3. CASE p = Idle /\ at \in Answers
  <2>1. Matches'
    BY <1>3 DEF Installing, Deleting, Answers, Matches
  <2>2. \A s \in Requests : requests'[s] = Idle
    BY <1>2, <1>3
  <2>3. \A s \in Requests : Fits(requests'[s], app', host') /\ ~Changes(requests'[s])
    BY <2>2, IdleFits
  <2> QED
    BY <2>1, <2>3 DEF Agree
<1>4. CASE p.op = q.op /\ p.at = at /\ p.gone = q.gone
  <2>2. Fits(p, app', host') /\ Changes(p)
    BY <1>1, <1>4 DEF Fits, Changes
  <2> QED
    BY <1>2, <2>2, IdleFits DEF Agree
<1> QED
  BY <1>3, <1>4 DEF Moves

\* One that does not.
LEMMA KeepsOn ==
  ASSUME NEW r \in Requests, Agree, requests[r] # Idle, ~Changes(requests[r]), NEW at, Moves(r, at), Firm(host'),
         app' = NoApp <=> app = NoApp,
         host.snaps \subseteq host'.snaps,
         app = NoApp => (host'.unit.up => host.unit.up) /\ (at = "failed" \/ requests'[r] = Idle),
         app # NoApp => /\ Usable(host')
                        /\ host'.data # "none" \/ at = "restore" \/ (host.data = "none" /\ requests[r].at # "restore"),
         at = "restore" => HasSnap(requests[r], host')
  PROVE  Agree'
<1> DEFINE q == requests[r]
           p == requests'[r]
<1>1. \A s \in Requests : ~Changes(requests[s])
  BY DEF Agree
<1>2. \A s \in Requests \ {r} : requests'[s] = requests[s]
  BY DEF Moves, Others
<1>3. \A s \in Requests : HasSnap(requests[s], host) => HasSnap(requests[s], host')
  BY DEF HasSnap
<1>4. ASSUME NEW s \in Requests \ {r}
      PROVE  Fits(requests'[s], app', host') /\ ~Changes(requests'[s])
  BY <1>1, <1>2, <1>3 DEF Agree, Fits, Changes
<1>5. Fits(p, app', host') /\ ~Changes(p)
  <2>1. CASE p = Idle
    BY <2>1, IdleFits
  <2>2. CASE p # Idle
    <3>1. p.op = q.op /\ p.at = at /\ p.gone = q.gone /\ (at = "restore" => p.snap = q.snap)
      BY <2>2 DEF Moves
    <3>2. ~q.gone
      BY DEF Agree, Fits
    <3> QED
      BY <2>2, <3>1, <3>2 DEF Fits, Changes, HasSnap
  <2> QED
    BY <2>1, <2>2
<1>6. Matches'
  <2>1. Matches
    BY <1>1 DEF Agree
  <2>2. at = "restore" => p.at = "restore"
    BY DEF Moves, Answers
  <2>3. ASSUME NEW s \in Requests, requests[s].at = "restore", q.at # "restore"
        PROVE  \E t \in Requests : requests'[t].at = "restore"
    BY <1>2, <2>3
  <2> QED
    BY <2>1, <2>2, <2>3 DEF Matches
<1> QED
  BY <1>4, <1>5, <1>6 DEF Agree

LEMMA InstallAgree ==
  ASSUME TypeOK, NEW r \in Requests, Sound(requests[r]), Agree, Calm', Run(r), requests[r].op = "install"
  PROVE  Agree'
<1> DEFINE q == requests[r]
<1> USE GoodIs
<1>1. Installing(q.at, app, host) /\ ~q.gone /\ Firm(host)
  BY DEF Agree, Fits
<1>2. ASSUME NEW at, Moves(r, at), Firm(host'), Installing(at, app', host'), at # "restore"
      PROVE  Agree'
  BY <1>2, ChangesOn
<1>3. CASE Check(r)
  <2>1. app' = app /\ host' = host /\ q.at = "check"
    BY <1>3, CheckDoes DEF store
  <2>2. CASE Well(r, "failed")
    BY <1>1, <1>2, <2>1, <2>2, WellMoves DEF Installing
  <2>3. CASE Chosen(r) /\ app = NoApp
    <3>1. Moves(r, "make")
      BY <2>3 DEF Chosen, Moves
    <3> QED
      BY <1>1, <1>2, <2>1, <2>3, <3>1 DEF Installing
  <2> QED
    BY <1>3, <2>2, <2>3, CheckDoes
<1>4. CASE Make(r)
  <2> DEFINE made == [host EXCEPT !.data = IF @ = "none" THEN "empty" ELSE @]
  <2>1. made.data # "none" /\ made.unit = host.unit /\ made.backup = host.backup
    BY MadeIs DEF Unmoved
  <2>2. Outcome(r, made, "write", {host}, "failed") /\ q.at = "make" /\ app' = app
    BY <1>4, MakeDoes DEF store
  <2> HIDE DEF made
  <2>3. host' = made /\ Moves(r, "write")
    BY <1>1, <2>2, CalmOutcome
  <2> QED
    BY <1>1, <1>2, <2>1, <2>2, <2>3 DEF Installing, Firm
<1>5. CASE Write(r)
  <2> DEFINE c == [version |-> q.entry, pars |-> q.pars]
             written == [host EXCEPT !.compose = c]
  <2>1. c \in Composes \ {NoFile, Torn}
    BY <1>5, WriteDoes, Parts, FileKinds DEF Sound, Answers
  <2>2. Outcome(r, written, "snap", {RemoveAll(host)}, "failed") /\ q.at = "write" /\ app' = app
    BY <1>5, WriteDoes DEF store
  <2> HIDE DEF c
  <2>3. written.compose = c /\ written.data = host.data /\ written.unit = host.unit /\ written.backup = host.backup
    BY <2>1, NewCompose
  <2> HIDE DEF written
  <2>4. host' = written /\ Moves(r, "snap")
    BY <1>1, <2>2, CalmOutcome
  <2> QED
    BY <1>1, <1>2, <2>1, <2>2, <2>3, <2>4 DEF Installing, Firm, Usable
<1>6. CASE Snap(r)
  <2>1. q.at = "snap" /\ app' = app
    BY <1>6, SnapDoes DEF store
  <2>2. host'.data = host.data /\ host'.compose = host.compose /\ host'.unit = host.unit /\ host'.backup = host.backup
    BY <1>6, SnapDoes, WithSnapIs
  <2>3. Moves(r, "start")
    <3>1. Snapped(r) => Moves(r, "start")
      BY DEF Snapped, Moves
    <3>2. Well(r, "start") \/ Snapped(r)
      BY <1>6, NotIll, SnapDoes
    <3> QED
      BY <3>1, <3>2, WellMoves
  <2> QED
    BY <1>1, <1>2, <2>1, <2>2, <2>3 DEF Installing, Firm, Usable
<1>7. CASE Start(r)
  <2>1. q.at = "start" /\ app' = app /\ Usable(host)
    BY <1>1, <1>7, StartDoes DEF store, Installing
  <2>2. Outcome(r, Started(host), "add", StartLeft(host), "cleanup")
    BY <1>7, <2>1, StartDoes
  <2>3. host' = Started(host) /\ Moves(r, "add")
    BY <1>1, <2>2, CalmOutcome
  <2>4. /\ host'.compose = host.compose /\ host'.backup = host.backup /\ host'.unit.active
        /\ host.data # "none" => host'.data = host.data
    BY <2>1, <2>3, StartedIs DEF Unmoved
  <2> QED
    BY <1>1, <1>2, <2>1, <2>3, <2>4 DEF Installing, Firm, Usable
<1>8. CASE Add(r)
  <2> DEFINE m == Append(maps, q.pars)
             a == [status |-> "running", version |-> q.entry, map |-> Len(m)]
  <2>1. a # NoApp
    <3>1. a.status # NoApp.status
      BY DEF NoApp
    <3> QED
      BY <3>1
  <2>2. q.at = "add" /\ host' = host
    BY <1>8, AddDoes
  <2>3. Saving(r, a, m, "ok", "stop")
    BY <1>1, <1>8, <2>2, AddDoes DEF Installing
  <2> HIDE DEF a, m
  <2>4. app' # NoApp /\ Moves(r, "ok")
    BY <2>1, <2>3, CalmSaving
  <2> QED
    BY <1>1, <1>2, <2>2, <2>4 DEF Installing
<1>9. CASE Stop(r) \/ CleanUp(r)
  BY <1>1, <1>9, StopDoes, CleanUpDoes DEF Installing
<1>10. CASE Answer(r)
  <2>1. q.at \in Answers /\ UNCHANGED <<app, host>> /\ Moves(r, q.at)
    BY <1>10, AnswerDoes DEF Moves, store
  <2> QED
    BY <1>1, <1>2, <2>1 DEF Answers
<1> QED
  BY <1>3, <1>4, <1>5, <1>6, <1>7, <1>8, <1>9, <1>10, StepsOf

LEMMA DeleteAgree ==
  ASSUME TypeOK, NEW r \in Requests, Sound(requests[r]), Agree, Calm', Run(r), requests[r].op = "delete"
  PROVE  Agree'
<1> DEFINE q == requests[r]
<1> USE GoodIs
<1>1. Deleting(q.at, app, host) /\ ~q.gone /\ Firm(host)
  BY DEF Agree, Fits
<1>2. ASSUME NEW at, Moves(r, at), Firm(host'), Deleting(at, app', host'), at # "restore"
      PROVE  Agree'
  BY <1>2, ChangesOn
<1>3. CASE Stop(r)
  <2>1. app' = app /\ q.at = "stop" /\ Outcome(r, Stopped(host), "files", {host, Stopped(host)}, "files")
    BY <1>3, StopDoes DEF store
  <2>2. host' = Stopped(host) /\ Moves(r, "files")
    BY <1>1, <2>1, CalmOutcome
  <2>3. host'.backup = host.backup /\ ~host'.unit.up
    BY <1>1, <2>1, <2>2, StoppedIs DEF Unmoved, Firm, Deleting
  <2> QED
    BY <1>1, <1>2, <2>1, <2>2, <2>3 DEF Deleting, Firm, Answers
<1>4. CASE Files(r)
  <2> DEFINE emptied == [RemoveAll(host) EXCEPT !.snaps = {}]
  <2>1. emptied.unit.up = host.unit.up /\ emptied.backup = NoFile
    BY RemoveAllIs
  <2>2. app' = app /\ q.at = "files" /\ Well(r, "drop") /\ host' \in {host, emptied}
    BY <1>4, NotIll, FilesDoes DEF store
  <2> HIDE DEF emptied
  <2>3. ~host'.unit.up /\ Firm(host')
    BY <1>1, <2>1, <2>2, FileKinds DEF Deleting, Firm
  <2> QED
    BY <1>1, <1>2, <2>2, <2>3, WellMoves DEF Deleting, Answers
<1>5. CASE Drop(r)
  <2>1. q.at = "drop" /\ host' = host
    BY <1>5, DropDoes
  <2>2. app' = NoApp /\ \E at \in Answers : Moves(r, at)
    BY <1>5, DropDoes, CalmSaving, WellMoves DEF store, Answers
  <2> QED
    BY <1>1, <1>2, <2>1, <2>2 DEF Deleting, Answers
<1>6. CASE Answer(r)
  <2>1. q.at \in Answers /\ UNCHANGED <<app, host>> /\ Moves(r, q.at)
    BY <1>6, AnswerDoes DEF Moves, store
  <2> QED
    BY <1>1, <1>2, <2>1 DEF Answers
<1> QED
  BY <1>3, <1>4, <1>5, <1>6, StepsOf

\* With a host whose unit is as good, whose snapshots are there, and whose compose file and data are.
Keeps(g, h) ==
  /\ Firm(g) /\ h.snaps \subseteq g.snaps /\ Usable(g)
  /\ h.data # "none" => g.data # "none"

LEMMA KeptOn ==
  ASSUME NEW r \in Requests, Agree, requests[r] # Idle, ~Changes(requests[r]), NEW at, Moves(r, at), at # "restore",
         app # NoApp, app' # NoApp, Keeps(host', host), requests[r].at # "restore" \/ host'.data # "none"
  PROVE  Agree'
BY KeepsOn DEF Keeps

LEMMA KeepAgree ==
  ASSUME TypeOK, NEW r \in Requests, Sound(requests[r]), Agree, Calm', Run(r), ~Changes(requests[r])
  PROVE  Agree'
<1> DEFINE q == requests[r]
<1> USE GoodIs
<1>1. q # Idle /\ ~q.gone /\ Firm(host) /\ q.op \in Ops \ {"install", "delete"}
  BY RunStays, IdleIs, StepsOf DEF Agree, Fits, Changes
<1>2. /\ app = NoApp => ~host.unit.up /\ q.at \in {"check", "mark", "failed"}
      /\ app # NoApp => Keeps(host, host)
      /\ q.at = "restore" => HasSnap(q, host)
  <2>1. Matches
    BY <1>1 DEF Agree, Changes
  <2> QED
    BY <1>1, <2>1, RunStays DEF Agree, Fits, Matches, Keeps
<1>3. ASSUME app # NoApp, app' # NoApp, NEW at, Moves(r, at), at # "restore", Keeps(host', host), q.at # "restore"
      PROVE  Agree'
  BY <1>1, <1>3, KeptOn
<1>4. ASSUME NEW at, Moves(r, at), at = "failed" \/ requests'[r] = Idle, UNCHANGED <<app, host>>, at # "restore", q.at # "restore"
      PROVE  Agree'
  BY <1>1, <1>2, <1>4, KeepsOn DEF Keeps
<1>5. CASE Check(r) \/ Answer(r)
  <2>1. UNCHANGED <<app, host>> /\ q.at \in {"check"} \cup Answers
    BY <1>5, CheckDoes, AnswerDoes DEF store
  <2>2. CASE Chosen(r) /\ app # NoApp
    <3>1. Moves(r, "snap")
      BY <1>1, <2>2 DEF Chosen, Moves
    <3> QED
      BY <1>2, <1>3, <2>1, <2>2, <3>1 DEF Answers
  <2>3. CASE Well(r, "failed")
    BY <1>4, <2>1, <2>3, WellMoves DEF Answers
  <2>4. CASE Answer(r)
    <3>1. Moves(r, q.at) /\ requests'[r] = Idle
      BY <2>4, AnswerDoes DEF Moves
    <3> QED
      BY <1>4, <2>1, <3>1 DEF Answers
  <2> QED
    BY <1>1, <1>5, <2>2, <2>3, <2>4, CheckDoes
<1>6. CASE Mark(r) \/ Fail(r) \/ Done(r) \/ Finish(r)
  <2>1. host' = host /\ q.at \in {"mark", "fail", "done", "finish"}
    BY <1>6, MarkDoes, FailDoes, DoneDoes, FinishDoes
  <2>2. CASE app = NoApp
    BY <1>4, <1>6, <2>1, <2>2, MarkDoes, FailDoes, DoneDoes, FinishDoes, WellMoves DEF store
  <2>3. CASE app # NoApp
    <3>1. ASSUME NEW a, a # NoApp, NEW m, NEW good, NEW bad, good # "restore", Saving(r, a, m, good, bad)
          PROVE  Agree'
      <4>1. app' = a /\ Moves(r, good)
        BY <3>1, CalmSaving
      <4> QED
        BY <1>2, <1>3, <2>1, <2>3, <3>1, <4>1
    <3>2. ASSUME NEW s \in Statuses, NEW good, NEW bad, good # "restore", Saving(r, [app EXCEPT !.status = s], maps, good, bad)
          PROVE  Agree'
      <4> DEFINE a == [app EXCEPT !.status = s]
      <4>1. a # NoApp /\ Saving(r, a, maps, good, bad)
        BY <2>3, <3>2, StatusOf
      <4> HIDE DEF a
      <4> QED
        BY <3>1, <3>2, <4>1
    <3>3. CASE Mark(r)
      <4>1. MarkOf(q.op) \in Statuses /\ AfterMark(q.op) # "restore"
        BY <3>3, MarkDoes DEF MarkOf, AfterMark, Statuses
      <4> QED
        BY <2>3, <3>2, <3>3, <4>1, MarkDoes
    <3>4. CASE Fail(r)
      BY <2>3, <3>2, <3>4, FailDoes DEF Statuses
    <3>5. CASE Done(r)
      <4>1. (IF q.op = "stop" THEN "stopped" ELSE "running") \in Statuses
        BY DEF Statuses
      <4> QED
        BY <2>3, <3>2, <3>5, <4>1, DoneDoes
    <3>6. CASE Finish(r)
      <4> DEFINE a == [q.copy EXCEPT !.version = Newest, !.status = "running"]
      <4>1. q.copy \in Records(maps) /\ q.copy # NoApp
        BY <3>6, FinishDoes, Parts DEF Sound, Answers
      <4>2. a # NoApp /\ Saving(r, a, maps, "tidy", "failed")
        BY <2>3, <3>6, <4>1, FinishDoes, UpgradedOf
      <4> HIDE DEF a
      <4> QED
        BY <3>1, <4>2
    <3> QED
      BY <1>6, <3>3, <3>4, <3>5, <3>6
  <2> QED
    BY <2>2, <2>3
<1>7. CASE Snap(r)
  <2>1. q.at = "snap" /\ app' = app /\ q.op = "upgrade"
    BY <1>1, <1>7, SnapDoes DEF store
  <2>2. app # NoApp
    BY <1>2, <2>1
  <2>3. CASE Well(r, "failed") /\ host' = host
    BY <1>4, <2>1, <2>3, WellMoves
  <2>4. CASE Snapped(r) /\ host' = WithSnap(host) /\ host.data # "none"
    <3>1. Moves(r, "mark")
      BY <2>1, <2>4 DEF Snapped, Moves
    <3>2. Keeps(host', host)
      BY <1>2, <2>2, <2>4, WithSnapIs DEF Keeps, Firm, Usable
    <3> QED
      BY <1>3, <2>1, <2>2, <3>1, <3>2
  <2> QED
    BY <1>7, <2>1, <2>3, <2>4, SnapDoes, NotIll
<1>8. CASE Render(r)
  <2>1. app' = app /\ q.at = "render" /\ app # NoApp /\ q.op = "upgrade"
    BY <1>2, <1>8, RenderDoes
  <2>2. CASE host' = host
    <3>1. Panics(r) => Moves(r, "failed")
      BY DEF Panics, Gone, Same, Moves, Answers
    <3>2. Moves(r, "failed") \/ Moves(r, "fail") \/ Moves(r, "pull")
      BY <1>8, <3>1, RenderDoes, WellMoves, NotIll
    <3> QED
      BY <1>2, <1>3, <2>1, <2>2, <3>2
  <2>3. CASE host' = Rewritten(r) /\ Well(r, "pull")
    <3> DEFINE c == [version |-> q.entry, pars |-> Merged(r)[q.copy.map]]
    <3>1. c \in Composes \ {NoFile, Torn}
      BY <2>1, MergedIs
    <3>2. host' = [Kept(host) EXCEPT !.compose = c]
      BY <2>3 DEF Rewritten
    <3> HIDE DEF c
    <3>3. host'.compose = c /\ host'.backup = host.compose /\ host'.data = host.data
          /\ host'.unit = host.unit /\ host'.snaps = host.snaps
      BY <3>1, <3>2, KeptIs
    <3>4. Keeps(host', host)
      BY <1>1, <1>2, <2>1, <3>1, <3>3 DEF Keeps, Firm, Usable
    <3> QED
      BY <1>3, <2>1, <2>3, <3>4, WellMoves
  <2> QED
    BY <1>8, <2>2, <2>3, NotIll, RenderDoes
<1>9. CASE Pull(r) \/ Health(r)
  <2>1. UNCHANGED <<app, host>> /\ q.at \in {"pull", "health"} /\ app # NoApp
    BY <1>2, <1>9, PullDoes, HealthDoes DEF store
  <2>2. Moves(r, "restart") \/ Moves(r, "finish") \/ Moves(r, "undo")
    BY <1>9, PullDoes, HealthDoes, WellMoves, NotIll
  <2> QED
    BY <1>2, <1>3, <2>1, <2>2
<1>10. ASSUME app # NoApp, Usable(host)
       PROVE  Keeps(Restarted(host), host)
  BY <1>1, <1>10, RestartedIs DEF Keeps, Unmoved, Firm, Usable
<1>11. CASE Restart(r)
  <2>1. app' = app /\ q.at = "restart" /\ app # NoApp /\ Usable(host)
    BY <1>2, <1>11, RestartDoes, UpRestartDoes DEF store, Keeps
  <2>2. CASE q.op # "upgrade"
    <3> DEFINE good == IF q.op = "restart" THEN "ok" ELSE "done"
               bad == IF q.op = "restart" THEN "failed" ELSE "fail"
    <3>1. Outcome(r, Restarted(host), good, RestartLeft(host), bad)
      BY <1>11, <2>1, <2>2, RestartDoes
    <3>2. host' = Restarted(host) /\ Moves(r, good)
      BY <1>1, <3>1, CalmOutcome
    <3> QED
      BY <1>3, <1>10, <2>1, <3>2
  <2>3. CASE q.op = "upgrade"
    <3>1. "fault" \notin events'
      BY DEF Calm
    <3>2. Well(r, "health") /\ host' = Restarted(host)
      BY <1>1, <1>11, <2>1, <2>3, <3>1, UpRestartDoes
    <3> QED
      BY <1>3, <1>10, <2>1, <3>2, WellMoves
  <2> QED
    BY <2>2, <2>3
<1>12. CASE Undo(r)
  <2> DEFINE next == IF q.fell = "pull" THEN "fail" ELSE "save"
             undone == [host EXCEPT !.compose = host.backup]
  <2>1. app' = app /\ q.at = "undo" /\ app # NoApp
    BY <1>2, <1>12, UndoDoes DEF store
  <2>2. Moves(r, next) /\ (host' = host \/ (host.backup # NoFile /\ host' = undone))
    BY <1>12, UndoDoes, WellMoves, NotIll
  <2>3. ASSUME host.backup # NoFile PROVE Keeps(undone, host)
    <3>1. undone.compose = host.backup /\ undone.backup = host.backup /\ undone.data = host.data /\ undone.unit = host.unit
          /\ undone.snaps = host.snaps
      BY HostParts, NewCompose DEF GoodHost
    <3> HIDE DEF undone
    <3> QED
      BY <1>1, <2>3, <3>1 DEF Keeps, Firm, Usable
  <2> HIDE DEF undone
  <2> QED
    BY <1>2, <1>3, <2>1, <2>2, <2>3
<1>13. OnError(q) # "restore" /\ AfterAll(q) # "restore"
  BY DEF OnError, AfterAll
<1>14. CASE SaveData(r)
  <2> DEFINE done == IF host.data = "none" THEN host ELSE WithSnap(host)
  <2>1. app' = app /\ q.at = "save" /\ app # NoApp
    BY <1>2, <1>14, SaveDoes DEF store
  <2>2. Keeps(done, host)
    BY <1>2, <2>1, WithSnapIs DEF Keeps, Firm, Usable
  <2>3. Outcome(r, done, "remove", {host, done}, OnError(q)) \/ (host' = host /\ Well(r, OnError(q)))
    BY <1>14, SaveDoes
  <2> HIDE DEF done
  <2>4. (host' = done /\ Moves(r, "remove")) \/ (host' = host /\ Moves(r, OnError(q)))
    BY <1>1, <2>3, CalmOutcome, WellMoves
  <2> QED
    BY <1>2, <1>3, <1>13, <2>1, <2>2, <2>4
<1>15. CASE RemoveData(r)
  <2> DEFINE done == [host EXCEPT !.data = "none", !.unit.attached = FALSE]
  <2>1. app' = app /\ q.at = "remove" /\ app # NoApp
    BY <1>2, <1>15, RemoveDoes DEF store
  <2>2. done.compose = host.compose /\ done.backup = host.backup /\ done.snaps = host.snaps
        /\ done.unit.up = host.unit.up /\ done.unit.active = host.unit.active
    BY RemovedIs DEF Unmoved
  <2>3. \/ HasSnap(q, host) /\ Outcome(r, done, "restore", {host, done}, OnError(q))
        \/ host' = host /\ Well(r, OnError(q))
    BY <1>15, RemoveDoes
  <2> HIDE DEF done
  <2>4. (HasSnap(q, host) /\ host' = done /\ Moves(r, "restore")) \/ (host' = host /\ Moves(r, OnError(q)))
    BY <1>1, <2>3, CalmOutcome, WellMoves
  <2>5. CASE host' = host /\ Moves(r, OnError(q))
    BY <1>2, <1>3, <1>13, <2>1, <2>5
  <2>6. CASE HasSnap(q, host) /\ host' = done /\ Moves(r, "restore")
    <3>1. Firm(host') /\ Usable(host') /\ HasSnap(q, host')
      BY <1>1, <1>2, <2>1, <2>2, <2>6 DEF Firm, Usable, Keeps, HasSnap
    <3> QED
      BY <1>1, <2>1, <2>2, <2>6, <3>1, KeepsOn
  <2> QED
    BY <2>4, <2>5, <2>6
<1>16. CASE RestoreData(r)
  <2> DEFINE done == IF host.data = "none" THEN [host EXCEPT !.data = TheSnap(q, host).data] ELSE host
  <2>1. app' = app /\ q.at = "restore" /\ app # NoApp /\ HasSnap(q, host)
    BY <1>2, <1>16, RestoreDoes DEF store
  <2>2. Keeps(done, host) /\ done.data # "none"
    <3>1. TheSnap(q, host).data \in Contents \ {"none"}
      BY <2>1, TheSnapIs
    <3> QED
      BY <1>2, <2>1, <3>1, NewData DEF Keeps, Firm, Usable
  <2>3. Outcome(r, done, AfterAll(q), {host, done}, OnError(q))
    BY <1>16, <2>1, RestoreDoes
  <2> HIDE DEF done
  <2>4. host' = done /\ Moves(r, AfterAll(q))
    BY <1>1, <2>3, CalmOutcome
  <2> QED
    BY <1>1, <1>13, <2>1, <2>2, <2>4, KeptOn
<1>17. CASE Again(r)
  <2>1. app' = app /\ q.at = "again" /\ app # NoApp /\ Usable(host)
    BY <1>2, <1>17, AgainDoes DEF store, Keeps
  <2>2. Outcome(r, Restarted(host), "fail", RestartLeft(host), "fail")
    BY <1>17, <2>1, AgainDoes
  <2>3. host' = Restarted(host) /\ Moves(r, "fail")
    BY <1>1, <2>2, CalmOutcome
  <2> QED
    BY <1>3, <1>10, <2>1, <2>3
<1>18. CASE Tidy(r)
  <2> DEFINE tidied == [host EXCEPT !.backup = NoFile]
  <2>1. app' = app /\ q.at = "tidy" /\ app # NoApp /\ host' = tidied /\ Moves(r, "ok")
    BY <1>2, <1>18, TidyDoes, WellMoves DEF store
  <2>2. tidied.compose = host.compose /\ tidied.backup = NoFile /\ tidied.data = host.data /\ tidied.unit = host.unit
        /\ tidied.snaps = host.snaps
    BY NewBackup, FileKinds
  <2> HIDE DEF tidied
  <2>3. Keeps(host', host)
    BY <1>2, <2>1, <2>2, FileKinds DEF Keeps, Firm, Usable
  <2> QED
    BY <1>3, <2>1, <2>3
<1>19. CASE Start(r)
  <2>1. app' = app /\ q.at = "start" /\ q.op = "start" /\ app # NoApp /\ Usable(host)
    BY <1>1, <1>2, <1>19, StartDoes DEF store, Keeps
  <2>2. Outcome(r, Started(host), "done", StartLeft(host), "fail")
    BY <1>19, <2>1, StartDoes
  <2>3. host' = Started(host) /\ Moves(r, "done")
    BY <1>1, <2>2, CalmOutcome
  <2>4. Keeps(host', host)
    BY <1>2, <2>1, <2>3, StartedIs DEF Keeps, Unmoved, Firm, Usable
  <2> QED
    BY <1>3, <2>1, <2>3, <2>4
<1>20. CASE Stop(r)
  <2>1. app' = app /\ q.at = "stop" /\ q.op = "stop" /\ app # NoApp
    BY <1>1, <1>2, <1>20, StopDoes DEF store
  <2>2. Outcome(r, Stopped(host), "done", {host, Stopped(host)}, "fail")
    BY <1>20, <2>1, StopDoes
  <2>3. host' = Stopped(host) /\ Moves(r, "done")
    BY <1>1, <2>2, CalmOutcome
  <2>4. Keeps(host', host)
    BY <1>2, <2>1, <2>3, StoppedIs DEF Keeps, Unmoved, Firm, Usable
  <2> QED
    BY <1>3, <2>1, <2>3, <2>4
<1>21. ~(Make(r) \/ Write(r) \/ Add(r) \/ CleanUp(r) \/ Files(r) \/ Drop(r))
  BY <1>1, MakeDoes, WriteDoes, AddDoes, CleanUpDoes, FilesDoes, DropDoes
<1> QED
  BY <1>5, <1>6, <1>7, <1>8, <1>9, <1>11, <1>12, <1>14, <1>15, <1>16, <1>17, <1>18, <1>19, <1>20, <1>21 DEF Run

LEMMA ArriveAgree ==
  ASSUME TypeOK, AllSound, NEW r \in Requests, Arrive(r), Agree, Calm'
  PROVE  Agree'
<1> DEFINE p == requests'[r]
<1>1. /\ requests[r] = Idle /\ app' = app /\ host' = host
      /\ p.op \in Ops /\ p.at = FirstOf(p.op) /\ p.gone = FALSE
      /\ \A s \in Requests \ {r} : Met(requests'[s], requests[s]) /\ (requests[s] = Idle => requests'[s] = Idle)
  BY ArriveDoes DEF store
<1>2. /\ Busy = {} \/ (p.op \notin {"install", "delete"} /\ \A s \in Busy : Op(s) \notin {"install", "delete"})
      /\ p.op = "restart" => app # NoApp
  BY ArriveDoes DEF Calm
<1>3. \A s \in Requests : ~Changes(requests[s])
  <2>1. \A s \in Requests : s \in Busy \/ requests[s] = Idle
    BY Whose DEF Busy, AllSound
  <2> QED
    BY <1>2, <2>1, IdleFits DEF Changes, Op
<1>4. \A s \in Requests : Changes(p) => requests[s] = Idle
  BY <1>2, Whose DEF Busy, AllSound, Changes
<1>5. Matches /\ Firm(host)
  BY <1>3 DEF Agree
<1>6. Fits(p, app', host')
  <2>1. ~p.gone /\ p.at # "restore"
    BY <1>1 DEF FirstOf, Ops
  <2>2. ASSUME Changes(p)
        PROVE  IF app = NoApp THEN ~host.unit.up ELSE Usable(host) /\ host.data # "none"
    BY <1>4, <1>5, <2>2, IdleIs DEF Matches
  <2>3. CASE p.op = "install"
    <3>1. p.at = "check" /\ Changes(p)
      BY <1>1, <2>3 DEF FirstOf, Changes
    <3> QED
      BY <1>1, <2>1, <2>2, <2>3, <3>1 DEF Fits, Installing
  <2>4. CASE p.op = "delete"
    <3>1. p.at = "stop" /\ Changes(p)
      BY <1>1, <2>4 DEF FirstOf, Changes
    <3> QED
      BY <1>1, <2>1, <2>2, <2>4, <3>1 DEF Fits, Deleting, Answers
  <2>5. CASE ~Changes(p)
    <3>1. app = NoApp => p.at \in {"check", "mark"}
      BY <1>1, <1>2, <2>5 DEF FirstOf, Ops, Changes
    <3> QED
      BY <1>1, <2>1, <2>5, <3>1 DEF Fits, Changes
  <2> QED
    BY <2>3, <2>4, <2>5 DEF Changes
<1>7. ASSUME NEW s \in Requests \ {r}
      PROVE  Fits(requests'[s], app', host') /\ ~Changes(requests'[s]) /\ (Changes(p) => requests'[s] = Idle)
  <2>1. Fits(requests[s], app, host) /\ Met(requests'[s], requests[s])
    BY <1>1 DEF Agree
  <2> QED
    BY <1>1, <1>3, <1>4, <2>1 DEF Fits, Met, Changes, HasSnap
<1>8. Matches'
  <2>1. ASSUME NEW s \in Requests, requests[s].at = "restore"
        PROVE  requests'[s].at = "restore"
    BY <1>1, <2>1, IdleIs DEF Met
  <2> QED
    BY <1>1, <1>5, <2>1 DEF Matches
<1> QED
  BY <1>1, <1>5, <1>6, <1>7, <1>8 DEF Agree

LEMMA StoreStep ==
  ASSUME TypeOK, AllSound, StoreInv, Next
  PROVE  StoreInv'
<1> SUFFICES ASSUME Calm' PROVE Agree'
  BY DEF StoreInv
<1>1. ASSUME NEW r \in Requests, Arrive(r)
      PROVE  Agree'
  <2>1. Agree
    BY <1>1, ArriveDoes DEF StoreInv, Calm
  <2> QED
    BY <1>1, <2>1, ArriveAgree
<1>2. ASSUME NEW r \in Requests, Run(r)
      PROVE  Agree'
  <2>1. Agree /\ Sound(requests[r])
    BY <1>2, RunStays DEF StoreInv, Calm, AllSound, Stays
  <2> QED
    BY <1>2, <2>1, InstallAgree, DeleteAgree, KeepAgree DEF Changes
<1>3. ASSUME NEW r \in Requests, Leave(r)
      PROVE  FALSE
  BY <1>3, LeaveDoes, NotIll
<1>4. CASE AppWrites
  <2>1. Agree /\ requests' = requests /\ app' = app
    BY <1>4, WritesDoes DEF StoreInv, Calm, store
  <2>2. host'.compose = host.compose /\ host'.backup = host.backup /\ host'.snaps = host.snaps /\ host'.unit = host.unit
        /\ host'.data # "none"
    BY <1>4, WritesDoes, Catalog DEF Unmoved
  <2>3. Firm(host') /\ (Usable(host) => Usable(host'))
    BY <2>1, <2>2 DEF Agree, Firm, Usable
  <2>4. ASSUME NEW r \in Requests
        PROVE  Fits(requests[r], app, host')
    <3>1. Fits(requests[r], app, host)
      BY <2>1 DEF Agree
    <3> QED
      BY <2>2, <2>3, <3>1 DEF Fits, Installing, Deleting, HasSnap
  <2>5. (\A r \in Requests : ~Changes(requests[r])) => Matches'
    BY <2>1, <2>2, <2>3 DEF Agree, Matches
  <2> QED
    BY <2>1, <2>3, <2>4, <2>5 DEF Agree
<1>5. CASE SaveOther
  BY <1>5 DEF SaveOther, StoreInv, Agree, Calm, Matches
<1>6. CASE Restarts
  BY <1>6 DEF Restarts, Fault, Calm
<1> QED
  BY <1>1, <1>2, <1>3, <1>4, <1>5, <1>6 DEF Next

------------------------------------------------------------------------------
(* The inductive invariant, and what follows from it.                          *)

IInv ==
  /\ TypeOK /\ AllSound /\ AloneInv /\ SettledInv /\ SavedInv /\ AnswersInv /\ RestoresInv /\ StoreInv

LEMMA InitInv == Init => IInv
<1> SUFFICES ASSUME Init PROVE IInv
  OBVIOUS
<1>1. PICK g \in Given : app = g.app /\ maps = g.maps /\ host = g.host
  BY DEF Init
<1>2. /\ maps \in Seq(Pars) /\ app \in Records(maps) /\ app.status \in {"none", "running", "stopped", "error"}
      /\ host \in Hosts /\ IsFiniteSet(host.snaps) /\ \A s, t \in host.snaps : s.no = t.no => s = t
      /\ host.backup # Torn /\ (host.unit.up => host.unit.active)
      /\ IF app = NoApp THEN ~host.unit.up ELSE Usable(host) /\ host.data # "none"
  BY <1>1, GivenAssumption
<1>3. saved = Form(app, maps) /\ \A r \in Requests : requests[r] = Idle
  BY DEF Init
<1>4. requests \in [Requests -> Requested]
  BY IdleIs DEF Init
<1>5. saved.pars \in Pars /\ saved.rec \in [status : Statuses, version : Known, map : Nat] \cup {NoApp}
  <2>1. CASE app = NoApp
    BY <1>3, <2>1 DEF Form, Pars
  <2>2. CASE app # NoApp
    <3>1. app \in [status : Statuses, version : Known, map : 1..Len(maps)] /\ Len(maps) \in Nat
      BY <1>2, <2>2 DEF Records
    <3>2. maps[app.map] \in Pars /\ saved.rec = app /\ saved.pars = maps[app.map]
      BY <1>2, <1>3, <2>2, <3>1 DEF Form
    <3>3. app \in [status : Statuses, version : Known, map : Nat]
      BY <3>1
    <3> QED
      BY <3>2, <3>3
  <2> QED
    BY <2>1, <2>2
<1>6. TypeOK
  BY <1>2, <1>4, <1>5 DEF TypeOK
<1>7. AllSound /\ AloneInv /\ AnswersInv /\ RestoresInv
  BY <1>3, IdleIs DEF AllSound, AloneInv, AnswersInv, RestoresInv
<1>8. SettledInv
  BY <1>2 DEF SettledInv, Closing, Settled
<1>9. SavedInv
  BY <1>3 DEF SavedInv, Saved, Form
<1>10. StoreInv
  BY <1>2, <1>3, IdleFits DEF StoreInv, Agree, Firm, Matches
<1> QED
  BY <1>6, <1>7, <1>8, <1>9, <1>10 DEF IInv

LEMMA StepInv == IInv /\ [Next]_vars => IInv'
<1>1. CASE IInv /\ Next
  BY <1>1, TypeStep, SoundStep, AloneStep, SettledStep, SavedStep, AnswersStep, RestoresStep, StoreStep DEF IInv
<1>2. CASE IInv /\ UNCHANGED vars
  <2>1. UNCHANGED <<app, saved, maps, host, requests, events>>
    BY <1>2 DEF vars
  <2>2. TypeOK' /\ AllSound' /\ AloneInv'
    BY <1>2, <2>1 DEF IInv, TypeOK, AllSound, AloneInv, Requested
  <2>3. SettledInv' /\ SavedInv'
    BY <1>2, <2>1 DEF IInv, SettledInv, Closing, SavedInv, Saved
  <2>4. AnswersInv' /\ RestoresInv'
    BY <1>2, <2>1 DEF IInv, AnswersInv, RestoresInv
  <2>5. StoreInv'
    BY <1>2, <2>1 DEF IInv, StoreInv, Calm, Agree, Matches
  <2> QED
    BY <2>2, <2>3, <2>4, <2>5 DEF IInv
<1> QED
  BY <1>1, <1>2

\* The store, its file, the host and the requests stay of their types, and with them what requests that
\* run in any order leave to each other: the inductive invariant (AppLifecycle, StateStore).
THEOREM AppsInv == Spec => []IInv
BY InitInv, StepInv, PTL DEF Spec

LEMMA QuietIs ==
  ASSUME IInv, Busy = {}
  PROVE  \A r \in Requests : requests[r] = Idle /\ ~Changes(requests[r]) /\ ~Closes(requests[r]) /\ ~Renders(requests[r])
<1>1. \A r \in Requests : requests[r] = Idle
  BY Whose DEF IInv, AllSound, Busy
<1> QED
  BY <1>1, IdleIs DEF Changes, Closes, ClosesAt, Renders

\* When no request is at work the status is one that stays, whichever start, stop, upgrade and rollback ran at
\* once (StateStore.UpdateAppStatus at the end of each of their paths).
THEOREM SettledIsKept == Spec => []QuietIsSettled
<1>1. IInv => QuietIsSettled
  BY QuietIs DEF IInv, QuietIsSettled, QuietWithout, SettledInv, Closing, Settled
<1> QED
  BY <1>1, AppsInv, PTL

\* A request that answers with success and met no other has done what it says (apps_handler.go).
THEOREM AnswersAreTrue == Spec => []AnsweredIsTrue
<1>1. ASSUME IInv PROVE AnsweredIsTrue
  <2> SUFFICES ASSUME NEW r \in Requests, requests[r].at = "ok", requests[r].alone PROVE Says(requests[r])
    BY DEF AnsweredIsTrue
  <2>1. HasDone(requests[r], app, host) /\ Sound(requests[r]) /\ TypeOK
    BY <1>1 DEF IInv, AnswersInv, AllSound
  <2>2. requests[r].op \in Ops
    BY <2>1, Whose, Parts
  <2> QED
    BY <2>1, <2>2 DEF HasDone, Installs, Upgrades, RunsIt, Deletes, Ran, Serves, Serving, Says, Ops
<1> QED
  BY <1>1, AppsInv, PTL

\* An upgrade that found its entry and fails in one place, its client there, leaves version, compose file and
\* data as they were, the data only where the ID of the snapshot is of one (UpgradeApp, createSnapshot).
THEOREM FailuresRestore == Spec => []FailedUpgradeRestores
<1>1. ASSUME IInv PROVE FailedUpgradeRestores
  <2> SUFFICES ASSUME NEW r \in Requests, requests[r].at = "failed", requests[r].op = "upgrade",
                      requests[r].entry # "none", requests[r].alone, requests[r].clean
               PROVE  /\ app.version = requests[r].copy.version /\ host.compose = requests[r].was.compose
                      /\ host.data \in Old(requests[r]) \/ (requests[r].snap = 0 /\ host.data = requests[r].entry)
    BY DEF FailedUpgradeRestores, Old
  <2>1. CanRestore(requests[r], app, host)
    BY <1>1 DEF IInv, RestoresInv
  <2> QED
    BY <2>1 DEF CanRestore, RestoresFile, RestoresData, Mixed
<1> QED
  BY <1>1, AppsInv, PTL

\* As long as no command or save fails, what is installed has its files and what is not does not run, and
\* apps.json has what the store has (StateStore.save).
THEOREM StoreIsKept == Spec => []StoreIsTrue
<1>1. ASSUME IInv PROVE StoreIsTrue
  <2>1. StoreMatchesFiles
    <3> SUFFICES ASSUME Busy = {}, Calm PROVE IF app = NoApp THEN ~host.unit.up ELSE Usable(host) /\ host.data # "none"
      BY DEF StoreMatchesFiles, QuietWithout, Calm
    <3>1. Matches
      BY <1>1, QuietIs DEF IInv, StoreInv, Agree
    <3> QED
      BY <1>1, <3>1, QuietIs, IdleIs DEF Matches
  <2>2. QuietIsSaved
    BY <1>1, QuietIs DEF IInv, QuietIsSaved, QuietWithout, SavedInv, Saved
  <2> QED
    BY <1>1, <2>1, <2>2 DEF IInv, StoreIsTrue
<1> QED
  BY <1>1, AppsInv, PTL
==============================================================================
