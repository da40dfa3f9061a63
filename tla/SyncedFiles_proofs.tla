-------------------------- MODULE SyncedFiles_proofs --------------------------
(***************************************************************************)
(* TLAPS proofs about the files a device gets of a share.  SyncChanges,    *)
(* for any paths, contents, limit and bounds: type correctness; what a     *)
(* device holds is what its cursor says; and a scan sees everything that   *)
(* stands still.  SmartSync, for any files, sizes, requests and restarts:  *)
(* the space in use is known; no request is forgotten; and a sweep frees   *)
(* enough and no more than it has to.                                      *)
(***************************************************************************)
EXTENDS SyncChanges, SmartSync, WellFoundedInduction, FiniteSetTheorems, SequenceTheorems, TLAPS

\* What an answer may be made of, and what the scan has seen so far.
AnswerInv == phase = "answered" => answer \subseteq ComputeChanges(cursor, next)
ScanInv == phase = "scan" => \A p \in steady \ listed : seen[p] = share[p]

------------------------------------------------------------------------------
\* A path is in the changes between two trees exactly when they differ there,
\* and each of its changes carries what the later tree has.
LEMMA ChangesDiffer ==
  ASSUME NEW old \in Trees, NEW cur \in Trees
  PROVE  /\ ComputeChanges(old, cur) \subseteq Changes
         /\ \A c \in ComputeChanges(old, cur) : c.hash = cur[c.path]
         /\ \A p \in Paths : old[p] # cur[p] => p \in PathsOf(ComputeChanges(old, cur))
<1>1. ASSUME NEW c \in ComputeChanges(old, cur)
      PROVE  c \in Changes /\ c.hash = cur[c.path]
  <2>1. CASE \E p \in Created(old, cur) : c = Change(p, "create", cur[p])
    BY <2>1 DEF Created, Change, Changes, Trees
  <2>2. CASE \E p \in Modified(old, cur) : c = Change(p, "modify", cur[p])
    BY <2>2 DEF Modified, Change, Changes, Trees
  <2>3. CASE \E p \in Deleted(old, cur) : c = Change(p, "delete", Absent)
    BY <2>3 DEF Deleted, Change, Changes, Trees, Things
  <2> QED
    BY <1>1, <2>1, <2>2, <2>3 DEF ComputeChanges
<1>2. ASSUME NEW p \in Paths, old[p] # cur[p]
      PROVE  \E c \in ComputeChanges(old, cur) : c.path = p
  <2>1. p \in Created(old, cur) \/ p \in Modified(old, cur) \/ p \in Deleted(old, cur)
    BY <1>2 DEF Created, Modified, Deleted
  <2>2. \A t, h : Change(p, t, h).path = p
    BY DEF Change
  <2> QED
    BY <2>1, <2>2 DEF ComputeChanges
<1> QED
  BY <1>1, <1>2 DEF PathsOf

\* What a device makes of some changes on the way to a tree.
LEMMA Applied ==
  ASSUME NEW old \in Trees, NEW cur \in Trees, NEW tree \in Trees,
         NEW some \in SUBSET ComputeChanges(old, cur)
  PROVE  /\ Apply(some, tree) \in Trees
         /\ \A p \in Paths : Apply(some, tree)[p] = IF p \in PathsOf(some) THEN cur[p] ELSE tree[p]
<1>1. ASSUME NEW p \in Paths
      PROVE  Apply(some, tree)[p] = IF p \in PathsOf(some) THEN cur[p] ELSE tree[p]
  <2>1. CASE p \in PathsOf(some)
    <3> DEFINE c == CHOOSE d \in some : d.path = p
    <3>1. c \in some /\ c.path = p
      BY <2>1 DEF PathsOf
    <3>2. c.hash = cur[p]
      BY <3>1, ChangesDiffer
    <3> QED
      BY <2>1, <3>2 DEF Apply
  <2>2. CASE p \notin PathsOf(some)
    BY <2>2 DEF Apply
  <2> QED
    BY <2>1, <2>2
<1>2. Apply(some, tree) = [p \in Paths |-> Apply(some, tree)[p]]
  BY DEF Apply
<1>3. \A p \in Paths : Apply(some, tree)[p] \in Things
  BY <1>1 DEF Trees
<1> QED
  BY <1>1, <1>2, <1>3 DEF Trees

LEMMA Empty == Nothing \in Trees /\ \A p \in Paths : Nothing[p] = Absent
BY DEF Nothing, Trees, Things

\* An answer holds some of the changes between the cursor and what was seen.
LEMMA Answered ==
  ASSUME ChangesTypeOK, Respond
  PROVE  answer' \subseteq ComputeChanges(cursor, seen) /\ answer' \subseteq Changes
<1>1. answer' \subseteq ComputeChanges(cursor, seen)
  BY DEF Respond, Pages
<1> QED
  BY <1>1, ChangesDiffer DEF ChangesTypeOK

------------------------------------------------------------------------------
LEMMA ChangesTypeInit == ChangesInit => ChangesTypeOK
BY Empty, BoundsAssumption DEF ChangesInit, ChangesTypeOK, Trees, Things

LEMMA ChangesTypeStep == ChangesTypeOK /\ AnswerInv /\ [ChangesNext]_changesVars => ChangesTypeOK'
<1> SUFFICES ASSUME ChangesTypeOK, AnswerInv, [ChangesNext]_changesVars
             PROVE  ChangesTypeOK'
  OBVIOUS
<1> USE DEF request, device, counters, history
<1>1. ASSUME NEW p \in Paths, Edit(p)
      PROVE  ChangesTypeOK'
  BY <1>1, BoundsAssumption DEF Edit, ChangesTypeOK, Trees
<1>2. ASSUME NEW p \in Paths, Finish(p)
      PROVE  ChangesTypeOK'
  BY <1>2 DEF Finish, ChangesTypeOK, Trees, Things
<1>3. ASSUME NEW p \in Paths, SkipFile(p)
      PROVE  ChangesTypeOK'
  BY <1>3, BoundsAssumption DEF SkipFile, ChangesTypeOK
<1>4. ASSUME NEW p \in Paths, ScanFile(p)
      PROVE  ChangesTypeOK'
  BY <1>4 DEF ScanFile, ChangesTypeOK, Trees
<1>5. CASE StartScan
  BY <1>5, Empty DEF StartScan, ChangesTypeOK
<1>6. CASE Respond
  BY <1>6, Answered DEF Respond, ChangesTypeOK
<1>7. CASE Receive
  <2>1. mirror' \in Trees
    BY <1>7, Applied DEF Receive, ChangesTypeOK, AnswerInv
  <2>2. PathsOf(ComputeChanges(cursor, next)) \subseteq Paths
    BY ChangesDiffer DEF ChangesTypeOK, PathsOf, Changes
  <2> QED
    BY <1>7, <2>1, <2>2 DEF Receive, ChangesTypeOK
<1>8. CASE Lose
  BY <1>8, BoundsAssumption DEF Lose, ChangesTypeOK
<1>9. CASE UNCHANGED changesVars
  BY <1>9 DEF changesVars, ChangesTypeOK
<1> QED
  BY <1>1, <1>2, <1>3, <1>4, <1>5, <1>6, <1>7, <1>8, <1>9 DEF ChangesNext, Scan

\* An answer stays one for the cursor the device has: no other comes between.
LEMMA AnswerStep == ChangesTypeOK /\ AnswerInv /\ [ChangesNext]_changesVars => AnswerInv'
<1> SUFFICES ASSUME ChangesTypeOK, AnswerInv, [ChangesNext]_changesVars
             PROVE  AnswerInv'
  OBVIOUS
<1> USE DEF request, device, counters, history
<1>1. CASE Respond
  <2>1. cursor' = cursor /\ next' = seen
    BY <1>1 DEF Respond
  <2> QED
    BY <1>1, <2>1, Answered DEF AnswerInv
<1>2. CASE StartScan \/ Receive \/ Lose \/ \E p \in Paths : ScanFile(p) \/ SkipFile(p)
  BY <1>2 DEF StartScan, Receive, Lose, ScanFile, SkipFile, AnswerInv
<1>3. CASE UNCHANGED changesVars \/ \E p \in Paths : Edit(p) \/ Finish(p)
  BY <1>3 DEF changesVars, Edit, Finish, AnswerInv
<1> QED
  BY <1>1, <1>2, <1>3 DEF ChangesNext, Scan

------------------------------------------------------------------------------
LEMMA MirrorStep == ChangesTypeOK /\ AnswerInv /\ MirrorIsCursor /\ [ChangesNext]_changesVars => MirrorIsCursor'
<1> SUFFICES ASSUME ChangesTypeOK, AnswerInv, MirrorIsCursor, [ChangesNext]_changesVars
             PROVE  MirrorIsCursor'
  OBVIOUS
<1> USE DEF request, device, counters, history
<1>1. CASE Receive
  <2> SUFFICES ASSUME NEW p \in Paths, p \notin cut'
               PROVE  mirror'[p] = cursor'[p]
    BY DEF MirrorIsCursor
  <2>1. mirror'[p] = IF p \in PathsOf(answer) THEN next[p] ELSE mirror[p]
    BY <1>1, Applied DEF Receive, AnswerInv, ChangesTypeOK
  <2>2. CASE p \notin PathsOf(answer)
    <3>1. p \notin cut /\ p \notin PathsOf(ComputeChanges(cursor, next))
      BY <1>1, <2>2 DEF Receive
    <3>2. cursor[p] = next[p]
      BY <3>1, ChangesDiffer DEF ChangesTypeOK
    <3> QED
      BY <1>1, <2>1, <2>2, <3>1, <3>2 DEF Receive, MirrorIsCursor
  <2> QED
    BY <1>1, <2>1, <2>2 DEF Receive
<1>2. CASE ~Receive
  <2>1. UNCHANGED <<mirror, cursor, cut>>
    BY <1>2 DEF ChangesNext, Scan, changesVars, Edit, Finish, SkipFile, ScanFile, StartScan, Respond, Lose
  <2> QED
    BY <2>1 DEF MirrorIsCursor
<1> QED
  BY <1>1, <1>2

\* What stands still while it is scanned for is seen, or still to be seen.
LEMMA SteadyStep ==
  ChangesTypeOK /\ ScanInv /\ SteadyIsSeen /\ [ChangesNext]_changesVars => ScanInv' /\ SteadyIsSeen'
<1> SUFFICES ASSUME ChangesTypeOK, ScanInv, SteadyIsSeen, [ChangesNext]_changesVars
             PROVE  ScanInv' /\ SteadyIsSeen'
  OBVIOUS
<1> USE DEF request, device, counters, history, ScanInv, SteadyIsSeen
<1>1. ASSUME NEW p \in Paths, Edit(p) \/ Finish(p)
      PROVE  ScanInv' /\ SteadyIsSeen'
  <2>1. /\ \A q \in Paths \ {p} : share'[q] = share[q]
        /\ steady' = steady \ {p} /\ steady \subseteq Paths
        /\ UNCHANGED <<phase, listed, seen, next>>
    BY <1>1 DEF Edit, Finish, ChangesTypeOK, Trees
  <2> QED
    BY <2>1
<1>2. ASSUME NEW p \in Paths, SkipFile(p)
      PROVE  ScanInv' /\ SteadyIsSeen'
  BY <1>2 DEF SkipFile
<1>3. ASSUME NEW p \in Paths, ScanFile(p)
      PROVE  ScanInv' /\ SteadyIsSeen'
  <2>1. \A q \in Paths : seen'[q] = IF q = p THEN share[q] ELSE seen[q]
    BY <1>3 DEF ScanFile, ChangesTypeOK, Trees
  <2> QED
    BY <1>3, <2>1 DEF ScanFile, ChangesTypeOK
<1>4. CASE StartScan
  BY <1>4, Empty DEF StartScan
<1>5. CASE Respond
  BY <1>5 DEF Respond
<1>6. CASE Receive \/ Lose
  BY <1>6 DEF Receive, Lose
<1>7. CASE UNCHANGED changesVars
  BY <1>7 DEF changesVars
<1> QED
  BY <1>1, <1>2, <1>3, <1>4, <1>5, <1>6, <1>7 DEF ChangesNext, Scan

------------------------------------------------------------------------------
\* Every reachable state of the share, the request and the device is well typed
\* (computeChanges, GetChanges).
THEOREM ChangesTypeCorrect == ChangesSpec => []ChangesTypeOK
<1>1. ChangesInit => ChangesTypeOK /\ AnswerInv
  BY ChangesTypeInit DEF ChangesInit, AnswerInv
<1>2. ChangesTypeOK /\ AnswerInv /\ [ChangesNext]_changesVars => ChangesTypeOK' /\ AnswerInv'
  BY ChangesTypeStep, AnswerStep
<1> QED
  BY <1>1, <1>2, PTL DEF ChangesSpec

\* Whichever answers are lost and whoever writes to the share meanwhile, a device
\* holds what its cursor says but for what was cut off (GetChanges).
THEOREM MirrorsCursor == ChangesSpec => []MirrorIsCursor
<1>1. ChangesInit => ChangesTypeOK /\ AnswerInv /\ MirrorIsCursor
  BY ChangesTypeInit DEF ChangesInit, AnswerInv, MirrorIsCursor
<1>2. ChangesTypeOK /\ AnswerInv /\ MirrorIsCursor /\ [ChangesNext]_changesVars
        => ChangesTypeOK' /\ AnswerInv' /\ MirrorIsCursor'
  BY ChangesTypeStep, AnswerStep, MirrorStep
<1> QED
  BY <1>1, <1>2, PTL DEF ChangesSpec

\* A scan sees everything that stood still and could be read (scanDirectory).
THEOREM SeesSteady == ChangesSpec => []SteadyIsSeen
<1>1. ChangesInit => ScanInv /\ SteadyIsSeen
  BY DEF ChangesInit, ScanInv, SteadyIsSeen
<1>2. ChangesTypeOK /\ ScanInv /\ SteadyIsSeen /\ [ChangesNext]_changesVars => ScanInv' /\ SteadyIsSeen'
  BY SteadyStep
<1> QED
  BY <1>1, <1>2, ChangesTypeCorrect, PTL DEF ChangesSpec

------------------------------------------------------------------------------
(* Files on demand.  Induction is by sets, as in BackupScheduler_proofs, and   *)
(* from there by subsets of a finite set.                                      *)

LEMMA SetInduction ==
  ASSUME NEW T, 0 \in T, \A n \in Nat : n \in T => n + 1 \in T
  PROVE  Nat \subseteq T
<1> DEFINE Bad == Nat \ T
<1>1. IsWellFoundedOn(OpToRel(<, Nat), Nat)
  BY NatLessThanWellFounded
<1>2. SUFFICES ASSUME Bad # {} PROVE FALSE
  OBVIOUS
<1>3. PICK x \in Bad : \A y \in Bad : ~ (<<y, x>> \in OpToRel(<, Nat))
  <2> HIDE DEF Bad
  <2>1. Bad \subseteq Nat
    BY DEF Bad
  <2> QED
    BY <1>1, <1>2, <2>1, WFMin
<1>4. \A y \in Bad : ~(y < x)
  BY <1>3 DEF OpToRel
<1>5. x - 1 \in Nat /\ x - 1 \in T
  BY <1>4
<1> QED
  BY <1>5

LEMMA SubsetInduction ==
  ASSUME NEW F, IsFiniteSet(F), NEW T,
         \A s \in SUBSET F : (\A x \in s : s \ {x} \in T) => s \in T
  PROVE  SUBSET F \subseteq T
<1> DEFINE Good == {n \in Nat : \A s \in SUBSET F : Cardinality(s) = n => s \in T}
<1>1. \A s \in SUBSET F : IsFiniteSet(s) /\ Cardinality(s) \in Nat
  BY FS_Subset, FS_CardinalityType
<1>2. 0 \in Good
  <2> SUFFICES ASSUME NEW s \in SUBSET F, Cardinality(s) = 0
               PROVE  s \in T
    OBVIOUS
  <2>1. s = {}
    BY <1>1, FS_EmptySet
  <2> QED
    BY <2>1
<1>3. ASSUME NEW n \in Nat, n \in Good
      PROVE  n + 1 \in Good
  <2> SUFFICES ASSUME NEW s \in SUBSET F, Cardinality(s) = n + 1
               PROVE  s \in T
    OBVIOUS
  <2>1. ASSUME NEW x \in s
        PROVE  s \ {x} \in T
    <3>1. Cardinality(s \ {x}) = Cardinality(s) - 1
      BY <1>1, FS_RemoveElement
    <3>2. Cardinality(s \ {x}) = n
      BY <3>1
    <3>3. \A u \in SUBSET F : Cardinality(u) = n => u \in T
      BY <1>3
    <3> QED
      BY <3>2, <3>3
  <2> QED
    BY <2>1
<1>4. Nat \subseteq Good
  <2> HIDE DEF Good
  <2> QED
    BY <1>2, <1>3, SetInduction
<1> QED
  BY <1>1, <1>4

Pick(s) == CHOOSE x \in s : TRUE
\* What the fold of SizeOf has computed for the subsets of a set.
Counts(count, S) ==
  /\ count[{}] = 0
  /\ \A s \in (SUBSET S) \ {{}} : count[s] = Sizes[Pick(s)] + count[s \ {Pick(s)}]

LEMMA SizeLoop ==
  ASSUME NEW S, IsFiniteSet(S)
  PROVE  \E count : Counts(count, S) /\ count[S] = SizeOf(S)
<1> DEFINE Turn(s, n) == IF s = {} THEN 0 ELSE Sizes[Pick(s)] + n
           Sub(n) == {s \in SUBSET S : Cardinality(s) <= n}
           Upto == {n \in Nat : \E f : f = [s \in Sub(n) |-> Turn(s, f[s \ {Pick(s)}])]}
           iter[s \in SUBSET S] == Turn(s, iter[s \ {Pick(s)}])
<1>1. SizeOf(S) = iter[S]
  BY DEF SizeOf, MapThenSumSet, MapThenFoldSet, Pick
<1>2. \A s \in SUBSET S : IsFiniteSet(s) /\ Cardinality(s) \in Nat /\ Cardinality(s) <= Cardinality(S)
  BY FS_Subset, FS_CardinalityType
<1>3. \A s \in (SUBSET S) \ {{}} : Pick(s) \in s /\ s \ {Pick(s)} \in SUBSET S /\ Cardinality(s \ {Pick(s)}) = Cardinality(s) - 1
  <2> SUFFICES ASSUME NEW s \in (SUBSET S) \ {{}}
               PROVE  Pick(s) \in s /\ Cardinality(s \ {Pick(s)}) = Cardinality(s) - 1
    OBVIOUS
  <2>1. Pick(s) \in s
    BY DEF Pick
  <2> QED
    BY <1>2, <2>1, FS_RemoveElement
<1>4. 0 \in Upto
  <2> DEFINE g == [s \in Sub(0) |-> 0]
  <2>1. \A s \in Sub(0) : s = {}
    BY <1>2, FS_EmptySet
  <2>2. g = [s \in Sub(0) |-> Turn(s, g[s \ {Pick(s)}])]
    BY <2>1
  <2> QED
    BY <2>2
<1>5. ASSUME NEW n \in Nat, n \in Upto
      PROVE  n + 1 \in Upto
  <2>1. PICK f : f = [s \in Sub(n) |-> Turn(s, f[s \ {Pick(s)}])]
    BY <1>5
  <2> DEFINE g == [s \in Sub(n + 1) |-> IF s \in Sub(n) THEN f[s] ELSE Turn(s, f[s \ {Pick(s)}])]
  <2>2. \A s \in Sub(n + 1) : g[s] = Turn(s, g[s \ {Pick(s)}])
    <3> SUFFICES ASSUME NEW s \in Sub(n + 1)
                 PROVE  g[s] = Turn(s, g[s \ {Pick(s)}])
      OBVIOUS
    <3>1. g[s] = Turn(s, f[s \ {Pick(s)}])
      <4>1. CASE s \in Sub(n)
        <5>1. f[s] = Turn(s, f[s \ {Pick(s)}])
          <6> HIDE DEF Sub, Turn
          <6> QED
            BY <2>1, <4>1
        <5> QED
          BY <4>1, <5>1
      <4>2. CASE s \notin Sub(n)
        BY <4>2
      <4> QED
        BY <4>1, <4>2
    <3>2. CASE s = {}
      BY <3>1, <3>2
    <3>3. CASE s # {}
      <4> DEFINE r == s \ {Pick(s)}
      <4>1. r \in Sub(n) /\ r \in Sub(n + 1)
        <5>1. r \in SUBSET S /\ Cardinality(r) = Cardinality(s) - 1 /\ Cardinality(s) \in Nat /\ Cardinality(s) <= n + 1
          BY <1>2, <1>3, <3>3
        <5> HIDE DEF r
        <5> QED
          BY <5>1
      <4>2. g[r] = f[r]
        <5> HIDE DEF r, Sub, Turn
        <5> QED
          BY <4>1
      <4> HIDE DEF Turn, g
      <4> QED
        BY <4>2, <3>1
    <3> QED
      BY <3>2, <3>3
  <2>3. g = [s \in Sub(n + 1) |-> Turn(s, g[s \ {Pick(s)}])]
    <3> HIDE DEF Turn, Sub
    <3> QED
      BY <2>2
  <2> HIDE DEF g, Sub, Turn
  <2> QED
    BY <2>3
<1>6. Sub(Cardinality(S)) = SUBSET S /\ Cardinality(S) \in Nat
  BY <1>2, FS_CardinalityType
<1>7. \E f : f = [s \in SUBSET S |-> Turn(s, f[s \ {Pick(s)}])]
  <2> HIDE DEF Upto, Sub
  <2>1. Cardinality(S) \in Upto
    BY <1>4, <1>5, <1>6, SetInduction
  <2> QED
    BY <1>6, <2>1 DEF Upto
<1>8. iter = [s \in SUBSET S |-> Turn(s, iter[s \ {Pick(s)}])]
  <2> HIDE DEF Turn
  <2> QED
    BY <1>7, Zenon
<1> HIDE DEF iter
<1>9. iter[{}] = 0 /\ \A s \in (SUBSET S) \ {{}} : iter[s] = Sizes[Pick(s)] + iter[s \ {Pick(s)}]
  <2>0. SUFFICES ASSUME NEW f, f = [s \in SUBSET S |-> Turn(s, f[s \ {Pick(s)}])]
               PROVE  f[{}] = 0 /\ \A s \in (SUBSET S) \ {{}} : f[s] = Sizes[Pick(s)] + f[s \ {Pick(s)}]
    BY <1>8
  <2>1. \A s \in SUBSET S : f[s] = Turn(s, f[s \ {Pick(s)}])
    <3> HIDE DEF Turn
    <3> QED
      BY <2>0, Zenon
  <2>2. f[{}] = 0
    BY <2>1
  <2>3. ASSUME NEW s \in (SUBSET S) \ {{}}
        PROVE  f[s] = Sizes[Pick(s)] + f[s \ {Pick(s)}]
    BY <2>1
  <2> QED
    BY <2>2, <2>3
<1> QED
  BY <1>1, <1>9 DEF Counts

LEMMA CountsAgree ==
  ASSUME NEW S, IsFiniteSet(S), NEW f, Counts(f, S), NEW T, NEW g, Counts(g, T), S \subseteq T
  PROVE  f[S] = g[S]
<1> DEFINE Same == {s \in SUBSET S : f[s] = g[s]}
<1>1. ASSUME NEW s \in SUBSET S, \A x \in s : s \ {x} \in Same
      PROVE  s \in Same
  <2>1. CASE s = {}
    BY <2>1 DEF Counts
  <2>2. CASE s # {}
    <3>1. Pick(s) \in s
      BY <2>2 DEF Pick
    <3>2. f[s \ {Pick(s)}] = g[s \ {Pick(s)}]
      BY <3>1, <1>1
    <3>3. s \in (SUBSET S) \ {{}} /\ s \in (SUBSET T) \ {{}}
      BY <2>2
    <3> QED
      BY <3>2, <3>3 DEF Counts
  <2> QED
    BY <2>1, <2>2
<1>2. SUBSET S \subseteq Same
  <2> HIDE DEF Same
  <2> QED
    BY <1>1, SubsetInduction
<1> QED
  BY <1>2

LEMMA SizeCounted ==
  \E count : Counts(count, Files) /\ \A S \in SUBSET Files : SizeOf(S) = count[S]
<1>1. PICK count : Counts(count, Files)
  BY SizeLoop, SmartAssumption
<1>2. ASSUME NEW S \in SUBSET Files
      PROVE  SizeOf(S) = count[S]
  <2>1. IsFiniteSet(S)
    BY SmartAssumption, FS_Subset
  <2>2. PICK f : Counts(f, S) /\ f[S] = SizeOf(S)
    BY <2>1, SizeLoop
  <2> QED
    BY <1>1, <2>1, <2>2, CountsAgree
<1> QED
  BY <1>1, <1>2

\* The size of some files is a number, and a file more is its size more, whichever
\* one the fold takes first.
LEMMA SizeType ==
  ASSUME NEW S \in SUBSET Files
  PROVE  SizeOf(S) \in Nat /\ SizeOf({}) = 0
<1>1. PICK count : Counts(count, Files) /\ \A T \in SUBSET Files : SizeOf(T) = count[T]
  BY SizeCounted
<1> DEFINE Good == {T \in SUBSET Files : count[T] \in Nat}
<1>2. ASSUME NEW T \in SUBSET Files, \A x \in T : T \ {x} \in Good
      PROVE  T \in Good
  <2>1. CASE T = {}
    BY <2>1, <1>1 DEF Counts
  <2>2. CASE T # {}
    <3>1. Pick(T) \in T
      BY <2>2 DEF Pick
    <3>2. count[T \ {Pick(T)}] \in Nat /\ Sizes[Pick(T)] \in Nat
      BY <3>1, <1>2, SmartAssumption
    <3>3. count[T] = Sizes[Pick(T)] + count[T \ {Pick(T)}]
      BY <1>1, <2>2 DEF Counts
    <3> QED
      BY <3>2, <3>3
  <2> QED
    BY <2>1, <2>2
<1>3. SUBSET Files \subseteq Good
  <2> HIDE DEF Good
  <2> QED
    BY <1>2, SubsetInduction, SmartAssumption
<1> QED
  BY <1>1, <1>3 DEF Counts

LEMMA SizeAdd ==
  ASSUME NEW S \in SUBSET Files, NEW f \in Files \ S
  PROVE  SizeOf(S \cup {f}) = SizeOf(S) + Sizes[f]
<1> DEFINE Good == {T \in SUBSET Files : \A g \in Files \ T : SizeOf(T \cup {g}) = SizeOf(T) + Sizes[g]}
<1>1. PICK count : Counts(count, Files) /\ \A T \in SUBSET Files : SizeOf(T) = count[T]
  BY SizeCounted
<1>2. ASSUME NEW T \in SUBSET Files, \A x \in T : T \ {x} \in Good, NEW g \in Files \ T
      PROVE  SizeOf(T \cup {g}) = SizeOf(T) + Sizes[g]
  <2> DEFINE U == T \cup {g}
             x == Pick(U)
  <2>1. x \in U
    BY DEF Pick
  <2>2. SizeOf(U) = Sizes[x] + SizeOf(U \ {x})
    <3>1. U \in (SUBSET Files) \ {{}} /\ U \ {x} \in SUBSET Files
      OBVIOUS
    <3> HIDE DEF U
    <3> QED
      BY <1>1, <3>1 DEF Counts
  <2>3. \A y \in Files : Sizes[y] \in Nat
    BY SmartAssumption
  <2>4. \A V \in SUBSET Files : SizeOf(V) \in Nat
    BY SizeType
  <2> HIDE DEF x
  <2>5. CASE x = g
    <3>1. U \ {x} = T
      BY <2>5
    <3> QED
      BY <2>2, <2>3, <2>4, <2>5, <3>1
  <2>6. CASE x # g
    <3>1. x \in T /\ U \ {x} = (T \ {x}) \cup {g} /\ (T \ {x}) \cup {x} = T
      BY <2>1, <2>6
    <3>2. \A y \in Files \ (T \ {x}) : SizeOf((T \ {x}) \cup {y}) = SizeOf(T \ {x}) + Sizes[y]
      BY <3>1, <1>2
    <3>3. SizeOf((T \ {x}) \cup {g}) = SizeOf(T \ {x}) + Sizes[g] /\ SizeOf((T \ {x}) \cup {x}) = SizeOf(T \ {x}) + Sizes[x]
      BY <3>1, <3>2
    <3>4. SizeOf(T \ {x}) \in Nat /\ Sizes[x] \in Nat /\ Sizes[g] \in Nat
      BY <2>3, <2>4, <3>1
    <3> HIDE DEF U
    <3>6. SizeOf(U \ {x}) = SizeOf(T \ {x}) + Sizes[g]
      BY <3>1, <3>3, Zenon
    <3>7. SizeOf(T) = SizeOf(T \ {x}) + Sizes[x]
      BY <3>1, <3>3, Zenon
    <3>5. SizeOf(U) = SizeOf(T) + Sizes[g]
      BY <2>2, <3>4, <3>6, <3>7
    <3> QED
      BY <3>5 DEF U
  <2> QED
    BY <2>5, <2>6
<1>3. SUBSET Files \subseteq Good
  <2>1. \A T \in SUBSET Files : (\A x \in T : T \ {x} \in Good) => T \in Good
    BY <1>2
  <2> HIDE DEF Good
  <2> QED
    BY <2>1, SubsetInduction, SmartAssumption
<1> QED
  BY <1>3

\* Without some of the files, their size less.
LEMMA SizeLess ==
  ASSUME NEW S \in SUBSET Files, NEW A \in SUBSET S
  PROVE  SizeOf(S \ A) = SizeOf(S) - SizeOf(A)
<1> DEFINE Good == {T \in SUBSET S : SizeOf(S \ T) = SizeOf(S) - SizeOf(T)}
<1>1. ASSUME NEW T \in SUBSET S, \A x \in T : T \ {x} \in Good
      PROVE  T \in Good
  <2>1. SizeOf(S) \in Nat /\ SizeOf({}) = 0
    BY SizeType
  <2>2. CASE T = {}
    <3>1. S \ T = S
      BY <2>2
    <3> QED
      BY <2>1, <2>2, <3>1
  <2>3. CASE T # {}
    <3>1. PICK x \in T : TRUE
      BY <2>3
    <3> DEFINE U == T \ {x}
    <3>2. SizeOf(S \ U) = SizeOf(S) - SizeOf(U)
      BY <1>1
    <3>3. U \in SUBSET Files /\ x \in Files \ U /\ T = U \cup {x}
      OBVIOUS
    <3>4. S \ T \in SUBSET Files /\ x \in Files \ (S \ T) /\ S \ U = (S \ T) \cup {x}
      OBVIOUS
    <3> HIDE DEF U
    <3>5. SizeOf(T) = SizeOf(U) + Sizes[x] /\ SizeOf(S \ U) = SizeOf(S \ T) + Sizes[x]
      BY <3>3, <3>4, SizeAdd
    <3>6. SizeOf(U) \in Nat /\ SizeOf(S \ T) \in Nat /\ Sizes[x] \in Nat
      BY <3>3, <3>4, SizeType, SmartAssumption
    <3>7. SizeOf(S \ T) = SizeOf(S) - SizeOf(T)
      BY <2>1, <3>2, <3>5, <3>6
    <3> QED
      BY <3>7
  <2> QED
    BY <2>2, <2>3
<1>2. SUBSET S \subseteq Good
  <2>1. IsFiniteSet(S)
    BY SmartAssumption, FS_Subset
  <2> HIDE DEF Good
  <2> QED
    BY <1>1, <2>1, SubsetInduction
<1> QED
  BY <1>2

\* No file is larger than all of them.
LEMMA SizePart ==
  ASSUME NEW S \in SUBSET Files, NEW f \in S
  PROVE  Sizes[f] <= SizeOf(S)
<1>1. SizeOf(S) = SizeOf(S \ {f}) + Sizes[f]
  <2>1. SizeOf((S \ {f}) \cup {f}) = SizeOf(S \ {f}) + Sizes[f]
    BY SizeAdd
  <2>2. (S \ {f}) \cup {f} = S
    OBVIOUS
  <2> QED
    BY <2>1, <2>2, Zenon
<1>2. SizeOf(S \ {f}) \in Nat /\ Sizes[f] \in Nat
  BY SizeType, SmartAssumption
<1> QED
  BY <1>1, <1>2

------------------------------------------------------------------------------
(* The queue.                                                                  *)

FilesOf(q) == {q[i].file : i \in DOMAIN q}
Distinct(q) == \A i, j \in DOMAIN q : q[i].file = q[j].file => i = j

LEMMA QueueType ==
  ASSUME NEW q \in Seq(Requests)
  PROVE  /\ Len(q) \in Nat /\ DOMAIN q = 1..Len(q)
         /\ \A i \in 1..Len(q) : q[i] \in Requests /\ q[i].file \in Files
         /\ FilesOf(q) \subseteq Files
<1>1. Len(q) \in Nat /\ DOMAIN q = 1..Len(q) /\ \A i \in 1..Len(q) : q[i] \in Requests
  <2> SUFFICES ASSUME NEW R, q \in Seq(R)
               PROVE  Len(q) \in Nat /\ DOMAIN q = 1..Len(q) /\ \A i \in 1..Len(q) : q[i] \in R
    OBVIOUS
  <2> QED
    OBVIOUS
<1>2. \A r \in Requests : r.file \in Files
  BY DEF Requests
<1> QED
  BY <1>1, <1>2 DEF FilesOf

\* A queue with another entry behind the n-th, and without its n-th entry: all others
\* stay in their order.
With(q, n, r, s) ==
  /\ s \in Seq(Requests) /\ Len(s) = Len(q) + 1
  /\ \A i \in 1..Len(q) + 1 : s[i] = IF i <= n THEN q[i] ELSE IF i = n + 1 THEN r ELSE q[i - 1]
Without(q, n, s) ==
  /\ s \in Seq(Requests) /\ Len(s) = Len(q) - 1
  /\ \A i \in 1..Len(q) - 1 : s[i] = IF i < n THEN q[i] ELSE q[i + 1]

LEMMA Inserted ==
  ASSUME NEW q \in Seq(Requests), NEW r \in Requests, NEW n \in 0..Len(q)
  PROVE  With(q, n, r, SubSeq(q, 1, n) \o <<r>> \o SubSeq(q, n + 1, Len(q)))
<1> DEFINE a == SubSeq(q, 1, n)
           b == SubSeq(q, n + 1, Len(q))
           c == a \o <<r>>
           s == c \o b
<1>1. Len(q) \in Nat /\ n \in Nat
  OBVIOUS
<1>2. a \in Seq(Requests) /\ Len(a) = n /\ \A i \in 1..n : a[i] = q[i]
  <2>1. \A i \in 1..n : q[i] \in Requests
    BY <1>1
  <2> QED
    BY <1>1, <2>1
<1>3. b \in Seq(Requests) /\ Len(b) = Len(q) - n /\ \A i \in 1..Len(q) - n : b[i] = q[i + n]
  <2>1. \A i \in n + 1..Len(q) : q[i] \in Requests
    BY <1>1
  <2> QED
    BY <1>1, <2>1
<1> HIDE DEF a, b
<1>4. c \in Seq(Requests) /\ Len(c) = n + 1 /\ c[n + 1] = r /\ \A i \in 1..n : c[i] = q[i]
  BY <1>1, <1>2
<1> HIDE DEF c
<1>9. /\ s \in Seq(Requests) /\ Len(s) = Len(c) + Len(b)
      /\ \A i \in 1..Len(c) + Len(b) : s[i] = IF i <= Len(c) THEN c[i] ELSE b[i - Len(c)]
  BY <1>3, <1>4, ConcatProperties
<1> HIDE DEF s
<1>5. s \in Seq(Requests) /\ Len(s) = Len(q) + 1
  BY <1>1, <1>3, <1>4, <1>9
<1>6. \A i \in 1..Len(q) + 1 : s[i] = IF i <= n + 1 THEN c[i] ELSE b[i - (n + 1)]
  <2>1. Len(c) + Len(b) = Len(q) + 1 /\ Len(c) = n + 1
    BY <1>1, <1>3, <1>4
  <2> QED
    BY <2>1, <1>9
<1>7. ASSUME NEW i \in 1..Len(q) + 1
      PROVE  s[i] = IF i <= n THEN q[i] ELSE IF i = n + 1 THEN r ELSE q[i - 1]
  <2>1. CASE i <= n
    <3>1. s[i] = c[i] /\ i \in 1..n
      BY <1>1, <1>6, <2>1
    <3> QED
      BY <2>1, <3>1, <1>4
  <2>2. CASE i = n + 1
    <3>1. s[i] = c[i] /\ ~(i <= n)
      BY <1>1, <1>6, <2>2
    <3> QED
      BY <2>2, <3>1, <1>4
  <2>3. CASE i > n + 1
    <3>1. s[i] = b[i - (n + 1)] /\ i - (n + 1) \in 1..Len(q) - n /\ ~(i <= n) /\ i # n + 1 /\ (i - (n + 1)) + n = i - 1
      BY <1>1, <1>6, <2>3
    <3> QED
      BY <3>1, <1>3
  <2> QED
    BY <1>1, <2>1, <2>2, <2>3
<1> HIDE DEF s
<1>8. s = SubSeq(q, 1, n) \o <<r>> \o SubSeq(q, n + 1, Len(q))
  BY DEF s, c, a, b
<1> QED
  <2>1. With(q, n, r, s)
    BY <1>5, <1>7 DEF With
  <2> QED
    BY <2>1, <1>8, Zenon

LEMMA Removed ==
  ASSUME NEW q \in Seq(Requests), NEW n \in 1..Len(q)
  PROVE  Without(q, n, RemoveAt(q, n))
<1> DEFINE a == SubSeq(q, 1, n - 1)
           b == SubSeq(q, n + 1, Len(q))
           s == a \o b
<1>1. Len(q) \in Nat /\ n \in Nat /\ n > 0
  OBVIOUS
<1>2. a \in Seq(Requests) /\ Len(a) = n - 1 /\ \A i \in 1..n - 1 : a[i] = q[i]
  <2>1. \A i \in 1..n - 1 : q[i] \in Requests
    BY <1>1
  <2> QED
    BY <1>1, <2>1
<1>3. b \in Seq(Requests) /\ Len(b) = Len(q) - n /\ \A i \in 1..Len(q) - n : b[i] = q[i + n]
  <2>1. \A i \in n + 1..Len(q) : q[i] \in Requests
    BY <1>1
  <2> QED
    BY <1>1, <2>1
<1> HIDE DEF a, b
<1>9. /\ s \in Seq(Requests) /\ Len(s) = Len(a) + Len(b)
      /\ \A i \in 1..Len(a) + Len(b) : s[i] = IF i <= Len(a) THEN a[i] ELSE b[i - Len(a)]
  BY <1>2, <1>3, ConcatProperties
<1> HIDE DEF s
<1>5. s \in Seq(Requests) /\ Len(s) = Len(q) - 1
  BY <1>1, <1>2, <1>3, <1>9
<1>6. \A i \in 1..Len(q) - 1 : s[i] = IF i <= n - 1 THEN a[i] ELSE b[i - (n - 1)]
  <2>1. Len(a) + Len(b) = Len(q) - 1 /\ Len(a) = n - 1
    BY <1>1, <1>2, <1>3
  <2> QED
    BY <2>1, <1>9
<1>7. ASSUME NEW i \in 1..Len(q) - 1
      PROVE  s[i] = IF i < n THEN q[i] ELSE q[i + 1]
  <2>1. CASE i < n
    <3>1. s[i] = a[i] /\ i \in 1..n - 1
      BY <1>1, <1>6, <2>1
    <3> QED
      BY <2>1, <3>1, <1>2
  <2>2. CASE ~(i < n)
    <3>1. s[i] = b[i - (n - 1)] /\ i - (n - 1) \in 1..Len(q) - n /\ (i - (n - 1)) + n = i + 1
      BY <1>1, <1>6, <2>2
    <3> QED
      BY <2>2, <3>1, <1>3
  <2> QED
    BY <2>1, <2>2
<1> HIDE DEF s
<1>8. s = RemoveAt(q, n)
  BY DEF RemoveAt, s, a, b
<1> QED
  <2>1. Without(q, n, s)
    BY <1>5, <1>7 DEF Without
  <2> QED
    BY <2>1, <1>8, Zenon

LEMMA QueueWithout ==
  ASSUME NEW q \in Seq(Requests), NEW n \in 1..Len(q), NEW s, Without(q, n, s)
  PROVE  /\ FilesOf(s) \subseteq FilesOf(q)
         /\ FilesOf(q) \subseteq FilesOf(s) \cup {q[n].file}
         /\ Distinct(q) => Distinct(s) /\ q[n].file \notin FilesOf(s)
<1>1. /\ Len(q) \in Nat /\ DOMAIN q = 1..Len(q) /\ n \in Nat /\ n > 0
      /\ DOMAIN s = 1..Len(q) - 1
  BY QueueType DEF Without
<1>2. \A i \in 1..Len(q) - 1 : s[i] = IF i < n THEN q[i] ELSE q[i + 1]
  BY DEF Without
<1>3. FilesOf(s) \subseteq FilesOf(q)
  <2> SUFFICES ASSUME NEW i \in 1..Len(q) - 1
               PROVE  s[i].file \in FilesOf(q)
    BY <1>1 DEF FilesOf
  <2>1. i \in DOMAIN q /\ i + 1 \in DOMAIN q
    BY <1>1
  <2> QED
    BY <2>1, <1>2 DEF FilesOf
<1>4. FilesOf(q) \subseteq FilesOf(s) \cup {q[n].file}
  <2> SUFFICES ASSUME NEW i \in 1..Len(q), i # n
               PROVE  q[i].file \in FilesOf(s)
    BY <1>1 DEF FilesOf
  <2>1. CASE i < n
    <3>1. i \in DOMAIN s /\ s[i] = q[i]
      BY <1>1, <1>2, <2>1
    <3> QED
      BY <3>1 DEF FilesOf
  <2>2. CASE i > n
    <3>1. i - 1 \in DOMAIN s /\ s[i - 1] = q[(i - 1) + 1] /\ (i - 1) + 1 = i
      BY <1>1, <1>2, <2>2
    <3> QED
      BY <3>1 DEF FilesOf
  <2> QED
    BY <1>1, <2>1, <2>2
<1>5. ASSUME Distinct(q)
      PROVE  Distinct(s) /\ q[n].file \notin FilesOf(s)
  <2>1. ASSUME NEW i \in 1..Len(q) - 1, NEW j \in 1..Len(q) - 1, s[i].file = s[j].file
        PROVE  i = j
    <3>1. PICK k \in 1..Len(q) : s[i] = q[k] /\ k = IF i < n THEN i ELSE i + 1
      BY <1>1, <1>2
    <3>2. PICK l \in 1..Len(q) : s[j] = q[l] /\ l = IF j < n THEN j ELSE j + 1
      BY <1>1, <1>2
    <3>3. k = l
      BY <1>1, <1>5, <2>1, <3>1, <3>2 DEF Distinct
    <3>4. i \in Nat /\ j \in Nat
      BY <1>1
    <3> QED
      BY <1>1, <3>1, <3>2, <3>3, <3>4
  <2>2. ASSUME NEW i \in 1..Len(q) - 1, s[i].file = q[n].file
        PROVE  FALSE
    <3>1. PICK k \in 1..Len(q) : s[i] = q[k] /\ k = IF i < n THEN i ELSE i + 1
      BY <1>1, <1>2
    <3>2. k = n
      BY <1>1, <1>5, <2>2, <3>1 DEF Distinct
    <3> QED
      BY <1>1, <3>1, <3>2
  <2> QED
    BY <1>1, <2>1, <2>2 DEF Distinct, FilesOf
<1> QED
  BY <1>3, <1>4, <1>5

LEMMA QueueTail ==
  ASSUME NEW q \in Seq(Requests), q # <<>>
  PROVE  /\ Head(q) = q[1] /\ 1 \in 1..Len(q) /\ Without(q, 1, Tail(q))
<1>1. Head(q) = q[1] /\ 1 \in 1..Len(q)
  <2> SUFFICES ASSUME NEW R, q \in Seq(R)
               PROVE  Head(q) = q[1] /\ 1 \in 1..Len(q)
    OBVIOUS
  <2> QED
    OBVIOUS
<1>2. /\ Tail(q) \in Seq(Requests) /\ Len(Tail(q)) = Len(q) - 1
      /\ \A i \in 1..Len(Tail(q)) : Tail(q)[i] = q[i + 1]
  BY HeadTailProperties
<1>3. \A i \in 1..Len(q) - 1 : ~(i < 1)
  BY QueueType
<1> QED
  BY <1>1, <1>2, <1>3 DEF Without

LEMMA QueueInsert ==
  ASSUME queue \in Seq(Requests), NEW r \in Requests
  PROVE  /\ Insert(r) \in Seq(Requests) /\ FilesOf(Insert(r)) = Queued \cup {r.file}
         /\ Distinct(queue) /\ r.file \notin Queued => Distinct(Insert(r))
<1> DEFINE n == Cardinality({i \in DOMAIN queue : queue[i].priority >= r.priority})
           s == Insert(r)
<1>1. Len(queue) \in Nat /\ DOMAIN queue = 1..Len(queue)
  BY QueueType
<1>2. n \in 0..Len(queue)
  <2> DEFINE A == {i \in DOMAIN queue : queue[i].priority >= r.priority}
  <2>1. A \in SUBSET (1..Len(queue))
    BY <1>1
  <2> HIDE DEF A
  <2>2. IsFiniteSet(1..Len(queue)) /\ Cardinality(1..Len(queue)) = Len(queue)
    BY SMTT(20), <1>1, FS_Interval
  <2>3. IsFiniteSet(A) /\ Cardinality(A) <= Len(queue)
    BY <2>1, <2>2, FS_Subset
  <2>4. Cardinality(A) \in Nat
    BY <2>3, FS_CardinalityType
  <2>5. Cardinality(A) \in 0..Len(queue)
    BY <1>1, <2>3, <2>4
  <2> QED
    BY <2>5 DEF A
<1>3. s = SubSeq(queue, 1, n) \o <<r>> \o SubSeq(queue, n + 1, Len(queue))
  BY DEF Insert
<1> HIDE DEF n, s
<1>4. /\ s \in Seq(Requests) /\ Len(s) = Len(queue) + 1
      /\ \A i \in 1..Len(queue) + 1 : s[i] = IF i <= n THEN queue[i] ELSE IF i = n + 1 THEN r ELSE queue[i - 1]
  <2>1. With(queue, n, r, s)
    BY <1>2, <1>3, Inserted, Zenon
  <2> QED
    BY <2>1 DEF With
<1>5. DOMAIN s = 1..Len(queue) + 1 /\ n \in Nat /\ n <= Len(queue)
  BY <1>1, <1>2, <1>4, QueueType
<1>6. FilesOf(s) \subseteq Queued \cup {r.file}
  <2> SUFFICES ASSUME NEW i \in 1..Len(queue) + 1
               PROVE  s[i].file \in Queued \cup {r.file}
    BY <1>5 DEF FilesOf
  <2>1. CASE i <= n
    <3>1. i \in DOMAIN queue /\ s[i] = queue[i]
      BY <1>1, <1>4, <1>5, <2>1
    <3> QED
      BY <3>1 DEF Queued
  <2>2. CASE i = n + 1
    BY <1>4, <1>5, <2>2
  <2>3. CASE i > n + 1
    <3>1. i - 1 \in DOMAIN queue /\ s[i] = queue[i - 1]
      BY <1>1, <1>4, <1>5, <2>3
    <3> QED
      BY <3>1 DEF Queued
  <2> QED
    BY <1>5, <2>1, <2>2, <2>3
<1>7. Queued \cup {r.file} \subseteq FilesOf(s)
  <2>1. r.file \in FilesOf(s)
    <3>1. n + 1 \in DOMAIN s /\ s[n + 1] = r
      BY <1>1, <1>4, <1>5
    <3> QED
      BY <3>1 DEF FilesOf
  <2>2. ASSUME NEW i \in 1..Len(queue)
        PROVE  queue[i].file \in FilesOf(s)
    <3>1. CASE i <= n
      <4>1. i \in DOMAIN s /\ s[i] = queue[i]
        BY <1>1, <1>4, <1>5, <3>1
      <4> QED
        BY <4>1 DEF FilesOf
    <3>2. CASE i > n
      <4>1. i + 1 \in DOMAIN s /\ s[i + 1] = queue[(i + 1) - 1] /\ (i + 1) - 1 = i
        BY <1>1, <1>4, <1>5, <3>2
      <4> QED
        BY <4>1 DEF FilesOf
    <3> QED
      BY <1>5, <3>1, <3>2
  <2> QED
    BY <1>1, <2>1, <2>2 DEF Queued
<1>8. ASSUME Distinct(queue), r.file \notin Queued
      PROVE  Distinct(s)
  <2>0. \A i \in 1..Len(queue) : queue[i].file # r.file
    BY <1>1, <1>8 DEF Queued
  <2> SUFFICES ASSUME NEW i \in 1..Len(queue) + 1, NEW j \in 1..Len(queue) + 1, s[i].file = s[j].file
               PROVE  i = j
    BY <1>5 DEF Distinct
  <2>1. \/ i = n + 1 /\ s[i] = r
        \/ \E k \in 1..Len(queue) : s[i] = queue[k] /\ k = (IF i <= n THEN i ELSE i - 1) /\ i # n + 1
    BY <1>1, <1>4, <1>5
  <2>2. \/ j = n + 1 /\ s[j] = r
        \/ \E k \in 1..Len(queue) : s[j] = queue[k] /\ k = (IF j <= n THEN j ELSE j - 1) /\ j # n + 1
    BY <1>1, <1>4, <1>5
  <2>3. CASE i = n + 1 \/ j = n + 1
    BY <2>0, <2>1, <2>2, <2>3
  <2>4. CASE i # n + 1 /\ j # n + 1
    <3>1. PICK k \in 1..Len(queue) : s[i] = queue[k] /\ k = (IF i <= n THEN i ELSE i - 1)
      BY <2>1, <2>4
    <3>2. PICK l \in 1..Len(queue) : s[j] = queue[l] /\ l = (IF j <= n THEN j ELSE j - 1)
      BY <2>2, <2>4
    <3>3. k = l
      BY <1>1, <1>8, <3>1, <3>2 DEF Distinct
    <3>4. i \in Nat /\ j \in Nat
      BY <1>1
    <3> QED
      BY <1>5, <2>4, <3>1, <3>2, <3>3, <3>4
  <2> QED
    BY <2>3, <2>4
<1> QED
  BY <1>4, <1>6, <1>7, <1>8 DEF s

------------------------------------------------------------------------------
(* The inductive invariant: until an operation slips, every entry of the queue *)
(* and the one the worker has is of a file of its own, which waits for it.     *)

Waiting ==
  /\ Distinct(queue) /\ loading \notin Queued
  /\ \A f \in Files : f \in Queued \/ f = loading => state[f] = "hydrating"
SmartInv ==
  /\ SpaceIsKnown /\ HydratingIsServed
  /\ \A f \in Files : saved.state[f] = "local" => f \notin saved.pinned
  /\ slips = 0 => Waiting

LEMMA SameFiles ==
  ASSUME NEW s \in [Files -> States], NEW t \in [Files -> States],
         \A f \in Files : s[f] \in Here <=> t[f] \in Here
  PROVE  LocalFiles(s) = LocalFiles(t)
BY DEF LocalFiles

LEMMA QueuedIsFilesOf == Queued = FilesOf(queue)
BY DEF Queued, FilesOf

LEMMA SmartInit == Init => SmartInv
<1> SUFFICES ASSUME Init PROVE SmartInv
  OBVIOUS
<1>1. state = [f \in Files |-> "none"] /\ saved = [state |-> state, pinned |-> {}]
  BY DEF Init, Unknown
<1>2. TypeOK
  BY <1>1, SmartAssumption DEF Init, TypeOK, States
<1>3. LocalFiles(state) = {}
  BY <1>1 DEF LocalFiles, Here
<1>4. SizeOf(LocalFiles(state)) = 0
  BY <1>3, SizeType
<1>5. TotalIsSum /\ SavedIsHere
  BY <1>1, <1>4 DEF Init, TotalIsSum, SavedIsHere
<1>6. HydratingIsServed /\ \A f \in Files : saved.state[f] = "local" => f \notin saved.pinned
  BY <1>1 DEF HydratingIsServed
<1>7. Queued = {} /\ Distinct(queue) /\ loading = Nobody
  <2>1. DOMAIN queue = {}
    BY DEF Init
  <2> QED
    BY <2>1 DEF Init, Queued, Distinct
<1>8. Waiting
  BY <1>7, SmartAssumption DEF Waiting
<1> QED
  BY <1>2, <1>5, <1>6, <1>8 DEF SmartInv, SpaceIsKnown

\* The steps that change one file at most.
OneFile(f, new) == state' = [state EXCEPT ![f] = new]

LEMMA OneFileType ==
  ASSUME TypeOK, NEW f \in Files, NEW new \in States, OneFile(f, new)
  PROVE  /\ state' \in [Files -> States]
         /\ \A g \in Files : state'[g] = IF g = f THEN new ELSE state[g]
BY DEF TypeOK, OneFile

\* What a save may do: the file has the state of the memory, or the write failed.
Wrote ==
  /\ \/ saved' = [state |-> state', pinned |-> pinned']
     \/ saved' \in {saved, Unknown} /\ written' = "failed"
  /\ written' \in {"whole", "failed"} /\ misses' \in 0..MaxMisses

LEMMA SaveDoes ==
  ASSUME TypeOK, Save, slips' \in Nat
  PROVE  Wrote
BY SmartAssumption DEF TypeOK, Save, Wrote

LEMMA WroteType ==
  ASSUME TypeOK, Wrote, state' \in [Files -> States], pinned' \subseteq Files
  PROVE  saved' \in [state : [Files -> States], pinned : SUBSET Files]
BY DEF TypeOK, Wrote, Unknown, States

\* No file is saved as local and pinned.
LEMMA WroteSound ==
  ASSUME SmartInv, Wrote, state' \in [Files -> States],
         \A f \in Files : state'[f] = "local" => f \notin pinned'
  PROVE  \A f \in Files : saved'.state[f] = "local" => f \notin saved'.pinned
BY DEF SmartInv, Wrote, Unknown

\* The file has what is here, or the write failed.
LEMMA WroteIsHere ==
  ASSUME Wrote
  PROVE  SavedIsHere'
BY DEF Wrote, SavedIsHere

LEMMA RegisterStep ==
  ASSUME SmartInv, NEW f \in Files, Register(f)
  PROVE  SmartInv'
<1>1. /\ OneFile(f, "cloud") /\ pinned' = pinned \ {f} /\ orphans' = orphans \ {f}
      /\ UNCHANGED <<queue, loading, total, pinning, policy, restarts>>
      /\ aged' = aged \ {f} /\ Save /\ TypeOK
      /\ Slip(f, state[f] \in Here \/ f = loading \/ f \in Queued)
  BY DEF Register, OneFile, manager, SmartInv, SpaceIsKnown
<1>2. /\ state' \in [Files -> States]
      /\ \A g \in Files : state'[g] = IF g = f THEN "cloud" ELSE state[g]
  BY <1>1, OneFileType DEF States
<1>3. slips' \in 0..MaxMisses /\ (slips' = 0 => slips = 0 /\ ~(state[f] \in Here \/ f = loading \/ f \in Queued))
  BY <1>1, SmartAssumption DEF Slip, TypeOK
<1>10. Wrote
  BY <1>1, <1>3, SaveDoes
<1>4. TypeOK'
  <2>1. pinned' \subseteq Files
    BY <1>1 DEF TypeOK
  <2>2. saved' \in [state : [Files -> States], pinned : SUBSET Files]
    BY <1>1, <1>2, <1>10, <2>1, WroteType
  <2> QED
    BY <1>1, <1>2, <1>3, <1>10, <2>2 DEF TypeOK, Wrote
<1>5. TotalIsSum' /\ SavedIsHere'
  <2>1. ASSUME slips' = 0
        PROVE  LocalFiles(state') = LocalFiles(state)
    BY <1>1, <1>2, <1>3, <2>1, SameFiles DEF TypeOK, Here
  <2> QED
    BY <1>1, <1>3, <1>10, <2>1, WroteIsHere DEF SmartInv, SpaceIsKnown, TotalIsSum
<1>6. Queued' = Queued
  BY <1>1 DEF Queued
<1>7. HydratingIsServed'
  BY <1>1, <1>2, <1>6 DEF SmartInv, HydratingIsServed
<1>8. slips' = 0 => Waiting'
  BY <1>1, <1>2, <1>3, <1>6 DEF SmartInv, Waiting, Distinct
<1>9. \A g \in Files : saved'.state[g] = "local" => g \notin saved'.pinned
  BY <1>10, <1>4, WroteSound DEF TypeOK
<1> QED
  BY <1>4, <1>5, <1>7, <1>8, <1>9 DEF SmartInv, SpaceIsKnown

LEMMA HydrateStep ==
  ASSUME SmartInv, NEW f \in Files, NEW p \in Priorities, Hydrate(f, p), pinning' \in [Files -> {"no", "ask", "save"}],
         UNCHANGED <<pinned, aged, loading, total, manager, stateFile, slips, orphans>>
  PROVE  SmartInv'
<1>1. /\ OneFile(f, "hydrating") /\ state[f] = "cloud" /\ TypeOK
      /\ queue' = Insert([file |-> f, priority |-> p])
      /\ UNCHANGED <<pinned, aged, loading, total, policy, restarts, saved, written, misses, slips, orphans>>
  BY DEF Hydrate, OneFile, manager, stateFile, SmartInv, SpaceIsKnown
<1>2. /\ state' \in [Files -> States]
      /\ \A g \in Files : state'[g] = IF g = f THEN "hydrating" ELSE state[g]
  BY <1>1, OneFileType DEF States
<1>3. [file |-> f, priority |-> p] \in Requests /\ [file |-> f, priority |-> p].file = f
  BY DEF Requests
<1>4. /\ queue' \in Seq(Requests) /\ FilesOf(queue') = Queued \cup {f}
      /\ Distinct(queue) /\ f \notin Queued => Distinct(queue')
  BY <1>1, <1>3, QueueInsert DEF TypeOK
<1>5. TypeOK'
  BY <1>1, <1>2, <1>4 DEF TypeOK
<1>6. LocalFiles(state') = LocalFiles(state)
  BY <1>1, <1>2, SameFiles DEF TypeOK, Here
<1>7. TotalIsSum' /\ SavedIsHere'
  BY <1>1, <1>2, <1>6 DEF SmartInv, SpaceIsKnown, TotalIsSum, SavedIsHere, Here
<1>8. Queued' = Queued \cup {f}
  BY <1>4 DEF Queued, FilesOf
<1>9. HydratingIsServed'
  BY <1>1, <1>2, <1>8 DEF SmartInv, HydratingIsServed
<1>10. slips' = 0 => Waiting'
  <2> SUFFICES ASSUME slips' = 0 PROVE Waiting'
    OBVIOUS
  <2>1. Waiting /\ f \notin Queued /\ f # loading
    BY <1>1 DEF SmartInv, Waiting
  <2> QED
    BY <1>1, <1>2, <1>4, <1>8, <2>1 DEF Waiting
<1> QED
  BY <1>1, <1>5, <1>7, <1>9, <1>10 DEF SmartInv, SpaceIsKnown

LEMMA CancelStep ==
  ASSUME SmartInv, NEW f \in Files, Cancel(f)
  PROVE  SmartInv'
<1>1. /\ OneFile(f, "cloud") /\ orphans' = orphans \ {f} /\ TypeOK
      /\ queue' = IF First(f) = {} THEN queue ELSE RemoveAt(queue, CHOOSE i \in First(f) : TRUE)
      /\ aged' = aged \ {f}
      /\ UNCHANGED <<pinned, loading, total, pinning, policy, restarts, saved, written, misses>>
      /\ Slip(f, state[f] \in Here \/ f = loading)
  BY DEF Cancel, OneFile, manager, stateFile, SmartInv, SpaceIsKnown
<1>2. /\ state' \in [Files -> States]
      /\ \A g \in Files : state'[g] = IF g = f THEN "cloud" ELSE state[g]
  BY <1>1, OneFileType DEF States
<1>3. slips' \in 0..MaxMisses /\ (slips' = 0 => slips = 0 /\ ~(state[f] \in Here \/ f = loading))
  BY <1>1, SmartAssumption DEF Slip, TypeOK
<1>4. /\ queue' \in Seq(Requests) /\ FilesOf(queue') \subseteq Queued
      /\ Queued \subseteq FilesOf(queue') \cup {f}
      /\ Distinct(queue) => Distinct(queue') /\ f \notin FilesOf(queue')
  <2>0. queue \in Seq(Requests) /\ Len(queue) \in Nat /\ DOMAIN queue = 1..Len(queue)
    BY <1>1, QueueType DEF TypeOK
  <2>1. CASE First(f) = {}
    <3>1. queue' = queue
      BY <1>1, <2>1
    <3>2. f \notin Queued
      <4> SUFFICES ASSUME NEW i \in 1..Len(queue), queue[i].file = f
                   PROVE  FALSE
        BY <2>0 DEF Queued
      <4> DEFINE At == {n \in Nat : \A k \in 1..Len(queue) : k <= n => queue[k].file # f}
      <4>1. 0 \in At
        OBVIOUS
      <4>2. ASSUME NEW n \in Nat, n \in At
            PROVE  n + 1 \in At
        <5> SUFFICES ASSUME n + 1 \in 1..Len(queue), queue[n + 1].file = f
                     PROVE  FALSE
          BY <4>2, <2>0
        <5>1. \A j \in 1..(n + 1) - 1 : queue[j].file # f
          BY <4>2, <2>0
        <5>2. n + 1 \in First(f)
          BY <5>1, <2>0 DEF First
        <5> QED
          BY <5>2, <2>1
      <4>3. Nat \subseteq At
        <5> HIDE DEF At
        <5> QED
          BY <4>1, <4>2, SetInduction
      <4> QED
        BY <4>3, <2>0
    <3> QED
      BY <2>0, <3>1, <3>2, QueuedIsFilesOf
  <2>2. CASE First(f) # {}
    <3> DEFINE n == CHOOSE i \in First(f) : TRUE
    <3>1. n \in First(f)
      BY <2>2
    <3>2. n \in 1..Len(queue) /\ queue[n].file = f
      BY <3>1, <2>0 DEF First
    <3>3. queue' = RemoveAt(queue, n)
      BY <1>1, <2>2
    <3> HIDE DEF n
    <3>4. Without(queue, n, queue')
      BY <2>0, <3>2, <3>3, Removed
    <3>5. queue' \in Seq(Requests)
      BY <3>4 DEF Without
    <3> QED
      BY <2>0, <3>2, <3>4, <3>5, QueueWithout, QueuedIsFilesOf
  <2> QED
    BY <2>1, <2>2
<1>5. TypeOK'
  BY <1>1, <1>2, <1>3, <1>4 DEF TypeOK
<1>6. TotalIsSum' /\ SavedIsHere'
  <2> SUFFICES ASSUME slips' = 0
               PROVE  TotalIsSum' /\ SavedIsHere'
    BY DEF TotalIsSum, SavedIsHere
  <2>1. \A g \in Files : state[g] \in Here <=> state'[g] \in Here
    BY <1>2, <1>3 DEF Here
  <2>2. LocalFiles(state') = LocalFiles(state)
    BY <1>1, <1>2, <2>1, SameFiles DEF TypeOK
  <2> QED
    BY <1>1, <1>3, <2>1, <2>2 DEF SmartInv, SpaceIsKnown, TotalIsSum, SavedIsHere
<1>7. Queued' = FilesOf(queue')
  BY DEF Queued, FilesOf
<1>8. HydratingIsServed'
  BY <1>1, <1>2, <1>4, <1>7 DEF SmartInv, HydratingIsServed
<1>9. slips' = 0 => Waiting'
  BY <1>1, <1>2, <1>3, <1>4, <1>7 DEF SmartInv, Waiting
<1> QED
  BY <1>1, <1>5, <1>6, <1>8, <1>9 DEF SmartInv, SpaceIsKnown

LEMMA PinStep ==
  ASSUME SmartInv, NEW f \in Files, Pin(f)
  PROVE  SmartInv'
<1> DEFINE new == IF state[f] = "local" THEN "pinned" ELSE state[f]
<1>1. /\ OneFile(f, new) /\ pinned' = pinned \cup {f} /\ TypeOK
      /\ UNCHANGED <<aged, queue, loading, total, policy, restarts, slips, orphans>>
      /\ \/ state[f] = "cloud" /\ pinning' = [pinning EXCEPT ![f] = "ask"] /\ UNCHANGED stateFile
         \/ Save /\ pinning' = pinning
  BY DEF Pin, OneFile, manager, SmartInv, SpaceIsKnown
<1>2. new \in States /\ (new \in Here <=> state[f] \in Here) /\ new # "local" /\ (new = "hydrating" <=> state[f] = "hydrating")
  BY <1>1 DEF TypeOK, States, Here
<1>3. /\ state' \in [Files -> States]
      /\ \A g \in Files : state'[g] = IF g = f THEN new ELSE state[g]
  BY <1>1, <1>2, OneFileType
<1> HIDE DEF new
<1>10. \/ UNCHANGED <<saved, written, misses>>
       \/ Wrote
  <2>1. slips' \in Nat
    BY <1>1 DEF TypeOK
  <2> QED
    BY <1>1, <2>1, SaveDoes DEF stateFile
<1>4. TypeOK'
  <2>1. pinned' \subseteq Files /\ pinning' \in [Files -> {"no", "ask", "save"}]
    BY <1>1 DEF TypeOK
  <2>2. saved' \in [state : [Files -> States], pinned : SUBSET Files]
    BY <1>1, <1>3, <1>10, <2>1, WroteType DEF TypeOK
  <2>3. written' \in {"whole", "failed"} /\ misses' \in 0..MaxMisses
    BY <1>1, <1>10 DEF TypeOK, Wrote
  <2> QED
    BY <1>1, <1>2, <1>3, <2>1, <2>2, <2>3 DEF TypeOK
<1>5. LocalFiles(state') = LocalFiles(state)
  BY <1>1, <1>2, <1>3, SameFiles DEF TypeOK
<1>6. TotalIsSum' /\ SavedIsHere'
  BY <1>1, <1>2, <1>3, <1>5, <1>10, WroteIsHere DEF SmartInv, SpaceIsKnown, TotalIsSum, SavedIsHere
<1>7. Queued' = Queued
  BY <1>1 DEF Queued
<1>8. HydratingIsServed' /\ (slips' = 0 => Waiting')
  BY <1>1, <1>2, <1>3, <1>7 DEF SmartInv, HydratingIsServed, Waiting, Distinct
<1>9. \A g \in Files : saved'.state[g] = "local" => g \notin saved'.pinned
  BY <1>1, <1>4, <1>10, WroteSound DEF TypeOK, SmartInv
<1> QED
  BY <1>4, <1>6, <1>8, <1>9 DEF SmartInv, SpaceIsKnown

LEMMA UnpinStep ==
  ASSUME SmartInv, NEW f \in Files, Unpin(f)
  PROVE  SmartInv'
<1> DEFINE new == IF state[f] = "pinned" THEN "local" ELSE state[f]
<1>1. /\ OneFile(f, new) /\ pinned' = pinned \ {f} /\ TypeOK
      /\ UNCHANGED <<aged, queue, loading, total, pinning, policy, restarts, slips, orphans>>
      /\ Save
  BY DEF Unpin, OneFile, manager, SmartInv, SpaceIsKnown
<1>2. new \in States /\ (new \in Here <=> state[f] \in Here) /\ (new = "hydrating" <=> state[f] = "hydrating")
  BY <1>1 DEF TypeOK, States, Here
<1>3. /\ state' \in [Files -> States]
      /\ \A g \in Files : state'[g] = IF g = f THEN new ELSE state[g]
  BY <1>1, <1>2, OneFileType
<1> HIDE DEF new
<1>11. Wrote
  <2>1. slips' \in Nat
    BY <1>1 DEF TypeOK
  <2> QED
    BY <1>1, <2>1, SaveDoes
<1>4. TypeOK'
  <2>1. pinned' \subseteq Files
    BY <1>1 DEF TypeOK
  <2>2. saved' \in [state : [Files -> States], pinned : SUBSET Files]
    BY <1>1, <1>3, <1>11, <2>1, WroteType
  <2> QED
    BY <1>1, <1>2, <1>3, <1>11, <2>1, <2>2 DEF TypeOK, Wrote
<1>5. LocalFiles(state') = LocalFiles(state)
  BY <1>1, <1>2, <1>3, SameFiles DEF TypeOK
<1>6. TotalIsSum' /\ SavedIsHere'
  BY <1>1, <1>5, <1>11, WroteIsHere DEF SmartInv, SpaceIsKnown, TotalIsSum
<1>7. Queued' = Queued
  BY <1>1 DEF Queued
<1>8. HydratingIsServed' /\ (slips' = 0 => Waiting')
  BY <1>1, <1>2, <1>3, <1>7 DEF SmartInv, HydratingIsServed, Waiting, Distinct
<1>9. \A g \in Files : saved'.state[g] = "local" => g \notin saved'.pinned
  BY <1>11, <1>4, WroteSound DEF TypeOK
<1> QED
  BY <1>4, <1>6, <1>8, <1>9 DEF SmartInv, SpaceIsKnown

\* Steps that leave the states of the files and the queue alone.
LEMMA OtherStep ==
  ASSUME SmartInv,
         \/ \E f \in Files : PinSaves(f) \/ Age(f) \/ RecordAccess(f)
         \/ \E m \in Maxima \cup {Off} : SetPolicy(m)
         \/ UNCHANGED vars
  PROVE  SmartInv'
<1>1. /\ UNCHANGED <<state, pinned, queue, loading, total, slips, orphans, restarts>> /\ TypeOK
      /\ UNCHANGED <<saved, written, misses>> \/ Save
  BY DEF PinSaves, Age, RecordAccess, SetPolicy, stateFile, manager, vars, SmartInv, SpaceIsKnown
<1>2. aged' \subseteq Files /\ pinning' \in [Files -> {"no", "ask", "save"}] /\ policy' \in Maxima \cup {Off}
  BY DEF PinSaves, Age, RecordAccess, SetPolicy, manager, vars, SmartInv, SpaceIsKnown, TypeOK
<1>7. \/ UNCHANGED <<saved, written, misses>>
      \/ Wrote
  <2>1. slips' \in Nat
    BY <1>1 DEF TypeOK
  <2> QED
    BY <1>1, <2>1, SaveDoes
<1>3. TypeOK'
  <2>1. saved' \in [state : [Files -> States], pinned : SUBSET Files]
    BY <1>1, <1>7, WroteType DEF TypeOK
  <2>2. written' \in {"whole", "failed"} /\ misses' \in 0..MaxMisses
    BY <1>1, <1>7 DEF TypeOK, Wrote
  <2> QED
    BY <1>1, <1>2, <2>1, <2>2 DEF TypeOK
<1>4. TotalIsSum' /\ SavedIsHere'
  BY <1>1, <1>7, WroteIsHere DEF SmartInv, SpaceIsKnown, TotalIsSum, SavedIsHere
<1>5. HydratingIsServed' /\ (slips' = 0 => Waiting')
  BY <1>1 DEF SmartInv, HydratingIsServed, Waiting, Distinct, Queued
<1>6. \A g \in Files : saved'.state[g] = "local" => g \notin saved'.pinned
  BY <1>1, <1>3, <1>7, WroteSound DEF TypeOK, SmartInv
<1> QED
  BY <1>3, <1>4, <1>5, <1>6 DEF SmartInv, SpaceIsKnown

LEMMA PinAsksStep ==
  ASSUME SmartInv, NEW f \in Files, PinAsks(f)
  PROVE  SmartInv'
<1>1. pinning' \in [Files -> {"no", "ask", "save"}]
  BY DEF PinAsks, SmartInv, SpaceIsKnown, TypeOK
<1>2. CASE Hydrate(f, High)
  BY <1>1, <1>2, HydrateStep, SmartAssumption DEF PinAsks
<1>3. CASE UNCHANGED <<state, queue>>
  <2>1. UNCHANGED <<state, pinned, aged, queue, loading, total, policy, restarts, saved, written, misses, slips, orphans>> /\ TypeOK
    BY <1>3 DEF PinAsks, manager, stateFile, SmartInv, SpaceIsKnown
  <2>2. TypeOK'
    BY <1>1, <2>1 DEF TypeOK
  <2>3. TotalIsSum' /\ SavedIsHere' /\ HydratingIsServed' /\ (slips' = 0 => Waiting')
    BY <2>1 DEF SmartInv, SpaceIsKnown, TotalIsSum, SavedIsHere, HydratingIsServed, Waiting, Distinct, Queued
  <2> QED
    BY <2>1, <2>2, <2>3 DEF SmartInv, SpaceIsKnown
<1> QED
  BY <1>2, <1>3 DEF PinAsks

LEMMA DehydrateStep ==
  ASSUME SmartInv, NEW f \in Files, Dehydrate(f)
  PROVE  SmartInv'
<1>1. /\ OneFile(f, "cloud") /\ state[f] = "local" /\ total' = total - Sizes[f] /\ TypeOK
      /\ UNCHANGED <<pinned, queue, loading, pinning, policy, restarts, slips, orphans>>
      /\ aged' = aged \ {f} /\ Save
  BY DEF Dehydrate, OneFile, manager, SmartInv, SpaceIsKnown
<1>2. /\ state' \in [Files -> States]
      /\ \A g \in Files : state'[g] = IF g = f THEN "cloud" ELSE state[g]
  BY <1>1, OneFileType DEF States
<1>11. Wrote
  <2>1. slips' \in Nat
    BY <1>1 DEF TypeOK
  <2> QED
    BY <1>1, <2>1, SaveDoes
<1>3. TypeOK'
  <2>1. total' \in Int
    BY <1>1, SmartAssumption DEF TypeOK
  <2>2. saved' \in [state : [Files -> States], pinned : SUBSET Files]
    BY <1>1, <1>2, <1>11, WroteType DEF TypeOK
  <2> QED
    BY <1>1, <1>2, <1>11, <2>1, <2>2 DEF TypeOK, Wrote
<1>4. LocalFiles(state') = LocalFiles(state) \ {f} /\ f \in LocalFiles(state) /\ LocalFiles(state) \subseteq Files
  BY <1>1, <1>2 DEF LocalFiles, Here
<1>5. SizeOf(LocalFiles(state')) = SizeOf(LocalFiles(state)) - Sizes[f]
  <2> DEFINE R == LocalFiles(state) \ {f}
  <2>1. R \in SUBSET Files /\ f \in Files \ R /\ R \cup {f} = LocalFiles(state)
    BY <1>4
  <2> HIDE DEF R
  <2>2. SizeOf(LocalFiles(state)) = SizeOf(R) + Sizes[f]
    BY <2>1, SizeAdd
  <2>3. SizeOf(R) \in Nat /\ Sizes[f] \in Nat
    BY <2>1, SizeType, SmartAssumption
  <2>4. SizeOf(LocalFiles(state')) = SizeOf(R)
    BY <1>4 DEF R
  <2> QED
    BY <2>2, <2>3, <2>4
<1>6. TotalIsSum' /\ SavedIsHere'
  BY <1>1, <1>5, <1>11, WroteIsHere DEF SmartInv, SpaceIsKnown, TotalIsSum
<1>7. Queued' = Queued
  BY <1>1 DEF Queued
<1>8. HydratingIsServed'
  BY <1>1, <1>2, <1>7 DEF SmartInv, HydratingIsServed
<1>9. slips' = 0 => Waiting'
  BY <1>1, <1>2, <1>7 DEF SmartInv, Waiting, Distinct
<1>10. \A g \in Files : saved'.state[g] = "local" => g \notin saved'.pinned
  BY <1>11, <1>3, WroteSound DEF TypeOK
<1> QED
  BY <1>3, <1>6, <1>8, <1>9, <1>10 DEF SmartInv, SpaceIsKnown

------------------------------------------------------------------------------
(* The worker.                                                                 *)

LEMMA TakeStep ==
  ASSUME SmartInv, Take
  PROVE  SmartInv'
<1>1. /\ loading = Nobody /\ queue # <<>> /\ loading' = Head(queue).file /\ queue' = Tail(queue)
      /\ UNCHANGED <<state, pinned, aged, total, pinning, policy, restarts, saved, written, misses, slips, orphans>>
      /\ TypeOK /\ queue \in Seq(Requests)
  BY DEF Take, manager, stateFile, SmartInv, SpaceIsKnown, TypeOK
<1>2. Head(queue) = queue[1] /\ 1 \in 1..Len(queue) /\ Without(queue, 1, queue')
  BY <1>1, QueueTail
<1>3. /\ queue' \in Seq(Requests) /\ loading' = queue[1].file /\ loading' \in Files
      /\ loading' \in Queued
  BY <1>1, <1>2, QueueType DEF Without, Queued
<1>4. /\ FilesOf(queue') \subseteq Queued /\ Queued \subseteq FilesOf(queue') \cup {loading'}
      /\ Distinct(queue) => Distinct(queue') /\ loading' \notin FilesOf(queue')
  BY <1>1, <1>2, <1>3, QueueWithout, QueuedIsFilesOf
<1>5. Queued' = FilesOf(queue')
  BY DEF Queued, FilesOf
<1>6. TypeOK'
  BY <1>1, <1>3 DEF TypeOK
<1>7. TotalIsSum' /\ SavedIsHere'
  BY <1>1 DEF SmartInv, SpaceIsKnown, TotalIsSum, SavedIsHere
<1>8. HydratingIsServed'
  <2>1. \A f \in Files : f \in Queued \/ f = loading => f \in Queued' \/ f = loading'
    BY <1>1, <1>4, <1>5, SmartAssumption
  <2> QED
    BY <1>1, <2>1 DEF SmartInv, HydratingIsServed
<1>9. slips' = 0 => Waiting'
  BY <1>1, <1>3, <1>4, <1>5 DEF SmartInv, Waiting
<1> QED
  BY <1>1, <1>6, <1>7, <1>8, <1>9 DEF SmartInv, SpaceIsKnown

LEMMA FailStep ==
  ASSUME SmartInv, Fail
  PROVE  SmartInv'
<1>0. loading \in Files
  BY DEF Fail, SmartInv, SpaceIsKnown, TypeOK
<1>1. /\ OneFile(loading, "cloud") /\ loading' = Nobody /\ TypeOK
      /\ UNCHANGED <<pinned, aged, queue, total, pinning, policy, restarts, slips, orphans>>
      /\ Save
  BY DEF Fail, OneFile, manager, SmartInv, SpaceIsKnown
<1>2. /\ state' \in [Files -> States]
      /\ \A g \in Files : state'[g] = IF g = loading THEN "cloud" ELSE state[g]
  BY <1>0, <1>1, OneFileType DEF States
<1>11. Wrote
  <2>1. slips' \in Nat
    BY <1>1 DEF TypeOK
  <2> QED
    BY <1>1, <2>1, SaveDoes
<1>3. TypeOK'
  <2>1. saved' \in [state : [Files -> States], pinned : SUBSET Files]
    BY <1>1, <1>2, <1>11, WroteType DEF TypeOK
  <2> QED
    BY <1>1, <1>2, <1>11, <2>1 DEF TypeOK, Wrote
<1>4. TotalIsSum' /\ SavedIsHere'
  <2> SUFFICES ASSUME slips' = 0
               PROVE  TotalIsSum' /\ SavedIsHere'
    BY DEF TotalIsSum, SavedIsHere
  <2>1. state[loading] = "hydrating"
    BY <1>0, <1>1 DEF SmartInv, Waiting
  <2>2. LocalFiles(state') = LocalFiles(state)
    BY <1>1, <1>2, <2>1, SameFiles DEF TypeOK, Here
  <2> QED
    BY <1>1, <1>11, <2>2, WroteIsHere DEF SmartInv, SpaceIsKnown, TotalIsSum
<1>5. Queued' = Queued
  BY <1>1 DEF Queued
<1>6. HydratingIsServed'
  BY <1>1, <1>2, <1>5 DEF SmartInv, HydratingIsServed
<1>7. slips' = 0 => Waiting'
  <2>1. Queued \subseteq Files
    BY <1>1, QueueType, QueuedIsFilesOf DEF TypeOK
  <2> QED
    BY <1>1, <1>2, <1>5, <2>1, SmartAssumption DEF SmartInv, Waiting, Distinct
<1>8. \A g \in Files : saved'.state[g] = "local" => g \notin saved'.pinned
  BY <1>11, <1>3, WroteSound DEF TypeOK
<1> QED
  BY <1>3, <1>4, <1>6, <1>7, <1>8 DEF SmartInv, SpaceIsKnown

LEMMA CompleteStep ==
  ASSUME SmartInv, Complete
  PROVE  SmartInv'
<1> DEFINE new == IF loading \in pinned THEN "pinned" ELSE "local"
<1>0. loading \in Files
  BY DEF Complete, SmartInv, SpaceIsKnown, TypeOK
<1>1. /\ OneFile(loading, new) /\ loading' = Nobody /\ TypeOK
      /\ total' = total + Sizes[loading] /\ aged' = aged \ {loading}
      /\ UNCHANGED <<pinned, queue, pinning, policy, restarts, slips, orphans>>
      /\ Save
  BY DEF Complete, OneFile, manager, SmartInv, SpaceIsKnown
<1>2. new \in States /\ new \in Here /\ new # "hydrating" /\ (new = "local" => loading \notin pinned)
  BY DEF States, Here
<1>3. /\ state' \in [Files -> States]
      /\ \A g \in Files : state'[g] = IF g = loading THEN new ELSE state[g]
  BY <1>0, <1>1, <1>2, OneFileType
<1> HIDE DEF new
<1>11. Wrote
  <2>1. slips' \in Nat
    BY <1>1 DEF TypeOK
  <2> QED
    BY <1>1, <2>1, SaveDoes
<1>4. TypeOK'
  <2>1. total' \in Int
    BY <1>0, <1>1, SmartAssumption DEF TypeOK
  <2>2. \A g \in Files : state'[g] = "local" => g \notin pinned'
    BY <1>1, <1>2, <1>3 DEF TypeOK
  <2>3. saved' \in [state : [Files -> States], pinned : SUBSET Files]
    BY <1>1, <1>3, <1>11, WroteType DEF TypeOK
  <2> QED
    BY <1>1, <1>3, <1>11, <2>1, <2>2, <2>3 DEF TypeOK, Wrote
<1>5. TotalIsSum' /\ SavedIsHere'
  <2> SUFFICES ASSUME slips' = 0
               PROVE  TotalIsSum' /\ SavedIsHere'
    BY DEF TotalIsSum, SavedIsHere
  <2>1. state[loading] = "hydrating"
    BY <1>0, <1>1 DEF SmartInv, Waiting
  <2>2. /\ LocalFiles(state) \in SUBSET Files /\ loading \in Files \ LocalFiles(state)
        /\ LocalFiles(state') = LocalFiles(state) \cup {loading}
    BY <1>0, <1>2, <1>3, <2>1 DEF LocalFiles, Here
  <2>3. SizeOf(LocalFiles(state')) = SizeOf(LocalFiles(state)) + Sizes[loading]
    BY <2>2, SizeAdd
  <2> QED
    BY <1>1, <1>11, <2>3, WroteIsHere DEF SmartInv, SpaceIsKnown, TotalIsSum
<1>6. Queued' = Queued
  BY <1>1 DEF Queued
<1>7. HydratingIsServed'
  BY <1>1, <1>2, <1>3, <1>6 DEF SmartInv, HydratingIsServed
<1>8. slips' = 0 => Waiting'
  <2>1. Queued \subseteq Files
    BY <1>1, QueueType, QueuedIsFilesOf DEF TypeOK
  <2> QED
    BY <1>1, <1>3, <1>6, <2>1, SmartAssumption DEF SmartInv, Waiting, Distinct
<1>9. \A g \in Files : saved'.state[g] = "local" => g \notin saved'.pinned
  BY <1>11, <1>4, WroteSound DEF TypeOK
<1> QED
  BY <1>4, <1>5, <1>7, <1>8, <1>9 DEF SmartInv, SpaceIsKnown

LEMMA RestartStep ==
  ASSUME SmartInv, Restart
  PROVE  SmartInv'
<1>0. PICK found \in {saved, Unknown} :
        /\ state' = found.state /\ pinned' = found.pinned /\ saved' = found
        /\ total' = SizeOf(LocalFiles(found.state))
        /\ orphans' = {f \in Files : found.state[f] = "hydrating"}
  BY DEF Restart
<1>1. /\ found \in [state : [Files -> States], pinned : SUBSET Files]
      /\ \A f \in Files : found.state[f] = "local" => f \notin found.pinned
  BY DEF SmartInv, SpaceIsKnown, TypeOK, Unknown, States
<1>2. /\ queue' = <<>> /\ loading' = Nobody /\ policy' = DefaultMax /\ slips' = 0 /\ written' = "whole" /\ misses' = misses
      /\ pinning' = [f \in Files |-> "no"] /\ restarts' = restarts + 1 /\ restarts < MaxRestarts
      /\ aged' = aged \cap LocalFiles(state') /\ TypeOK
  BY DEF Restart, SmartInv, SpaceIsKnown
<1>3. total' \in Int
  <2>1. LocalFiles(found.state) \in SUBSET Files
    BY DEF LocalFiles
  <2> QED
    BY <1>0, <2>1, SizeType
<1>4. TypeOK'
  <2>1. restarts' \in 0..MaxRestarts /\ 0 \in 0..MaxMisses /\ queue' \in Seq(Requests)
    BY <1>2, SmartAssumption DEF TypeOK
  <2>2. policy' \in Maxima \cup {Off}
    BY <1>2, SmartAssumption
  <2> QED
    BY <1>0, <1>1, <1>2, <1>3, <2>1, <2>2 DEF TypeOK
<1>5. TotalIsSum' /\ SavedIsHere'
  BY <1>0 DEF TotalIsSum, SavedIsHere
<1>6. HydratingIsServed'
  BY <1>0 DEF HydratingIsServed
<1>7. Waiting'
  <2>1. DOMAIN queue' = {} /\ Queued' = {}
    BY <1>2 DEF Queued
  <2> QED
    BY <1>2, <2>1, SmartAssumption DEF Waiting, Distinct
<1> QED
  BY <1>0, <1>1, <1>4, <1>5, <1>6, <1>7 DEF SmartInv, SpaceIsKnown

------------------------------------------------------------------------------
(* The sweep.                                                                  *)

\* What the loop of Freed has given up after each turn.
Turns(gone, order) ==
  /\ gone[0] = {}
  /\ \A i \in 1..Len(order) :
       gone[i] = IF order[i] \in aged \/ SizeOf(gone[i - 1]) < NeedToFree
                 THEN gone[i - 1] \cup {order[i]} ELSE gone[i - 1]
  /\ gone[Len(order)] = Freed(order)

LEMMA FreedLoop ==
  ASSUME NEW order, Len(order) \in Nat
  PROVE  \E gone : Turns(gone, order)
<1> DEFINE Turn(S, i) == IF order[i] \in aged \/ SizeOf(S) < NeedToFree THEN S \cup {order[i]} ELSE S
           gone[i \in 0..Len(order)] == IF i = 0 THEN {} ELSE Turn(gone[i - 1], i)
           Upto == {n \in Nat : \E f : f = [i \in 0..n |-> IF i = 0 THEN {} ELSE Turn(f[i - 1], i)]}
<1>1. Freed(order) = gone[Len(order)]
  BY DEF Freed
<1> HIDE DEF Turn
<1>2. 0 \in Upto
  <2> DEFINE g == [i \in 0..0 |-> {}]
  <2>1. g = [i \in 0..0 |-> IF i = 0 THEN {} ELSE Turn(g[i - 1], i)]
    OBVIOUS
  <2> QED
    BY <2>1
<1>3. ASSUME NEW n \in Nat, n \in Upto
      PROVE  n + 1 \in Upto
  <2>1. PICK f : f = [i \in 0..n |-> IF i = 0 THEN {} ELSE Turn(f[i - 1], i)]
    BY <1>3
  <2> DEFINE g == [i \in 0..n + 1 |-> IF i = n + 1 THEN Turn(f[n], n + 1) ELSE f[i]]
  <2>2. \A i \in 0..n + 1 : g[i] = IF i = 0 THEN {} ELSE Turn(g[i - 1], i)
    <3> SUFFICES ASSUME NEW i \in 0..n + 1
                 PROVE  g[i] = IF i = 0 THEN {} ELSE Turn(g[i - 1], i)
      OBVIOUS
    <3>1. CASE i = n + 1
      <4>1. g[i] = Turn(f[n], n + 1) /\ g[i - 1] = f[n] /\ i # 0 /\ i - 1 = n
        BY <3>1
      <4> QED
        BY <4>1, <3>1
    <3>2. CASE i \in 0..n
      <4>1. g[i] = f[i] /\ (i # 0 => g[i - 1] = f[i - 1])
        BY <3>2
      <4>2. f[i] = IF i = 0 THEN {} ELSE Turn(f[i - 1], i)
        BY <2>1, <3>2
      <4> QED
        BY <4>1, <4>2
    <3> QED
      BY <3>1, <3>2
  <2>3. g = [i \in 0..n + 1 |-> IF i = 0 THEN {} ELSE Turn(g[i - 1], i)]
    BY <2>2
  <2> HIDE DEF g
  <2> QED
    BY <2>3
<1>4. Len(order) \in Upto
  <2> HIDE DEF Upto
  <2> QED
    BY <1>2, <1>3, SetInduction
<1>5. gone = [i \in 0..Len(order) |-> IF i = 0 THEN {} ELSE Turn(gone[i - 1], i)]
  <2>1. \E f : f = [i \in 0..Len(order) |-> IF i = 0 THEN {} ELSE Turn(f[i - 1], i)]
    BY <1>4
  <2> QED
    BY <2>1, Zenon
<1> HIDE DEF gone
<1>6. gone[0] = {} /\ \A i \in 1..Len(order) : gone[i] = Turn(gone[i - 1], i)
  <2> HIDE DEF Upto
  <2> SUFFICES ASSUME NEW f, f = [i \in 0..Len(order) |-> IF i = 0 THEN {} ELSE Turn(f[i - 1], i)]
               PROVE  f[0] = {} /\ \A i \in 1..Len(order) : f[i] = Turn(f[i - 1], i)
    BY <1>5
  <2>1. ASSUME NEW i \in 1..Len(order)
        PROVE  f[i] = Turn(f[i - 1], i)
    <3>1. i \in 0..Len(order) /\ i # 0
      OBVIOUS
    <3> QED
      BY <3>1
  <2>2. 0 \in 0..Len(order)
    OBVIOUS
  <2> QED
    BY <2>1, <2>2
<1> QED
  BY <1>1, <1>6 DEF Turn, Turns

\* An order has every candidate once.
LEMMA OrderType ==
  ASSUME NEW order \in Orders
  PROVE  /\ Len(order) \in Nat /\ DOMAIN order = 1..Len(order)
         /\ {order[i] : i \in 1..Len(order)} = Candidates
         /\ \A i, j \in 1..Len(order) : order[i] = order[j] => i = j
         /\ \A i, j \in 1..Len(order) : order[j] \in aged /\ i < j => order[i] \in aged
<1> DEFINE n == Cardinality(Candidates)
<1>1. IsFiniteSet(Candidates) /\ n \in Nat
  <2>1. Candidates \in SUBSET Files
    BY DEF Candidates
  <2> QED
    BY <2>1, SmartAssumption, FS_Subset, FS_CardinalityType
<1> HIDE DEF n
<1>2. order \in [1..n -> Candidates] /\ \A i, j \in 1..n : i # j => order[i] # order[j]
  BY DEF Orders, SetToSeqs, n
<1>3. \A i, j \in DOMAIN order : order[j] \in aged /\ i < j => order[i] \in aged
  BY DEF Orders
<1>4. DOMAIN order = 1..n /\ Len(order) = n
  BY <1>1, <1>2
<1>5. {order[i] : i \in 1..n} = Candidates
  <2>1. IsFiniteSet(1..n) /\ Cardinality(1..n) = n
    BY <1>1, FS_Interval
  <2>2. order \in Injection(1..n, Candidates)
    BY <1>2 DEF Injection, IsInjective
  <2>3. order \in Surjection(1..n, Candidates)
    BY <1>1, <2>1, <2>2, FS_Injection DEF n
  <2> QED
    BY <1>2, <2>3 DEF Surjection
<1> QED
  BY <1>1, <1>2, <1>3, <1>4, <1>5

LEMMA FreedEnough ==
  ASSUME TypeOK, NEW order \in Orders
  PROVE  /\ Freed(order) \subseteq Candidates
         /\ SizeOf(Freed(order)) >= NeedToFree \/ Freed(order) = Candidates
         /\ Freed(order) \subseteq aged \/ \E f \in Freed(order) \ aged : SizeOf(Freed(order) \ {f}) < NeedToFree
<1>1. /\ Len(order) \in Nat /\ {order[i] : i \in 1..Len(order)} = Candidates
      /\ \A i, j \in 1..Len(order) : order[i] = order[j] => i = j
      /\ \A i, j \in 1..Len(order) : order[j] \in aged /\ i < j => order[i] \in aged
      /\ Candidates \subseteq Files
  BY OrderType DEF Candidates
<1>2. PICK gone : Turns(gone, order)
  BY <1>1, FreedLoop
<1>3. NeedToFree \in Int
  BY SmartAssumption DEF NeedToFree, TypeOK, Off
<1> HIDE DEF NeedToFree
<1> DEFINE Before(i) == {order[j] : j \in 1..i}
           Inv(i) == /\ gone[i] \subseteq Before(i)
                     /\ SizeOf(gone[i]) >= NeedToFree \/ gone[i] = Before(i)
                     /\ gone[i] \subseteq aged \/ \E f \in gone[i] \ aged : SizeOf(gone[i] \ {f}) < NeedToFree
           Good == {i \in Nat : i <= Len(order) => Inv(i)}
<1>4. 0 \in Good
  <2>1. gone[0] = {} /\ Before(0) = {}
    BY <1>2 DEF Turns
  <2> QED
    BY <2>1
<1>5. ASSUME NEW i \in Nat, i \in Good
      PROVE  i + 1 \in Good
  <2> DEFINE n == i + 1
             x == order[n]
  <2> SUFFICES ASSUME n <= Len(order)
               PROVE  Inv(n)
    OBVIOUS
  <2>1. Inv(i)
    <3>1. i <= Len(order)
      BY <1>1
    <3> HIDE DEF Inv
    <3> QED
      BY <1>5, <3>1
  <2>2. /\ n \in 1..Len(order) /\ n - 1 = i /\ x \in Candidates /\ x \in Files
        /\ Before(n) = Before(i) \cup {x} /\ x \notin Before(i) /\ Before(i) \subseteq Files
    <3>1. n \in 1..Len(order) /\ n - 1 = i /\ 1..n = 1..i \cup {n} /\ n \notin 1..i /\ 1..i \subseteq 1..Len(order)
      BY <1>1
    <3>2. Before(n) = Before(i) \cup {x}
      BY <3>1
    <3>3. x \notin Before(i) /\ Before(i) \subseteq Candidates /\ x \in Candidates
      BY <1>1, <3>1
    <3> QED
      BY <1>1, <3>1, <3>2, <3>3
  <2>3. gone[n] = IF x \in aged \/ SizeOf(gone[i]) < NeedToFree THEN gone[i] \cup {x} ELSE gone[i]
    BY <1>2, <2>2 DEF Turns
  <2>4. gone[i] \in SUBSET Files /\ x \in Files \ gone[i]
    BY <2>1, <2>2
  <2>5. SizeOf(gone[i]) \in Nat /\ Sizes[x] \in Nat /\ SizeOf(gone[i] \cup {x}) = SizeOf(gone[i]) + Sizes[x]
    BY <2>4, SizeType, SizeAdd, SmartAssumption
  <2>6. x \in aged => Before(i) \subseteq aged
    <3>1. \A j \in 1..i : j \in 1..Len(order) /\ j < n
      BY <1>1
    <3> QED
      BY <1>1, <2>2, <3>1
  <2> HIDE DEF Before, x
  <2>7. CASE x \in aged
    <3>1. gone[n] = gone[i] \cup {x} /\ gone[n] \subseteq aged
      BY <2>1, <2>3, <2>6, <2>7
    <3>2. SizeOf(gone[n]) >= NeedToFree \/ gone[n] = Before(n)
      <4>1. SizeOf(gone[n]) >= SizeOf(gone[i])
        BY <2>5, <3>1
      <4>2. CASE gone[i] = Before(i)
        BY <2>2, <3>1, <4>2
      <4>3. CASE SizeOf(gone[i]) >= NeedToFree
        <5>1. SizeOf(gone[n]) \in Int
          BY <2>5, <3>1
        <5> QED
          BY <1>3, <2>5, <4>1, <4>3, <5>1
      <4> QED
        BY <2>1, <4>2, <4>3
    <3> QED
      BY <2>1, <2>2, <3>1, <3>2
  <2>8. CASE x \notin aged /\ SizeOf(gone[i]) < NeedToFree
    <3>1. gone[n] = gone[i] \cup {x} /\ gone[i] = Before(i)
      BY <1>3, <2>1, <2>3, <2>5, <2>8
    <3>2. gone[n] \ {x} = gone[i]
      BY <2>4, <3>1
    <3>3. x \in gone[n] \ aged /\ SizeOf(gone[n] \ {x}) < NeedToFree
      BY <2>8, <3>1, <3>2
    <3> QED
      BY <2>2, <3>1, <3>3
  <2>9. CASE x \notin aged /\ ~(SizeOf(gone[i]) < NeedToFree)
    <3>1. gone[n] = gone[i] /\ SizeOf(gone[i]) >= NeedToFree
      BY <1>3, <2>3, <2>5, <2>9
    <3> QED
      BY <2>1, <2>2, <3>1
  <2> QED
    BY <2>7, <2>8, <2>9
<1>6. Len(order) \in Good
  <2> HIDE DEF Good
  <2> QED
    BY <1>1, <1>4, <1>5, SetInduction
<1>7. Inv(Len(order))
  BY <1>1, <1>6
<1>8. gone[Len(order)] = Freed(order) /\ Before(Len(order)) = Candidates
  BY <1>1, <1>2 DEF Turns
<1> HIDE DEF Before
<1> QED
  BY <1>7, <1>8

\* What the sweep does with what it gives up.
LEMMA SweepGives ==
  ASSUME TypeOK, Sweep
  PROVE  \E gone \in SUBSET Candidates :
           /\ state' \in [Files -> States]
           /\ \A f \in Files : state'[f] = IF f \in gone THEN "cloud" ELSE state[f]
           /\ total' = total - SizeOf(gone) /\ aged' \subseteq aged
           /\ SizeOf(gone) >= NeedToFree \/ gone = Candidates
           /\ gone \subseteq aged \/ \E f \in gone \ aged : SizeOf(gone \ {f}) < NeedToFree
           /\ Wrote \/ (~(SizeOf(gone) > 0) /\ UNCHANGED <<saved, written, misses>>)
<1>1. PICK order \in Orders :
       /\ state' = [f \in Files |-> IF f \in Freed(order) THEN "cloud" ELSE state[f]]
       /\ total' = total - SizeOf(Freed(order)) /\ aged' \subseteq aged
       /\ Wrote \/ (~(SizeOf(Freed(order)) > 0) /\ UNCHANGED <<saved, written, misses>>)
  <2>1. PICK order \in Orders :
          /\ state' = [f \in Files |-> IF f \in Freed(order) THEN "cloud" ELSE state[f]]
          /\ total' = total - SizeOf(Freed(order)) /\ aged' = aged \ Freed(order)
          /\ IF SizeOf(Freed(order)) > 0 THEN Save ELSE UNCHANGED stateFile
    BY DEF Sweep
  <2>2. Wrote \/ (~(SizeOf(Freed(order)) > 0) /\ UNCHANGED <<saved, written, misses>>)
    <3>1. slips' \in Nat
      BY DEF Sweep, TypeOK
    <3> QED
      BY <2>1, <3>1, SaveDoes DEF stateFile
  <2> QED
    BY <2>1, <2>2
<1> DEFINE gone == Freed(order)
<1>2. /\ gone \in SUBSET Candidates
      /\ SizeOf(gone) >= NeedToFree \/ gone = Candidates
      /\ gone \subseteq aged \/ \E f \in gone \ aged : SizeOf(gone \ {f}) < NeedToFree
  BY FreedEnough
<1> HIDE DEF gone
<1>3. state' = [f \in Files |-> IF f \in gone THEN "cloud" ELSE state[f]]
  BY <1>1 DEF gone
<1>4. state' \in [Files -> States] /\ \A f \in Files : state'[f] = IF f \in gone THEN "cloud" ELSE state[f]
  BY <1>3 DEF TypeOK, States
<1>5. /\ total' = total - SizeOf(gone) /\ aged' \subseteq aged
      /\ Wrote \/ (~(SizeOf(gone) > 0) /\ UNCHANGED <<saved, written, misses>>)
  BY <1>1 DEF gone
<1> QED
  BY <1>2, <1>4, <1>5

LEMMA SweepStep ==
  ASSUME SmartInv, Sweep
  PROVE  SmartInv'
<1>1. UNCHANGED <<pinned, queue, loading, pinning, policy, restarts, slips, orphans>> /\ TypeOK
  BY DEF Sweep, manager, SmartInv, SpaceIsKnown
<1>2. PICK gone \in SUBSET Candidates :
        /\ state' \in [Files -> States]
        /\ \A f \in Files : state'[f] = IF f \in gone THEN "cloud" ELSE state[f]
        /\ total' = total - SizeOf(gone) /\ aged' \subseteq aged
        /\ Wrote \/ (~(SizeOf(gone) > 0) /\ UNCHANGED <<saved, written, misses>>)
  BY <1>1, SweepGives
<1>3. gone \in SUBSET Files /\ \A f \in gone : state[f] = "local"
  BY DEF Candidates
<1>4. TypeOK'
  <2>1. total' \in Int
    BY <1>1, <1>2, <1>3, SizeType DEF TypeOK
  <2>2. saved' \in [state : [Files -> States], pinned : SUBSET Files]
    BY <1>1, <1>2, WroteType DEF TypeOK
  <2>3. written' \in {"whole", "failed"} /\ misses' \in 0..MaxMisses
    BY <1>1, <1>2 DEF TypeOK, Wrote
  <2> QED
    BY <1>1, <1>2, <2>1, <2>2, <2>3 DEF TypeOK
<1>5. TotalIsSum'
  <2>1. LocalFiles(state') = LocalFiles(state) \ gone /\ gone \in SUBSET LocalFiles(state) /\ LocalFiles(state) \in SUBSET Files
    BY <1>2, <1>3 DEF LocalFiles, Here
  <2>2. SizeOf(LocalFiles(state')) = SizeOf(LocalFiles(state)) - SizeOf(gone)
    BY <2>1, SizeLess
  <2> QED
    BY <1>1, <1>2, <2>2 DEF SmartInv, SpaceIsKnown, TotalIsSum
<1>6. SavedIsHere'
  <2>1. CASE Wrote
    BY <2>1, WroteIsHere
  <2>2. CASE ~(SizeOf(gone) > 0) /\ UNCHANGED <<saved, written, misses>>
    <3>1. ASSUME NEW f \in Files, Sizes[f] > 0
          PROVE  f \notin gone
      <4>1. f \in gone => Sizes[f] <= SizeOf(gone)
        BY <1>3, SizePart
      <4>2. Sizes[f] \in Nat /\ SizeOf(gone) \in Nat
        BY <1>3, SizeType, SmartAssumption
      <4> QED
        BY <2>2, <3>1, <4>1, <4>2
    <3> QED
      BY <1>1, <1>2, <2>2, <3>1 DEF SmartInv, SpaceIsKnown, SavedIsHere
  <2> QED
    BY <1>2, <2>1, <2>2
<1>7. Queued' = Queued
  BY <1>1 DEF Queued
<1>8. HydratingIsServed' /\ (slips' = 0 => Waiting')
  BY <1>1, <1>2, <1>3, <1>7 DEF SmartInv, HydratingIsServed, Waiting, Distinct
<1>9. \A g \in Files : saved'.state[g] = "local" => g \notin saved'.pinned
  BY <1>1, <1>2, <1>4, WroteSound DEF TypeOK, SmartInv
<1> QED
  BY <1>4, <1>5, <1>6, <1>8, <1>9 DEF SmartInv, SpaceIsKnown

LEMMA SmartNext == SmartInv /\ [Next]_vars => SmartInv'
<1> SUFFICES ASSUME SmartInv, [Next]_vars
             PROVE  SmartInv'
  OBVIOUS
<1>1. ASSUME NEW f \in Files, NEW p \in Priorities, Request(f, p)
      PROVE  SmartInv'
  <2>1. pinning' \in [Files -> {"no", "ask", "save"}]
    BY <1>1 DEF Request, SmartInv, SpaceIsKnown, TypeOK
  <2> QED
    BY <1>1, <2>1, HydrateStep DEF Request
<1>2. CASE Worker
  BY <1>2, TakeStep, FailStep, CompleteStep DEF Worker
<1>3. ASSUME NEW f \in Files,
             \/ Register(f) \/ Cancel(f) \/ Pin(f) \/ PinAsks(f) \/ PinSaves(f) \/ Unpin(f)
             \/ Dehydrate(f) \/ Age(f) \/ RecordAccess(f)
      PROVE  SmartInv'
  BY <1>3, RegisterStep, CancelStep, PinStep, PinAsksStep, UnpinStep, DehydrateStep, OtherStep
<1> QED
  BY <1>1, <1>2, <1>3, SweepStep, RestartStep, OtherStep DEF Next

\* What the sweep goes by and what a restart finds are what is here, for any files,
\* sizes and requests: totalLocalSize, and state.json.
THEOREM SpaceStaysKnown == Spec => []SpaceIsKnown
<1>1. SmartInv => SpaceIsKnown
  BY DEF SmartInv
<1> QED
  BY <1>1, SmartInit, SmartNext, PTL DEF Spec

\* No request is forgotten: what is shown as being downloaded is on its way, but for
\* what was loaded in that state (RequestHydration, CancelHydration, PinFile).
THEOREM HydratingStaysServed == Spec => []HydratingIsServed
<1>1. SmartInv => HydratingIsServed
  BY DEF SmartInv
<1> QED
  BY <1>1, SmartInit, SmartNext, PTL DEF Spec

\* performDehydration frees enough, nothing that is pinned, and of what is not aged
\* only what the limit asks for, in whichever order it finds the files.
THEOREM SweepsFreeEnough == Spec => SweepFreesEnough
<1> DEFINE gone == {f \in Files : state[f] = "local" /\ state'[f] # "local"}
           Enough == /\ total' <= policy \/ \A f \in Files : state'[f] # "local"
                     /\ gone \subseteq aged \/ \E f \in gone \ aged : total' + Sizes[f] > policy
                     /\ \A f \in pinned : state'[f] = state[f]
<1>1. ASSUME SmartInv, Sweep
      PROVE  Enough
  <2>1. TypeOK
    BY <1>1 DEF SmartInv, SpaceIsKnown
  <2>2. PICK freed \in SUBSET Candidates :
          /\ \A f \in Files : state'[f] = IF f \in freed THEN "cloud" ELSE state[f]
          /\ total' = total - SizeOf(freed)
          /\ SizeOf(freed) >= NeedToFree \/ freed = Candidates
          /\ freed \subseteq aged \/ \E f \in freed \ aged : SizeOf(freed \ {f}) < NeedToFree
    BY <1>1, <2>1, SweepGives
  <2>3. freed \in SUBSET Files /\ \A f \in freed : state[f] = "local"
    BY DEF Candidates
  <2>4. gone = freed
    BY <2>2, <2>3
  <2>5. total \in Int /\ policy \in Int /\ SizeOf(freed) \in Nat
    BY <2>1, <2>3, SizeType, SmartAssumption DEF TypeOK, Off
  <2> HIDE DEF gone
  <2>6. total' <= policy \/ \A f \in Files : state'[f] # "local"
    <3>1. CASE SizeOf(freed) >= NeedToFree
      BY <2>2, <2>5, <3>1 DEF NeedToFree
    <3>2. CASE freed = Candidates
      BY <2>2, <3>2 DEF Candidates
    <3> QED
      BY <2>2, <3>1, <3>2
  <2>7. ASSUME NEW f \in freed \ aged, SizeOf(freed \ {f}) < NeedToFree
        PROVE  total' + Sizes[f] > policy
    <3>1. SizeOf(freed) = SizeOf(freed \ {f}) + Sizes[f]
      <4>1. freed \ {f} \in SUBSET Files /\ f \in Files \ (freed \ {f}) /\ (freed \ {f}) \cup {f} = freed
        BY <2>3
      <4>2. SizeOf((freed \ {f}) \cup {f}) = SizeOf(freed \ {f}) + Sizes[f]
        BY <4>1, SizeAdd
      <4> QED
        BY <4>1, <4>2, Zenon
    <3>2. SizeOf(freed \ {f}) \in Nat /\ Sizes[f] \in Nat
      BY <2>3, SizeType, SmartAssumption
    <3> QED
      BY <2>2, <2>5, <2>7, <3>1, <3>2 DEF NeedToFree
  <2>8. gone \subseteq aged \/ \E f \in gone \ aged : total' + Sizes[f] > policy
    BY <2>2, <2>4, <2>7
  <2>9. \A f \in pinned : state'[f] = state[f]
    BY <2>1, <2>2, <2>3 DEF TypeOK
  <2> QED
    BY <2>6, <2>8, <2>9
<1>2. SmartInv => [Sweep /\ slips = 0 => Enough]_vars
  BY <1>1
<1> QED
  BY <1>2, SmartInit, SmartNext, PTL DEF Spec, SweepFreesEnough
=============================================================================
