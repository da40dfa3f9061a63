----------------------- MODULE BackupScheduler_proofs -----------------------
(***************************************************************************)
(* TLAPS proofs about BackupScheduler, for any schedules, jobs, saves and  *)
(* restarts: type correctness; a job that has succeeded is complete; what  *)
(* is recorded is what is on the disk and, when all is quiet, in the file; *)
(* retention keeps what is promised of the last days, months and years,    *)
(* all that users have made and the latest of every schedule.              *)
(***************************************************************************)
EXTENDS BackupScheduler, WellFoundedInduction, FiniteSetTheorems, TLAPS

------------------------------------------------------------------------------
(* Which snapshots of a list are kept.  Induction is by sets: a set that has 0  *)
(* and with every number the next has them all.                                *)

LEMMA SetInduction ==
  ASSUME NEW T, 0 \in T, \A n \in Nat : n \in T => n + 1 \in T
  PROVE  Nat \subseteq T
<1> DEFINE Bad == Nat \ T
<1>1. IsWellFoundedOn(OpToRel(<, Nat), Nat)
  BY NatLessThanWellFounded
<1>2. SUFFICES ASSUME Bad # {} PROVE FALSE
  OBVIOUS
<1>3. PICK x \in Bad : \A y \in Bad : ~ (<<y, x>> \in OpToRel(<, Nat))
  <2> HIDE DEF Bad
  <2>1. Bad \subseteq Nat
    BY DEF Bad
  <2> QED
    BY <1>1, <1>2, <2>1, WFMin
<1>4. \A y \in Bad : ~(y < x)
  BY <1>3 DEF OpToRel
<1>5. x - 1 \in Nat /\ x - 1 \in T
  BY <1>4
<1> QED
  BY <1>5

\* What the loops amount to: of every period the newest, for the first limit of them.
NewestOfPeriods(list, today, within, limit, Period) ==
  {list[i] : i \in {j \in DOMAIN list :
     /\ today - list[j].day < within
     /\ \A k \in 1..j - 1 : Period[list[k].day] # Period[list[j].day]
     /\ Cardinality({Period[list[k].day] : k \in 1..j}) <= limit}}

\* What the four classes and MinKeep amount to, without the loops and their table.
Reference(list, policy, today) ==
  LET weekly == NewestOfPeriods(list, today, 7 * policy.weeks, policy.weeks, Month)
      monthly == NewestOfPeriods(list, today, 30 * policy.months, policy.months, Month)
      yearly == NewestOfPeriods(list, today, 365 * policy.years, policy.years, Year)
      daily == {list[i] : i \in {j \in DOMAIN list : j <= policy.days /\ today - list[j].day < policy.days}}
      kept == daily \cup weekly \cup monthly \cup yearly
      few == Cardinality(kept) + Cardinality(weekly) + Cardinality(monthly) + Cardinality(yearly)
               < policy.minKeep
  IN  {list[i] : i \in {j \in DOMAIN list :
         \/ Len(list) <= policy.minKeep \/ list[j] \in kept
         \/ few /\ j <= policy.minKeep}}

IsNewestFirst(list) ==
  /\ list \in Seq([n : Int, day : Int])
  /\ \A i, j \in DOMAIN list : i <= j => list[j].day <= list[i].day

\* What the loop of Thinned has kept after each turn.
Turns(kept, list, today, within, limit, Period) ==
  /\ kept[0] = {}
  /\ \A i \in 1..Len(list) :
       kept[i] = IF /\ today - list[i].day < within
                    /\ \A k \in kept[i - 1] : Period[k.day] # Period[list[i].day]
                    /\ Cardinality(kept[i - 1]) < limit
                 THEN kept[i - 1] \cup {list[i]} ELSE kept[i - 1]
  /\ kept[Len(list)] = Thinned(list, today, within, limit, Period)

LEMMA ThinnedLoop ==
  ASSUME NEW list, Len(list) \in Nat, NEW today, NEW within, NEW limit, NEW Period
  PROVE  \E kept : Turns(kept, list, today, within, limit, Period)
<1> DEFINE Turn(S, i) == IF /\ today - list[i].day < within
                            /\ \A k \in S : Period[k.day] # Period[list[i].day]
                            /\ Cardinality(S) < limit
                         THEN S \cup {list[i]} ELSE S
           kept[i \in 0..Len(list)] == IF i = 0 THEN {} ELSE Turn(kept[i - 1], i)
           Upto == {n \in Nat : \E f : f = [i \in 0..n |-> IF i = 0 THEN {} ELSE Turn(f[i - 1], i)]}
<1>1. Thinned(list, today, within, limit, Period) = kept[Len(list)]
  BY DEF Thinned
<1> HIDE DEF Turn
<1>2. 0 \in Upto
  <2> DEFINE g == [i \in 0..0 |-> {}]
  <2>1. g = [i \in 0..0 |-> IF i = 0 THEN {} ELSE Turn(g[i - 1], i)]
    OBVIOUS
  <2> QED
    BY <2>1
<1>3. ASSUME NEW n \in Nat, n \in Upto
      PROVE  n + 1 \in Upto
  <2>1. PICK f : f = [i \in 0..n |-> IF i = 0 THEN {} ELSE Turn(f[i - 1], i)]
    BY <1>3
  <2> DEFINE g == [i \in 0..n + 1 |-> IF i = n + 1 THEN Turn(f[n], n + 1) ELSE f[i]]
  <2>2. \A i \in 0..n + 1 : g[i] = IF i = 0 THEN {} ELSE Turn(g[i - 1], i)
    <3> SUFFICES ASSUME NEW i \in 0..n + 1
                 PROVE  g[i] = IF i = 0 THEN {} ELSE Turn(g[i - 1], i)
      OBVIOUS
    <3>1. CASE i = n + 1
      <4>1. g[i] = Turn(f[n], n + 1) /\ g[i - 1] = f[n] /\ i # 0 /\ i - 1 = n
        BY <3>1
      <4> QED
        BY <4>1, <3>1
    <3>2. CASE i \in 0..n
      <4>1. g[i] = f[i] /\ (i # 0 => g[i - 1] = f[i - 1])
        BY <3>2
      <4>2. f[i] = IF i = 0 THEN {} ELSE Turn(f[i - 1], i)
        BY <2>1, <3>2
      <4> QED
        BY <4>1, <4>2
    <3> QED
      BY <3>1, <3>2
  <2>3. g = [i \in 0..n + 1 |-> IF i = 0 THEN {} ELSE Turn(g[i - 1], i)]
    BY <2>2
  <2> HIDE DEF g
  <2> QED
    BY <2>3
<1>4. Len(list) \in Upto
  <2> HIDE DEF Upto
  <2> QED
    BY <1>2, <1>3, SetInduction
<1>5. kept = [i \in 0..Len(list) |-> IF i = 0 THEN {} ELSE Turn(kept[i - 1], i)]
  <2>1. \E f : f = [i \in 0..Len(list) |-> IF i = 0 THEN {} ELSE Turn(f[i - 1], i)]
    BY <1>4
  <2> QED
    BY <2>1, Zenon
<1> HIDE DEF kept
<1>6. kept[0] = {} /\ \A i \in 1..Len(list) : kept[i] = Turn(kept[i - 1], i)
  <2> HIDE DEF Upto
  <2> SUFFICES ASSUME NEW f, f = [i \in 0..Len(list) |-> IF i = 0 THEN {} ELSE Turn(f[i - 1], i)]
               PROVE  f[0] = {} /\ \A i \in 1..Len(list) : f[i] = Turn(f[i - 1], i)
    BY <1>5
  <2>1. ASSUME NEW i \in 1..Len(list)
        PROVE  f[i] = Turn(f[i - 1], i)
    <3>1. i \in 0..Len(list) /\ i # 0
      OBVIOUS
    <3> QED
      BY <3>1
  <2> QED
    BY <2>1
<1> QED
  BY <1>1, <1>6 DEF Turn, Turns

\* The loop keeps the newest of each period, up to the limit.
LEMMA ThinnedIsNewest ==
  ASSUME NEW list, IsNewestFirst(list), NEW today \in Int, NEW within \in Int, NEW limit \in Int, NEW Period
  PROVE  Thinned(list, today, within, limit, Period) = NewestOfPeriods(list, today, within, limit, Period)
<1> DEFINE P(i) == {Period[list[k].day] : k \in 1..i}
           In(i) == today - list[i].day < within
           Keep(j) == /\ In(j) /\ \A k \in 1..j - 1 : Period[list[k].day] # Period[list[j].day]
                      /\ Cardinality(P(j)) <= limit
<1>1. /\ Len(list) \in Nat /\ DOMAIN list = 1..Len(list)
      /\ \A i \in 1..Len(list) : list[i].day \in Int
      /\ \A i, j \in 1..Len(list) : i <= j /\ In(j) => In(i)
  <2>1. list \in Seq([n : Int, day : Int])
    BY DEF IsNewestFirst
  <2>2. Len(list) \in Nat /\ DOMAIN list = 1..Len(list) /\ \A i \in 1..Len(list) : list[i] \in [n : Int, day : Int]
    <3> SUFFICES ASSUME NEW R, list \in Seq(R)
                 PROVE  Len(list) \in Nat /\ DOMAIN list = 1..Len(list) /\ \A i \in 1..Len(list) : list[i] \in R
      BY <2>1
    <3> QED
      OBVIOUS
  <2>3. \A i \in 1..Len(list) : list[i].day \in Int
    BY <2>2
  <2>4. \A i, j \in 1..Len(list) : i <= j => list[j].day <= list[i].day
    BY <2>2 DEF IsNewestFirst
  <2>5. \A i, j \in 1..Len(list) : i <= j /\ In(j) => In(i)
    BY <2>3, <2>4
  <2> QED
    BY <2>2, <2>3, <2>5
<1>2. PICK kept : Turns(kept, list, today, within, limit, Period)
  BY <1>1, ThinnedLoop
<1> DEFINE Inv(i) == /\ kept[i] = {list[j] : j \in {k \in 1..i : Keep(k)}}
                     /\ IsFiniteSet(kept[i]) /\ IsFiniteSet(P(i))
                     /\ \/ i > 0 /\ ~In(i)
                        \/ IF Cardinality(P(i)) <= limit
                           THEN {Period[k.day] : k \in kept[i]} = P(i) /\ Cardinality(kept[i]) = Cardinality(P(i))
                           ELSE Cardinality(kept[i]) >= limit
           Good == {i \in Nat : i <= Len(list) => Inv(i)}
<1>3. 0 \in Good
  <2>1. P(0) = {} /\ {k \in 1..0 : Keep(k)} = {} /\ Cardinality({}) = 0 /\ IsFiniteSet({})
    BY FS_EmptySet
  <2>2. {list[j] : j \in {k \in 1..0 : Keep(k)}} = {}
    BY <2>1
  <2> HIDE DEF P, Keep
  <2>3. kept[0] = {} /\ {Period[k.day] : k \in kept[0]} = {}
    BY <1>2 DEF Turns
  <2>4. IF Cardinality(P(0)) <= limit
        THEN {Period[k.day] : k \in kept[0]} = P(0) /\ Cardinality(kept[0]) = Cardinality(P(0))
        ELSE Cardinality(kept[0]) >= limit
    BY <2>1, <2>3
  <2>5. Inv(0)
    BY <2>1, <2>2, <2>3, <2>4
  <2> HIDE DEF Inv
  <2> QED
    BY <2>5
<1>4. ASSUME NEW i \in Nat, i \in Good
      PROVE  i + 1 \in Good
  <2> DEFINE n == i + 1
             p == Period[list[n].day]
  <2> SUFFICES ASSUME n <= Len(list)
               PROVE  Inv(n)
    <3> HIDE DEF Inv
    <3> QED
      OBVIOUS
  <2>0. Inv(i) /\ n \in 1..Len(list) /\ n - 1 = i /\ n > 0
    <3> HIDE DEF Inv
    <3> QED
      BY <1>1, <1>4
  <2>1. /\ kept[i] = {list[j] : j \in {k \in 1..i : Keep(k)}} /\ n \in 1..Len(list) /\ n - 1 = i /\ n > 0
        /\ IsFiniteSet(kept[i]) /\ IsFiniteSet(P(i))
    <3> HIDE DEF P, Keep, In
    <3> QED
      BY <2>0
  <2>2. kept[n] = IF In(n) /\ (\A k \in kept[i] : Period[k.day] # p) /\ Cardinality(kept[i]) < limit
                  THEN kept[i] \cup {list[n]} ELSE kept[i]
    BY <1>2, <2>1 DEF Turns
  <2>3. P(n) = P(i) \cup {p}
    <3>1. 1..n = (1..i) \cup {n}
      OBVIOUS
    <3> QED
      BY <3>1
  <2>4. /\ Keep(n) => {k \in 1..n : Keep(k)} = {k \in 1..i : Keep(k)} \cup {n}
        /\ ~Keep(n) => {k \in 1..n : Keep(k)} = {k \in 1..i : Keep(k)}
    <3> HIDE DEF Keep
    <3>1. 1..n = (1..i) \cup {n}
      OBVIOUS
    <3> QED
      BY <3>1
  <2>5. Keep(n) <=> In(n) /\ p \notin P(i) /\ Cardinality(P(n)) <= limit
    <3>1. p \notin P(i) <=> \A k \in 1..n - 1 : Period[list[k].day] # p
      BY <2>1
    <3> HIDE DEF In, P
    <3> QED
      BY <3>1
  <2>6. /\ IsFiniteSet(P(n)) /\ Cardinality(P(i)) \in Nat /\ Cardinality(kept[i]) \in Nat
        /\ p \in P(i) => P(n) = P(i)
        /\ p \notin P(i) => Cardinality(P(n)) = Cardinality(P(i)) + 1
    <3> HIDE DEF P, p
    <3>1. IsFiniteSet(P(i)) /\ IsFiniteSet(kept[i])
      BY <2>1
    <3>2. Cardinality(P(i)) \in Nat /\ Cardinality(kept[i]) \in Nat
      BY <3>1, FS_CardinalityType
    <3>3. IsFiniteSet(P(i) \cup {p}) /\ (p \notin P(i) => Cardinality(P(i) \cup {p}) = Cardinality(P(i)) + 1)
      BY <3>1, FS_AddElement
    <3> QED
      BY <2>3, <3>2, <3>3
  <2>7. In(n) => IF Cardinality(P(i)) <= limit
                 THEN {Period[k.day] : k \in kept[i]} = P(i) /\ Cardinality(kept[i]) = Cardinality(P(i))
                 ELSE Cardinality(kept[i]) >= limit
    <3>1. In(n) /\ i > 0 => In(i)
      BY <1>1, <2>1
    <3> HIDE DEF In, P, Keep
    <3> QED
      BY <3>1, <2>0
  <2>8. kept[n] = IF Keep(n) THEN kept[i] \cup {list[n]} ELSE kept[i]
    <3>1. CASE ~In(n)
      BY <3>1, <2>2, <2>5
    <3>2. CASE In(n) /\ Cardinality(P(i)) > limit
      <4>1. ~(Cardinality(kept[i]) < limit) /\ ~(Cardinality(P(n)) <= limit)
        <5> HIDE DEF P, In
        <5> QED
          BY <3>2, <2>6, <2>7
      <4> HIDE DEF P, In, Keep
      <4> QED
        BY <4>1, <2>2, <2>5
    <3>3. CASE In(n) /\ Cardinality(P(i)) <= limit
      <4>1. (\A k \in kept[i] : Period[k.day] # p) <=> p \notin P(i)
        <5> HIDE DEF P, In
        <5> QED
          BY <3>3, <2>7
      <4>2. p \notin P(i) => (Cardinality(kept[i]) < limit <=> Cardinality(P(n)) <= limit)
        <5> HIDE DEF P, In, p
        <5> QED
          BY <3>3, <2>6, <2>7
      <4> HIDE DEF P, In, Keep, p
      <4> QED
        BY <3>3, <4>1, <4>2, <2>2, <2>5
    <3> HIDE DEF P, In, Keep
    <3> QED
      BY <3>1, <3>2, <3>3, <2>6
  <2>9. kept[n] = {list[j] : j \in {k \in 1..n : Keep(k)}}
    <3> HIDE DEF Keep, P
    <3> QED
      BY <2>1, <2>4, <2>8
  <2>10. IsFiniteSet(kept[n])
    <3>1. IsFiniteSet(kept[i])
      BY <2>1
    <3>2. IsFiniteSet(kept[i] \cup {list[n]})
      BY <3>1, FS_AddElement
    <3> HIDE DEF Keep, P, n
    <3> QED
      BY <3>1, <3>2, <2>8
  <2>11. CASE ~In(n)
    <3> HIDE DEF Keep, P, In
    <3> QED
      BY <2>1, <2>6, <2>9, <2>10, <2>11
  <2>12. CASE In(n)
    <3>1. CASE Keep(n)
      <4>1. list[n] \notin kept[i] /\ {Period[k.day] : k \in kept[i]} = P(i)
        <5>1. Cardinality(P(i)) <= limit /\ p \notin P(i)
          <6> HIDE DEF P, In, Keep, p
          <6> QED
            BY <2>5, <2>6, <3>1
        <5>2. {Period[k.day] : k \in kept[i]} = P(i)
          <6> HIDE DEF P, In, Keep, p
          <6> QED
            BY <5>1, <2>7, <2>12
        <5> HIDE DEF P
        <5> QED
          BY <5>1, <5>2
      <4>2. Cardinality(kept[n]) = Cardinality(kept[i]) + 1
        <5> HIDE DEF P, Keep
        <5> QED
          BY <4>1, <2>1, <2>8, <3>1, FS_AddElement
      <4>3. {Period[k.day] : k \in kept[n]} = P(n)
        <5> HIDE DEF P, Keep
        <5> QED
          BY <4>1, <2>3, <2>8, <3>1
      <4>4. Cardinality(P(n)) <= limit /\ Cardinality(kept[n]) = Cardinality(P(n))
        <5> HIDE DEF P, In, Keep, p
        <5> QED
          BY <4>2, <2>5, <2>6, <2>7, <3>1
      <4> HIDE DEF P, In, Keep, p
      <4> QED
        BY <4>3, <4>4, <2>6, <2>9, <2>10
    <3>2. CASE ~Keep(n)
      <4>1. kept[n] = kept[i]
        BY <2>8, <3>2
      <4>2. CASE p \in P(i)
        <5> HIDE DEF P, In, Keep, p
        <5> QED
          BY <4>1, <4>2, <2>6, <2>7, <2>9, <2>10, <2>12
      <4>3. CASE p \notin P(i)
        <5>1. Cardinality(P(n)) > limit /\ Cardinality(kept[i]) >= limit
          <6> HIDE DEF P, In, Keep, p
          <6> QED
            BY <4>3, <3>2, <2>5, <2>6, <2>7, <2>12
        <5> HIDE DEF P, In, Keep, p
        <5> QED
          BY <5>1, <4>1, <2>6, <2>9, <2>10
      <4> QED
        BY <4>2, <4>3
    <3> QED
      BY <3>1, <3>2
  <2> QED
    BY <2>11, <2>12
<1>5. Inv(Len(list))
  <2>1. Len(list) \in Good
    <3> HIDE DEF Good
    <3> QED
      BY <1>1, <1>3, <1>4, SetInduction
  <2> HIDE DEF Inv
  <2> QED
    BY <2>1, <1>1
<1>6. kept[Len(list)] = {list[j] : j \in {k \in 1..Len(list) : Keep(k)}}
  <2> HIDE DEF P, Keep, In
  <2> QED
    BY <1>5
<1> QED
  BY <1>1, <1>2, <1>6 DEF NewestOfPeriods, Turns

\* Of a list that has the newest first, Selected keeps what the four classes and MinKeep ask for.
LEMMA SelectedIsReference ==
  ASSUME NEW list, IsNewestFirst(list), NEW today \in Int,
         NEW p \in [minKeep : Int, days : Int, weeks : Int, months : Int, years : Int]
  PROVE  Selected(list, p, today) = Reference(list, p, today)
<1> DEFINE weekly == NewestOfPeriods(list, today, 7 * p.weeks, p.weeks, Month)
           monthly == NewestOfPeriods(list, today, 30 * p.months, p.months, Month)
           yearly == NewestOfPeriods(list, today, 365 * p.years, p.years, Year)
           daily == {list[i] : i \in {j \in DOMAIN list : j <= p.days /\ today - list[j].day < p.days}}
           kept == daily \cup weekly \cup monthly \cup yearly
           few == Cardinality(kept) + Cardinality(weekly) + Cardinality(monthly) + Cardinality(yearly) < p.minKeep
<1>1. p.minKeep \in Int /\ p.days \in Int /\ p.weeks \in Int /\ p.months \in Int /\ p.years \in Int
  OBVIOUS
<1>2. weekly = Weekly(list, p, today) /\ monthly = Monthly(list, p, today) /\ yearly = Yearly(list, p, today)
  <2>1. 7 * p.weeks \in Int /\ 30 * p.months \in Int /\ 365 * p.years \in Int
    BY <1>1
  <2> QED
    BY <1>1, <2>1, ThinnedIsNewest DEF Weekly, Monthly, Yearly
<1>3. daily = Daily(list, p, today)
  BY DEF Daily, Newest
<1>4. weekly \subseteq Range(list) /\ monthly \subseteq Range(list) /\ yearly \subseteq Range(list) /\ daily \subseteq Range(list)
  BY DEF NewestOfPeriods, Range
<1> HIDE DEF weekly, monthly, yearly, daily
<1>5. Selected(list, p, today) = IF Len(list) <= p.minKeep THEN Range(list)
                                 ELSE IF few THEN kept \cup Newest(list, p.minKeep) ELSE kept
  BY <1>2, <1>3 DEF Selected
<1>6. Reference(list, p, today) = {list[i] : i \in {j \in DOMAIN list :
         \/ Len(list) <= p.minKeep \/ list[j] \in kept
         \/ few /\ j <= p.minKeep}}
  BY DEF Reference, weekly, monthly, yearly, daily
<1>7. kept \subseteq Range(list)
  BY <1>4
<1> HIDE DEF kept, few
<1> QED
  BY <1>5, <1>6, <1>7 DEF Newest, Range

LEMMA ImageIsFinite ==
  ASSUME NEW f, IsFiniteSet(DOMAIN f)
  PROVE  IsFiniteSet({f[x] : x \in DOMAIN f})
<1> DEFINE T == {f[x] : x \in DOMAIN f}
           g == [x \in DOMAIN f |-> f[x]]
<1>1. g \in [DOMAIN f -> T] /\ \A t \in T : \E x \in DOMAIN f : g[x] = t
  OBVIOUS
<1> HIDE DEF T, g
<1>2. g \in Surjection(DOMAIN f, T)
  BY <1>1 DEF Surjection
<1>3. IsFiniteSet(T)
  BY <1>2, FS_Surjection
<1> QED
  BY <1>3 DEF T

LEMMA UpTo ==
  ASSUME NEW m \in Nat, NEW n \in 1..m
  PROVE  IsFiniteSet(1..n)
<1>1. 1 \in Int /\ n \in Int
  OBVIOUS
<1> QED
  BY <1>1, FS_Interval

\* With a MinKeep of one or more the newest of all is kept.
LEMMA NewestIsSelected ==
  ASSUME NEW list, IsNewestFirst(list), list # <<>>, NEW today \in Int,
         NEW p \in [minKeep : Int, days : Int, weeks : Int, months : Int, years : Int], p.minKeep > 0
  PROVE  list[1] \in Selected(list, p, today)
<1> DEFINE weekly == NewestOfPeriods(list, today, 7 * p.weeks, p.weeks, Month)
           monthly == NewestOfPeriods(list, today, 30 * p.months, p.months, Month)
           yearly == NewestOfPeriods(list, today, 365 * p.years, p.years, Year)
           daily == {list[i] : i \in {j \in DOMAIN list : j <= p.days /\ today - list[j].day < p.days}}
           kept == daily \cup weekly \cup monthly \cup yearly
           few == Cardinality(kept) + Cardinality(weekly) + Cardinality(monthly) + Cardinality(yearly) < p.minKeep
<1>1. /\ Len(list) \in Nat /\ Len(list) > 0 /\ DOMAIN list = 1..Len(list)
      /\ \A i \in 1..Len(list) : list[i].day \in Int /\ list[i].day <= list[1].day
  <2>1. list \in Seq([n : Int, day : Int])
    BY DEF IsNewestFirst
  <2>2. Len(list) \in Nat /\ Len(list) > 0 /\ DOMAIN list = 1..Len(list) /\ \A i \in 1..Len(list) : list[i] \in [n : Int, day : Int]
    <3> SUFFICES ASSUME NEW R, list \in Seq(R)
                 PROVE  Len(list) \in Nat /\ Len(list) > 0 /\ DOMAIN list = 1..Len(list) /\ \A i \in 1..Len(list) : list[i] \in R
      BY <2>1
    <3> QED
      OBVIOUS
  <2>3. \A i \in 1..Len(list) : list[i].day <= list[1].day
    BY SMTT(20), <2>2 DEF IsNewestFirst
  <2>4. \A i \in 1..Len(list) : list[i].day \in Int
    BY <2>2
  <2> QED
    BY <2>2, <2>3, <2>4
<1>2. /\ p.minKeep \in Int /\ p.days \in Int /\ p.weeks \in Int /\ p.months \in Int /\ p.years \in Int
      /\ 7 * p.weeks \in Int /\ 30 * p.months \in Int /\ 365 * p.years \in Int
  OBVIOUS
<1>3. ASSUME NEW within \in Int, NEW limit \in Int, NEW Period
      PROVE  \/ NewestOfPeriods(list, today, within, limit, Period) = {}
             \/ list[1] \in NewestOfPeriods(list, today, within, limit, Period)
  <2> SUFFICES ASSUME NEW j \in 1..Len(list), today - list[j].day < within,
                      Cardinality({Period[list[k].day] : k \in 1..j}) <= limit
               PROVE  list[1] \in NewestOfPeriods(list, today, within, limit, Period)
    BY <1>1 DEF NewestOfPeriods
  <2>1. today - list[1].day < within /\ 1 \in 1..Len(list)
    BY SMTT(20), <1>1
  <2>2. \A k \in 1..1 - 1 : Period[list[k].day] # Period[list[1].day]
    OBVIOUS
  <2>3. {Period[list[k].day] : k \in 1..1} = {Period[list[1].day]}
    OBVIOUS
  <2>4. Cardinality({Period[list[1].day]}) = 1
    BY FS_Singleton
  <2>5. /\ Cardinality({Period[list[k].day] : k \in 1..j}) \in Nat
        /\ Cardinality({Period[list[k].day] : k \in 1..j}) >= 1
    <3> DEFINE P == {Period[list[k].day] : k \in 1..j}
    <3>1. IsFiniteSet(1..j)
      BY <1>1, UpTo
    <3>2. IsFiniteSet(P)
      <4> DEFINE f == [k \in 1..j |-> Period[list[k].day]]
      <4>1. P = {f[k] : k \in 1..j} /\ DOMAIN f = 1..j
        OBVIOUS
      <4> HIDE DEF f, P
      <4> QED
        BY <4>1, <3>1, ImageIsFinite
    <3>3. {Period[list[1].day]} \subseteq P
      OBVIOUS
    <3> HIDE DEF P
    <3>4. Cardinality({Period[list[1].day]}) <= Cardinality(P) /\ Cardinality(P) \in Nat
      BY <3>2, <3>3, FS_Subset, FS_CardinalityType
    <3>5. Cardinality(P) \in Nat /\ Cardinality(P) >= 1
      BY <3>4, <2>4
    <3> QED
      BY <3>5 DEF P
  <2>6. Cardinality({Period[list[k].day] : k \in 1..1}) <= limit
    <3> DEFINE c == Cardinality({Period[list[k].day] : k \in 1..j})
    <3>1. c \in Nat /\ c >= 1 /\ c <= limit
      BY <2>5
    <3>2. Cardinality({Period[list[k].day] : k \in 1..1}) = 1
      BY <2>3, <2>4
    <3> HIDE DEF c
    <3> QED
      BY <3>1, <3>2
  <2> QED
    BY <1>1, <2>1, <2>2, <2>6 DEF NewestOfPeriods
<1>4. /\ weekly = {} \/ list[1] \in weekly
      /\ monthly = {} \/ list[1] \in monthly
      /\ yearly = {} \/ list[1] \in yearly
  <2>1. weekly = {} \/ list[1] \in weekly
    BY <1>2, <1>3
  <2>2. monthly = {} \/ list[1] \in monthly
    BY <1>2, <1>3
  <2>3. yearly = {} \/ list[1] \in yearly
    BY SMTT(20), <1>2, <1>3
  <2> QED
    BY <2>1, <2>2, <2>3
<1>5. daily = {} \/ list[1] \in daily
  <2>1. 1 \in DOMAIN list
    BY <1>1
  <2>2. \A j \in DOMAIN list : j <= p.days /\ today - list[j].day < p.days => 1 <= p.days /\ today - list[1].day < p.days
    <3>1. \A j \in DOMAIN list : j \in Int /\ 1 <= j /\ list[j].day \in Int /\ list[1].day \in Int /\ list[j].day <= list[1].day
      BY <1>1
    <3>2. \A d, i, a, b, t \in Int : 1 <= i /\ a <= b /\ i <= d /\ t - a < d => 1 <= d /\ t - b < d
      OBVIOUS
    <3> SUFFICES ASSUME NEW j \in DOMAIN list, j <= p.days, today - list[j].day < p.days
                 PROVE  1 <= p.days /\ today - list[1].day < p.days
      OBVIOUS
    <3>3. j \in Int /\ 1 <= j /\ list[j].day \in Int /\ list[1].day \in Int /\ list[j].day <= list[1].day /\ p.days \in Int
      BY <3>1, <1>2
    <3> HIDE DEF daily
    <3> QED
      BY <3>2, <3>3
  <2> QED
    BY <2>1, <2>2
<1>6. Reference(list, p, today) = {list[i] : i \in {j \in DOMAIN list :
         \/ Len(list) <= p.minKeep \/ list[j] \in kept
         \/ few /\ j <= p.minKeep}}
  BY DEF Reference
<1>7. list[1] \in kept \/ few
  <2> SUFFICES ASSUME list[1] \notin kept
               PROVE  few
    OBVIOUS
  <2> HIDE DEF weekly, monthly, yearly, daily
  <2>1. kept = {} /\ weekly = {} /\ monthly = {} /\ yearly = {}
    BY <1>4, <1>5
  <2>2. Cardinality({}) = 0
    BY FS_EmptySet
  <2> HIDE DEF kept
  <2> QED
    BY <2>1, <2>2, <1>2
<1>8. list[1] \in Reference(list, p, today)
  <2> HIDE DEF kept, few
  <2>1. 1 \in DOMAIN list /\ 1 <= p.minKeep
    BY SMTT(20), <1>1, <1>2
  <2> QED
    BY <1>6, <1>7, <2>1
<1> QED
  BY <1>8, SelectedIsReference

\* A finite set of numbers that has any has one that is the greatest.
LEMMA MaxExists ==
  ASSUME NEW N \in Nat, NEW S \in SUBSET (1..N), S # {}
  PROVE  Max(S) \in S /\ \A m \in S : Max(S) >= m
<1> DEFINE Good == {n \in Nat : \A T \in SUBSET (1..n) : T # {} => \E x \in T : \A m \in T : x >= m}
<1>1. 0 \in Good
  <2>1. \A T \in SUBSET (1..0) : T = {}
    OBVIOUS
  <2> QED
    BY <2>1
<1>2. ASSUME NEW n \in Nat, n \in Good
      PROVE  n + 1 \in Good
  <2> SUFFICES ASSUME NEW T \in SUBSET (1..n + 1), T # {}
               PROVE  \E x \in T : \A m \in T : x >= m
    OBVIOUS
  <2>1. CASE n + 1 \in T
    BY <2>1
  <2>2. CASE n + 1 \notin T
    <3>1. T \in SUBSET (1..n)
      BY <2>2
    <3> QED
      BY <1>2, <3>1
  <2> QED
    BY <2>1, <2>2
<1>3. N \in Good
  <2> HIDE DEF Good
  <2> QED
    BY <1>1, <1>2, SetInduction
<1> QED
  BY <1>3 DEF Max

\* The first i of a set, counted from the greatest.
LEMMA FirstOfSet ==
  ASSUME NEW N \in Nat, NEW S \in SUBSET (1..N), NEW i \in 1..Cardinality(S)
  PROVE  \E n \in S : Cardinality({m \in S : m >= n}) = i
<1> DEFINE Good == {k \in Nat : k <= Cardinality(S) =>
                      \E A \in SUBSET S : /\ Cardinality(A) = k /\ \A x \in A : \A y \in S \ A : x > y
                                          /\ k > 0 => \E n \in S : A = {m \in S : m >= n}}
<1>1. IsFiniteSet(S) /\ Cardinality(S) \in Nat
  <2>1. IsFiniteSet(1..N)
    BY FS_Interval
  <2> QED
    BY <2>1, FS_Subset, FS_CardinalityType
<1>2. 0 \in Good
  <2>1. {} \in SUBSET S /\ Cardinality({}) = 0
    BY FS_EmptySet
  <2> QED
    BY <2>1
<1>3. ASSUME NEW k \in Nat, k \in Good
      PROVE  k + 1 \in Good
  <2> SUFFICES ASSUME k + 1 <= Cardinality(S)
               PROVE  \E A \in SUBSET S : /\ Cardinality(A) = k + 1 /\ \A x \in A : \A y \in S \ A : x > y
                                          /\ k + 1 > 0 => \E n \in S : A = {m \in S : m >= n}
    BY <1>1
  <2>1. PICK A \in SUBSET S : Cardinality(A) = k /\ \A x \in A : \A y \in S \ A : x > y
    BY <1>1, <1>3
  <2> HIDE DEF Good
  <2> DEFINE n == Max(S \ A)
  <2>2. S \ A # {}
    <3> SUFFICES ASSUME S \ A = {} PROVE FALSE
      OBVIOUS
    <3>1. A = S
      BY <2>1
    <3> QED
      BY <3>1, <2>1, <1>1
  <2>3. n \in S \ A /\ \A m \in S \ A : n >= m
    BY <2>2, MaxExists
  <2> HIDE DEF n
  <2>4. IsFiniteSet(A) /\ Cardinality(A \cup {n}) = k + 1
    <3>1. IsFiniteSet(A)
      BY <1>1, FS_Subset
    <3> QED
      BY <3>1, <2>1, <2>3, FS_AddElement
  <2>5. \A x \in A \cup {n} : \A y \in S \ (A \cup {n}) : x > y
    BY <2>1, <2>3
  <2>6. A \cup {n} = {m \in S : m >= n}
    <3>1. \A m \in S : m \in Nat
      OBVIOUS
    <3>2. \A m \in A : m >= n
      BY <3>1, <2>1, <2>3
    <3>3. \A m \in S \ A : m >= n => m = n
      BY <3>1, <2>3
    <3> QED
      BY <3>1, <3>2, <3>3, <2>3
  <2> QED
    BY <2>3, <2>4, <2>5, <2>6
<1>4. i \in Good
  <2>1. i \in Nat
    BY <1>1
  <2> HIDE DEF Good
  <2> QED
    BY <2>1, <1>2, <1>3, SetInduction
<1> QED
  BY <1>1, <1>4

\* Snapshot n of S is in the list, after those of S that are newer.
Placed(list, S, n) ==
  \E i \in DOMAIN list :
    /\ i = Cardinality({m \in S : m >= n}) /\ list[i] = [n |-> n, day |-> DayOf[n]]
    /\ \A k \in 1..i : k \in DOMAIN list /\ list[k].n \in S /\ list[k].day = DayOf[list[k].n] /\ list[k].n >= n
    /\ \A k \in 1..i - 1 : list[k].n > n
    /\ \A m \in S : m >= n => \E k \in 1..i : list[k].n = m

\* The list that retention makes has all the snapshots, and the newest first.
LEMMA NewestFirstList ==
  ASSUME NEW N \in Nat, MaxSnapshots \in Nat, N <= MaxSnapshots, NEW S \in SUBSET (1..N)
  PROVE  /\ IsNewestFirst(NewestFirst(S))
         /\ S # {} => NewestFirst(S) # <<>> /\ NewestFirst(S)[1].n = Max(S)
         /\ \A n \in S : Placed(NewestFirst(S), S, n)
<1> DEFINE nth(i) == CHOOSE n \in S : Cardinality({m \in S : m >= n}) = i
           order == NewestFirst(S)
<1>1. IsFiniteSet(S) /\ Cardinality(S) \in Nat /\ \A n \in S : IsFiniteSet({m \in S : m >= n})
  <2>1. IsFiniteSet(1..N)
    BY FS_Interval
  <2>2. IsFiniteSet(S)
    BY <2>1, FS_Subset
  <2>3. \A T \in SUBSET S : IsFiniteSet(T)
    BY <2>2, FS_Subset
  <2> QED
    BY <2>2, <2>3, FS_CardinalityType
<1>2. \A i \in 1..Cardinality(S) : nth(i) \in S /\ Cardinality({m \in S : m >= nth(i)}) = i
  <2> SUFFICES ASSUME NEW i \in 1..Cardinality(S)
               PROVE  nth(i) \in S /\ Cardinality({m \in S : m >= nth(i)}) = i
    OBVIOUS
  <2>1. \E n \in S : Cardinality({m \in S : m >= n}) = i
    BY FirstOfSet
  <2> QED
    BY <2>1
<1>3. order = [i \in 1..Cardinality(S) |-> [n |-> nth(i), day |-> DayOf[nth(i)]]]
  BY DEF NewestFirst
<1> HIDE DEF nth, order
<1>0. (\A m \in S : m \in Nat) /\ \A i \in 1..Cardinality(S) : nth(i) \in Nat /\ nth(i) \in S
  <2>1. \A m \in S : m \in Nat
    OBVIOUS
  <2>2. \A i \in 1..Cardinality(S) : nth(i) \in S
    BY <1>2
  <2> QED
    BY <2>1, <2>2, Zenon
<1>4. \A i, j \in 1..Cardinality(S) : i <= j => nth(j) <= nth(i)
  <2> SUFFICES ASSUME NEW i \in 1..Cardinality(S), NEW j \in 1..Cardinality(S), i <= j, nth(j) > nth(i)
               PROVE  FALSE
    BY <1>0
  <2>1. /\ nth(i) \in Nat /\ nth(j) \in Nat /\ nth(i) \in S /\ nth(j) \in S
        /\ \A m \in S : m \in Nat
    BY <1>0
  <2> DEFINE A == {m \in S : m >= nth(i)}
             B == {m \in S : m >= nth(j)}
  <2>2. B \subseteq A /\ nth(i) \in A /\ nth(i) \notin B
    <3> SUFFICES ASSUME NEW a \in S, NEW b \in S, a = nth(i), b = nth(j)
                 PROVE  B \subseteq A /\ a \in A /\ a \notin B
      BY <2>1
    <3>1. \A m \in S : m >= b => m >= a
      BY <2>1
    <3>2. a >= a /\ ~(a >= b)
      BY <2>1
    <3> QED
      BY <3>1, <3>2
  <2>3. Cardinality(A) = i /\ Cardinality(B) = j /\ IsFiniteSet(A)
    <3>1. \A k \in 1..Cardinality(S) : Cardinality({m \in S : m >= nth(k)}) = k
      BY <1>2
    <3>2. IsFiniteSet(A)
      BY <1>1, <2>1
    <3> QED
      BY <3>1, <3>2
  <2> HIDE DEF A, B
  <2>4. Cardinality(B) <= Cardinality(A) /\ (Cardinality(A) = Cardinality(B) => A = B)
    BY <2>2, <2>3, FS_Subset
  <2> QED
    BY <2>2, <2>3, <2>4
<1>5. /\ \A n \in S : n \in 0..MaxSnapshots /\ n \in Int /\ DayOf[n] \in Int
      /\ \A m, n \in 0..MaxSnapshots : m <= n => DayOf[m] <= DayOf[n]
  BY RetentionAssumption
<1>6. IsNewestFirst(order)
  <2>1. \A i \in 1..Cardinality(S) : order[i] \in [n : Int, day : Int] /\ order[i].day = DayOf[nth(i)]
    <3> SUFFICES ASSUME NEW i \in 1..Cardinality(S)
                 PROVE  order[i] \in [n : Int, day : Int] /\ order[i].day = DayOf[nth(i)]
      OBVIOUS
    <3>1. order[i] = [n |-> nth(i), day |-> DayOf[nth(i)]]
      BY <1>3
    <3>2. nth(i) \in Int /\ DayOf[nth(i)] \in Int
      BY <1>0, <1>5
    <3> QED
      BY <3>1, <3>2
  <2>2. order \in Seq([n : Int, day : Int]) /\ DOMAIN order = 1..Cardinality(S)
    <3> SUFFICES ASSUME NEW R, \A i \in 1..Cardinality(S) : order[i] \in R
                 PROVE  order \in Seq(R) /\ DOMAIN order = 1..Cardinality(S)
      BY <2>1
    <3> QED
      BY <1>1, <1>3
  <2>3. \A i, j \in DOMAIN order : i <= j => order[j].day <= order[i].day
    <3> SUFFICES ASSUME NEW i \in 1..Cardinality(S), NEW j \in 1..Cardinality(S), i <= j
                 PROVE  order[j].day <= order[i].day
      BY <2>2
    <3>1. nth(j) <= nth(i) /\ nth(i) \in 0..MaxSnapshots /\ nth(j) \in 0..MaxSnapshots
      BY <1>0, <1>4, <1>5
    <3>2. DayOf[nth(j)] <= DayOf[nth(i)]
      BY <3>1, <1>5
    <3> QED
      BY <2>1, <3>2
  <2> QED
    BY <2>2, <2>3 DEF IsNewestFirst
<1>7. ASSUME S # {}
      PROVE  order # <<>> /\ order[1].n = Max(S)
  <2>1. Cardinality(S) > 0 /\ 1 \in 1..Cardinality(S)
    BY <1>1, <1>7, FS_EmptySet
  <2>2. Max(S) \in S /\ \A m \in S : Max(S) >= m
    BY <1>7, MaxExists
  <2>3. nth(1) \in S /\ Cardinality({m \in S : m >= nth(1)}) = 1
    BY <1>2, <2>1
  <2>4. PICK x : {m \in S : m >= nth(1)} = {x}
    BY <1>1, <2>3, FS_Singleton
  <2>5. Max(S) \in {m \in S : m >= nth(1)} /\ nth(1) \in {m \in S : m >= nth(1)}
    <3>1. nth(1) \in Int /\ Max(S) >= nth(1) /\ nth(1) >= nth(1)
      BY <1>0, <2>1, <2>2, <2>3
    <3> QED
      BY <3>1, <2>2, <2>3
  <2>6. nth(1) = Max(S)
    BY <2>4, <2>5
  <2>7. order[1].n = nth(1) /\ DOMAIN order # {}
    BY <1>3, <2>1
  <2> QED
    BY <2>6, <2>7
<1>8. ASSUME NEW n \in S
      PROVE  Placed(order, S, n)
  <2> DEFINE Above(x) == {m \in S : m >= x}
             C == Cardinality(S)
  <2>1. \A x \in S : x \in Int /\ x \in Above(x) /\ IsFiniteSet(Above(x)) /\ Cardinality(Above(x)) \in 1..C
    <3> SUFFICES ASSUME NEW x \in S
                 PROVE  x \in Int /\ x \in Above(x) /\ IsFiniteSet(Above(x)) /\ Cardinality(Above(x)) \in 1..C
      OBVIOUS
    <3>1. x \in Int /\ x \in Above(x)
      BY <1>0
    <3>2. Above(x) \subseteq S /\ IsFiniteSet(Above(x))
      BY <1>1
    <3>3. {x} \subseteq Above(x)
      BY <3>1
    <3> HIDE DEF Above
    <3>4. Cardinality(Above(x)) <= C /\ Cardinality(Above(x)) \in Nat /\ Cardinality({x}) <= Cardinality(Above(x))
      BY <1>1, <3>2, <3>3, FS_Subset, FS_CardinalityType
    <3>5. Cardinality({x}) = 1
      BY FS_Singleton
    <3> QED
      BY <3>1, <3>2, <3>4, <3>5, <1>1
  <2>2. \A x, y \in S : x < y => Cardinality(Above(y)) < Cardinality(Above(x))
    <3> SUFFICES ASSUME NEW x \in S, NEW y \in S, x < y
                 PROVE  Cardinality(Above(y)) < Cardinality(Above(x))
      OBVIOUS
    <3>1. Above(y) \subseteq Above(x) /\ x \notin Above(y)
      <4>1. x \in Int /\ y \in Int /\ \A m \in S : m \in Int
        BY <1>0
      <4>2. \A m \in S : m >= y => m >= x
        BY <4>1
      <4>3. ~(x >= y)
        BY <4>1
      <4> QED
        BY <4>2, <4>3
    <3>2. x \in Above(x) /\ IsFiniteSet(Above(x)) /\ Cardinality(Above(x)) \in Nat /\ Cardinality(Above(y)) \in Nat
      BY <2>1, <1>1
    <3> HIDE DEF Above
    <3>3. Cardinality(Above(y)) <= Cardinality(Above(x)) /\ (Cardinality(Above(x)) = Cardinality(Above(y)) => Above(x) = Above(y))
      BY <3>1, <3>2, FS_Subset
    <3> QED
      BY <3>1, <3>2, <3>3
  <2>3. \A k \in 1..C : nth(k) \in S /\ Cardinality(Above(nth(k))) = k
    BY <1>2
  <2> HIDE DEF Above
  <2>4. \A x \in S : nth(Cardinality(Above(x))) = x
    <3> SUFFICES ASSUME NEW x \in S, NEW y, y = nth(Cardinality(Above(x)))
                 PROVE  y = x
      OBVIOUS
    <3>1. y \in S /\ Cardinality(Above(y)) = Cardinality(Above(x)) /\ x \in Int
      BY <2>1, <2>3
    <3>2. y \in Int /\ Cardinality(Above(y)) \in Nat
      BY <3>1, <2>1
    <3> QED
      BY <3>1, <3>2, <2>2
  <2> DEFINE i == Cardinality(Above(n))
  <2>5. i \in 1..C /\ nth(i) = n /\ n \in Int
    BY <2>1, <2>4
  <2>6. DOMAIN order = 1..C /\ \A k \in 1..C : order[k].n = nth(k) /\ order[k].day = DayOf[nth(k)]
    BY <1>3
  <2>11. order[i] = [n |-> n, day |-> DayOf[n]]
    BY <1>3, <2>5
  <2> HIDE DEF i
  <2>7. \A k \in 1..i : k \in 1..C /\ nth(k) >= n
    BY <1>0, <1>1, <1>4, <2>5
  <2>8. \A k \in 1..i - 1 : nth(k) > n
    <3> SUFFICES ASSUME NEW k \in 1..i - 1
                 PROVE  nth(k) > n
      OBVIOUS
    <3>1. k \in 1..i /\ k # i
      BY <2>5
    <3>2. k \in 1..C /\ nth(k) >= n /\ nth(k) \in Int
      BY <3>1, <2>7, <2>3, <2>1
    <3>3. nth(k) # n
      BY <3>1, <3>2, <2>3 DEF i
    <3> QED
      BY <3>2, <3>3, <2>5
  <2>9. ASSUME NEW m \in S, m >= n
        PROVE  \E k \in 1..i : nth(k) = m
    <3>1. Cardinality(Above(m)) \in 1..C /\ nth(Cardinality(Above(m))) = m /\ m \in Int
      BY <2>1, <2>4
    <3>2. Cardinality(Above(m)) <= i
      <4>1. CASE m = n
        BY <4>1, <2>5, <3>1 DEF i
      <4>2. CASE m # n
        <5>1. n < m
          BY <4>2, <2>9, <2>5, <3>1
        <5> QED
          BY <5>1, <2>2, <2>5, <3>1 DEF i
      <4> QED
        BY <4>1, <4>2
    <3>3. Cardinality(Above(m)) \in 1..i
      BY <3>1, <3>2, <2>5, <1>1
    <3> QED
      BY <3>1, <3>3
  <2>10. i = Cardinality({m \in S : m >= n})
    BY DEF i, Above
  <2>12. \A k \in 1..i : k \in DOMAIN order /\ order[k].n \in S /\ order[k].day = DayOf[order[k].n] /\ order[k].n >= n
    BY <2>3, <2>6, <2>7
  <2>13. \A k \in 1..i - 1 : order[k].n > n
    <3>1. \A k \in 1..i - 1 : k \in 1..C
      BY <2>5, <1>1
    <3> QED
      BY <3>1, <2>6, <2>8
  <2>14. \A m \in S : m >= n => \E k \in 1..i : order[k].n = m
    BY <2>6, <2>7, <2>9
  <2> QED
    BY <2>5, <2>6, <2>10, <2>11, <2>12, <2>13, <2>14 DEF Placed
<1> QED
  BY <1>6, <1>7, <1>8 DEF order

\* What is promised of a set of snapshots is kept of its list.
LEMMA PromisedIsSelected ==
  ASSUME NEW list, IsNewestFirst(list), NEW S, \A m \in S : Placed(list, S, m), Today \in Int,
         Policy \in [minKeep : Int, days : Int, weeks : Int, months : Int, years : Int],
         NEW n \in Promised(S)
  PROVE  n \in {k.n : k \in Selected(list, Policy, Today)}
<1>1. n \in S
  BY DEF Promised, NewestOfEach
<1>2. PICK i \in DOMAIN list :
        /\ i = Cardinality({m \in S : m >= n}) /\ list[i] = [n |-> n, day |-> DayOf[n]]
        /\ \A k \in 1..i : k \in DOMAIN list /\ list[k].n \in S /\ list[k].day = DayOf[list[k].n] /\ list[k].n >= n
        /\ \A k \in 1..i - 1 : list[k].n > n
        /\ \A m \in S : m >= n => \E k \in 1..i : list[k].n = m
  BY <1>1 DEF Placed
<1>3. i \in Nat /\ \A k \in 1..i - 1 : k \in 1..i
  <2>1. DOMAIN list \subseteq Nat
    <3> SUFFICES ASSUME NEW R, list \in Seq(R)
                 PROVE  DOMAIN list \subseteq Nat
      BY DEF IsNewestFirst
    <3> QED
      OBVIOUS
  <2> QED
    BY <2>1, <1>2
<1>4. ASSUME NEW within, NEW limit, NEW Period, n \in NewestOfEach(S, within, limit, Period)
      PROVE  list[i] \in NewestOfPeriods(list, Today, within, limit, Period)
  <2>1. Today - list[i].day < within
    BY <1>2, <1>4 DEF NewestOfEach
  <2>2. \A k \in 1..i - 1 : Period[list[k].day] # Period[list[i].day]
    <3> SUFFICES ASSUME NEW k \in 1..i - 1
                 PROVE  Period[list[k].day] # Period[list[i].day]
      OBVIOUS
    <3>1. list[k].n \in S /\ list[k].n > n /\ list[k].day = DayOf[list[k].n]
      BY <1>2, <1>3
    <3>2. Period[DayOf[list[k].n]] # Period[DayOf[n]]
      BY <3>1, <1>4 DEF NewestOfEach
    <3>3. list[i].day = DayOf[n]
      BY <1>2
    <3> QED
      BY <3>1, <3>2, <3>3
  <2>3. {Period[list[k].day] : k \in 1..i} = {Period[DayOf[m]] : m \in {k \in S : k >= n}}
    <3>1. \A k \in 1..i : list[k].n \in {m \in S : m >= n} /\ list[k].day = DayOf[list[k].n]
      BY <1>2
    <3>2. \A m \in {k \in S : k >= n} : \E k \in 1..i : list[k].n = m
      BY <1>2
    <3> DEFINE U == {m \in S : m >= n}
    <3> HIDE DEF U
    <3>3. (\A k \in 1..i : list[k].n \in U /\ list[k].day = DayOf[list[k].n]) /\ \A m \in U : \E k \in 1..i : list[k].n = m
      BY <3>1, <3>2 DEF U
    <3>4. {Period[list[k].day] : k \in 1..i} = {Period[DayOf[m]] : m \in U}
      <4>1. ASSUME NEW k \in 1..i
            PROVE  \E m \in U : Period[list[k].day] = Period[DayOf[m]]
        BY <3>3
      <4>2. ASSUME NEW m \in U
            PROVE  \E k \in 1..i : Period[DayOf[m]] = Period[list[k].day]
        <5>1. PICK k \in 1..i : list[k].n = m
          BY <3>3
        <5> QED
          BY <5>1, <3>3
      <4> QED
        BY <4>1, <4>2
    <3> QED
      BY <3>4 DEF U
  <2>4. Cardinality({Period[list[k].day] : k \in 1..i}) <= limit
    BY <2>3, <1>4 DEF NewestOfEach
  <2> QED
    BY <2>1, <2>2, <2>4 DEF NewestOfPeriods
<1>5. ASSUME Today - DayOf[n] < Policy.days, Cardinality({m \in S : m >= n}) <= Policy.days
      PROVE  list[i] \in {list[j] : j \in {k \in DOMAIN list : k <= Policy.days /\ Today - list[k].day < Policy.days}}
  <2>1. i <= Policy.days /\ Today - list[i].day < Policy.days
    BY <1>2, <1>5
  <2> QED
    BY <2>1
<1>6. list[i] \in Reference(list, Policy, Today)
  <2>1. CASE Today - DayOf[n] < Policy.days /\ Cardinality({m \in S : m >= n}) <= Policy.days
    BY <1>5, <2>1 DEF Reference
  <2>2. CASE n \in NewestOfEach(S, 30 * Policy.months, Policy.months, Month)
    BY <1>4, <2>2 DEF Reference
  <2>3. CASE n \in NewestOfEach(S, 365 * Policy.years, Policy.years, Year)
    BY <1>4, <2>3 DEF Reference
  <2> QED
    BY <2>1, <2>2, <2>3 DEF Promised
<1>7. list[i] \in Selected(list, Policy, Today) /\ list[i].n = n
  BY <1>2, <1>6, SelectedIsReference
<1> QED
  BY <1>7

------------------------------------------------------------------------------
USE BackupAssumption, StartAssumption

Asked(x) == IF x.by = User THEN Manual ELSE Covers[x.by]
Parts(x) == {made[n].subvol : n \in x.took}
LastOf(x) == Max(x.took)

\* What a job has made and what it has still to do are what it was asked for; at
\* "record" the head of todo is made already.
JobInv(x) ==
  /\ x.at \in {"start", "take", "record"} => x.todo # <<>> /\ x.state # "succeeded"
  /\ x.at = "start" => x.took = {} /\ x.todo = Asked(x)
  /\ x.at \in {"take", "record"} => Parts(x) \cup Range(x.todo) = Range(Asked(x))
  /\ x.at = "record" => LastOf(x) \in x.took /\ made[LastOf(x)].subvol = Head(x.todo)
  /\ x.at = "retain" \/ x.state = "succeeded" => Parts(x) = Range(Asked(x))

\* The snapshot a job is about to record is on the disk, not yet recorded and of no
\* other job.
Unrecorded == {j \in JobIds : jobs[j].at = "record"}
FollowInv ==
  /\ \A j \in Unrecorded : LastOf(jobs[j]) \in disk \ snapshots
  /\ \A i, j \in Unrecorded : LastOf(jobs[i]) = LastOf(jobs[j]) => i = j
  /\ RecordsFollowDisk

\* The save of a job is under way only while the job is at it.
Saves == {"save", "save again"}
SaverInv == \A j \in JobIds : saver[j].at # "idle" => jobs[j].at \in Saves

\* Recorded snapshots are deleted, and the answers about some of them are lost.
Deleted ==
  \E gone \in SUBSET (snapshots \cap disk) : \E lost \in SUBSET gone :
    disk' = disk \ gone /\ snapshots' = snapshots \ (gone \ lost) /\ adrift' = adrift \cup lost

IInv == TypeOK /\ (\A j \in JobIds : JobInv(jobs[j])) /\ FollowInv /\ SaverInv

\* Unless two saves ran into each other there is one at a time; and what is in memory
\* is in the file, about to be renamed over it, about to be written, or yet to be read
\* by a save that is sure to come.
Alone == ~raced => \A t, u \in Threads : Saving(t) /\ Saving(u) => t = u
WillSave(t) ==
  IF t = Sweep THEN saver[t].at \in {"save", "read"}
  ELSE \/ jobs[t].at = "take" /\ (jobs[t].by # User \/ jobs[t].took # {})
       \/ jobs[t].at \in {"record", "retain", "note"}
       \/ jobs[t].at \in Saves /\ saver[t].at \in {"idle", "read"}
Saved ==
  \/ \E t \in Threads : WillSave(t)
  \/ \E t \in Threads : saver[t].at = "write" /\ saver[t].fd = "tmp" /\ saver[t].data = Memory
  \/ \E t \in Threads : saver[t].at = "rename" /\ tmp = Memory
  \/ HasMemory(file) /\ \A t \in Threads : ~Saving(t)
SavedInv == Alone /\ (lock = "free" /\ ~unsaved /\ ~raced => Saved)

------------------------------------------------------------------------------
\* A sequence that is not empty is its head and its tail.
LEMMA HeadAndTail ==
  ASSUME NEW S, NEW s \in Seq(S), s # <<>>
  PROVE  /\ Head(s) \in S /\ Tail(s) \in Seq(S)
         /\ Range(s) = {Head(s)} \cup Range(Tail(s))
         /\ Len(s) > 1 <=> Tail(s) # <<>>
         /\ Tail(s) = <<>> => Range(Tail(s)) = {}
<1>1. Len(s) \in Nat /\ Len(s) > 0 /\ Head(s) = s[1] /\ s[1] \in S
  OBVIOUS
<1>2. /\ Tail(s) \in Seq(S) /\ Len(Tail(s)) = Len(s) - 1
      /\ \A i \in 1..Len(s) - 1 : Tail(s)[i] = s[i + 1]
  OBVIOUS
<1>3. DOMAIN s = 1..Len(s) /\ DOMAIN Tail(s) = 1..Len(s) - 1
  BY <1>2
<1>4. Range(s) \subseteq {Head(s)} \cup Range(Tail(s))
  <2> SUFFICES ASSUME NEW i \in 1..Len(s)
               PROVE  s[i] = s[1] \/ s[i] \in Range(Tail(s))
    BY ZenonT(30), <1>1, <1>3 DEF Range
  <2>1. CASE i = 1
    BY <2>1
  <2>2. CASE i # 1
    <3>1. i - 1 \in 1..Len(s) - 1 /\ (i - 1) + 1 = i
      BY <1>1, <2>2
    <3>2. Tail(s)[i - 1] = s[(i - 1) + 1]
      BY <3>1, <1>2, Zenon
    <3>3. Tail(s)[i - 1] = s[i] /\ i - 1 \in DOMAIN Tail(s)
      BY <3>1, <3>2, <1>3, Zenon
    <3>4. \A k \in DOMAIN Tail(s) : Tail(s)[k] \in Range(Tail(s))
      BY DEF Range
    <3> QED
      BY <3>3, <3>4, Zenon
  <2> QED
    BY <2>1, <2>2
<1>5. {Head(s)} \cup Range(Tail(s)) \subseteq Range(s)
  <2>1. Head(s) \in Range(s)
    <3>1. 1 \in DOMAIN s
      BY <1>1, <1>3
    <3> QED
      BY <3>1, <1>1 DEF Range
  <2>2. ASSUME NEW i \in 1..Len(s) - 1
        PROVE  Tail(s)[i] \in Range(s)
    <3>1. i + 1 \in 1..Len(s)
      BY <1>1
    <3> QED
      BY <3>1, <1>2, <1>3 DEF Range
  <2> QED
    BY <2>1, <2>2, <1>3 DEF Range
<1>6. Len(s) > 1 <=> Tail(s) # <<>>
  <2> DEFINE r == Tail(s)
  <2>1. r \in Seq(S)
    BY <1>2
  <2>2. r = <<>> <=> Len(r) = 0
    <3> HIDE DEF r
    <3> QED
      BY <2>1
  <2> QED
    BY <2>2, <1>1, <1>2
<1>7. Tail(s) = <<>> => Range(Tail(s)) = {}
  BY DEF Range
<1> QED
  BY <1>1, <1>2, <1>4, <1>5, <1>6, <1>7

\* The newest of a set of snapshots is the one just made.
LEMMA NewIsLast ==
  ASSUME NEW n \in Nat, NEW S \in SUBSET (1..n)
  PROVE  Max(S \cup {n + 1}) = n + 1
<1> DEFINE T == S \cup {n + 1}
<1>1. n + 1 \in T /\ \A y \in T : y \in Nat /\ n + 1 >= y
  OBVIOUS
<1>2. PICK m \in T : m = Max(T) /\ \A y \in T : m >= y
  BY <1>1 DEF Max
<1>3. m >= n + 1 /\ n + 1 >= m /\ m \in Nat
  BY <1>1, <1>2
<1>4. m = n + 1
  BY <1>3
<1> QED
  BY <1>2, <1>4

\* What grows when a snapshot is made.
Grows == made' = made \/ \E x \in Snapshots : made' = Append(made, x)

LEMMA Growth ==
  ASSUME TypeOK, Grows
  PROVE  /\ made' \in Seq(Snapshots)
         /\ DOMAIN made \subseteq DOMAIN made'
         /\ \A n \in DOMAIN made : made'[n] = made[n]
         /\ Contents \subseteq Contents' /\ Jobs \subseteq Jobs' /\ Savers \subseteq Savers'
<1>1. made \in Seq(Snapshots)
  BY DEF TypeOK
<1>2. /\ made' \in Seq(Snapshots)
      /\ DOMAIN made \subseteq DOMAIN made'
      /\ \A n \in DOMAIN made : made'[n] = made[n]
  <2>1. CASE made' = made
    BY <1>1, <2>1
  <2>2. ASSUME NEW x \in Snapshots, made' = Append(made, x)
        PROVE  <1>2!1 /\ <1>2!2 /\ <1>2!3
    <3>1. /\ Append(made, x) \in Seq(Snapshots)
          /\ DOMAIN made = 1..Len(made) /\ DOMAIN Append(made, x) = 1..Len(made) + 1
          /\ \A n \in 1..Len(made) : Append(made, x)[n] = made[n]
      BY <1>1
    <3>2. 1..Len(made) \subseteq 1..Len(made) + 1
      BY <1>1
    <3> QED
      BY <2>2, <3>1, <3>2
  <2> QED
    BY <2>1, <2>2 DEF Grows
<1>3. Contents \subseteq Contents'
  BY <1>2 DEF Contents, Settings, NoSchedule
<1>4. Jobs \subseteq Jobs'
  BY <1>2 DEF Jobs, Owners, Ended
<1>5. Savers \subseteq Savers'
  BY <1>3 DEF Savers
<1> QED
  BY <1>2, <1>3, <1>4, <1>5

LEMMA JobKept ==
  ASSUME TypeOK, Grows, NEW x \in Jobs, JobInv(x)
  PROVE  JobInv(x)'
<1>1. \A n \in DOMAIN made : made'[n] = made[n]
  BY Growth
<1>2. x.took \subseteq DOMAIN made
  BY DEF Jobs
<1>3. Parts(x)' = Parts(x)
  BY <1>1, <1>2 DEF Parts
<1>4. LastOf(x) \in x.took => made'[LastOf(x)] = made[LastOf(x)]
  BY <1>1, <1>2
<1> QED
  BY <1>3, <1>4 DEF JobInv, Asked, LastOf

\* One job changes.
LEMMA JobStep ==
  ASSUME TypeOK, Grows, \A i \in JobIds : JobInv(jobs[i]),
         NEW j \in JobIds, NEW x \in Jobs', JobInv(x)', jobs' = [jobs EXCEPT ![j] = x]
  PROVE  /\ jobs' \in [JobIds -> Jobs'] /\ \A i \in JobIds : JobInv(jobs[i])'
         /\ jobs'[j] = x /\ \A i \in JobIds \ {j} : jobs'[i] = jobs[i]
<1>1. jobs \in [JobIds -> Jobs] /\ Jobs \subseteq Jobs'
  BY Growth DEF TypeOK
<1>2. jobs'[j] = x /\ \A i \in JobIds \ {j} : jobs'[i] = jobs[i]
  BY <1>1
<1>3. jobs' \in [JobIds -> Jobs']
  BY <1>1
<1>4. ASSUME NEW i \in JobIds
      PROVE  JobInv(jobs[i])'
  <2>1. CASE i = j
    BY ZenonT(30), <2>1, <1>2 DEF JobInv, Parts, Asked, LastOf
  <2>2. CASE i # j
    <3>1. jobs'[i] = jobs[i] /\ jobs[i] \in Jobs
      BY <2>2, <1>1, <1>2
    <3>2. ASSUME NEW y \in Jobs, JobInv(y)
          PROVE  JobInv(y)'
      BY <3>2, JobKept
    <3> QED
      BY ZenonT(30), <3>1, <3>2 DEF JobInv, Parts, Asked, LastOf
  <2> QED
    BY <2>1, <2>2
<1> QED
  BY <1>2, <1>3, <1>4

\* No job changes.
LEMMA NoJobStep ==
  ASSUME TypeOK, Grows, \A i \in JobIds : JobInv(jobs[i]), jobs' = jobs
  PROVE  /\ jobs' \in [JobIds -> Jobs'] /\ \A i \in JobIds : JobInv(jobs[i])'
<1>1. jobs \in [JobIds -> Jobs] /\ Jobs \subseteq Jobs'
  BY Growth DEF TypeOK
<1>2. ASSUME NEW i \in JobIds
      PROVE  JobInv(jobs[i])'
  <2>1. jobs'[i] = jobs[i] /\ jobs[i] \in Jobs
    BY <1>1
  <2>2. ASSUME NEW y \in Jobs, JobInv(y)
        PROVE  JobInv(y)'
    BY <2>2, JobKept
  <2> QED
    BY <2>1, <2>2 DEF JobInv, Parts, Asked, LastOf
<1> QED
  BY <1>1, <1>2

------------------------------------------------------------------------------
LEMMA NoneDeleted ==
  ASSUME UNCHANGED <<snapshots, disk, adrift>>
  PROVE  Deleted
<1>1. /\ {} \in SUBSET (snapshots \cap disk) /\ {} \in SUBSET {}
      /\ disk' = disk \ {} /\ snapshots' = snapshots \ ({} \ {}) /\ adrift' = adrift \cup {}
  OBVIOUS
<1> QED
  BY <1>1 DEF Deleted

\* What RecordsFollowDisk says of each snapshot.
Fresh(n) == \E j \in Unrecorded : n = LastOf(jobs[j])
Follows == \A n : n \notin adrift => (n \in disk <=> n \in snapshots \/ (n \in disk /\ Fresh(n)))

LEMMA FollowsIs == RecordsFollowDisk <=> Follows
<1>1. {n \in disk : \E j \in JobIds : jobs[j].at = "record" /\ n = Max(jobs[j].took)} = {n \in disk : Fresh(n)}
  BY DEF Fresh, Unrecorded, LastOf
<1> QED
  BY <1>1 DEF RecordsFollowDisk, Follows

LEMMA FollowsIsPrime == RecordsFollowDisk' <=> Follows'
<1>1. {n \in disk' : \E j \in JobIds : jobs'[j].at = "record" /\ n = Max(jobs'[j].took)} = {n \in disk' : Fresh(n)'}
  BY DEF Fresh, Unrecorded, LastOf
<1> QED
  BY <1>1 DEF RecordsFollowDisk, Follows

\* Snapshots go with their records, unless answers are lost, and no job reaches or
\* leaves "record".
LEMMA FollowLess ==
  ASSUME FollowInv, Deleted,
         Unrecorded' = Unrecorded, \A j \in Unrecorded : jobs'[j].took = jobs[j].took
  PROVE  FollowInv'
<1>7. PICK gone \in SUBSET (snapshots \cap disk) : \E lost \in SUBSET gone :
        disk' = disk \ gone /\ snapshots' = snapshots \ (gone \ lost) /\ adrift' = adrift \cup lost
  BY DEF Deleted
<1>0. PICK lost \in SUBSET gone :
        disk' = disk \ gone /\ snapshots' = snapshots \ (gone \ lost) /\ adrift' = adrift \cup lost
  BY <1>7
<1>1. \A j \in Unrecorded : LastOf(jobs[j])' = LastOf(jobs[j])
  BY DEF LastOf
<1>2. \A j \in Unrecorded' : LastOf(jobs[j])' \in disk' \ snapshots'
  BY <1>0, <1>1 DEF FollowInv
<1>3. \A i, j \in Unrecorded' : LastOf(jobs[i])' = LastOf(jobs[j])' => i = j
  BY <1>1 DEF FollowInv
<1>4. \A n : Fresh(n)' <=> Fresh(n)
  BY <1>1 DEF Fresh
<1>5. Follows'
  BY <1>0, <1>4, FollowsIs DEF Follows, FollowInv
<1> QED
  BY <1>2, <1>3, <1>5, FollowsIsPrime DEF FollowInv

\* Neither jobs nor snapshots change.
LEMMA Elsewhere ==
  ASSUME IInv, UNCHANGED <<jobs, snapshots, disk, made, adrift>>
  PROVE  /\ jobs' \in [JobIds -> Jobs'] /\ (\A j \in JobIds : JobInv(jobs[j])') /\ FollowInv'
         /\ made' \in Seq(Snapshots) /\ Len(made') <= MaxSnapshots
         /\ disk' \subseteq DOMAIN made' /\ snapshots' \subseteq DOMAIN made' /\ adrift' \subseteq DOMAIN made'
         /\ Contents' = Contents /\ Savers' = Savers
<1>1. TypeOK /\ Grows
  BY DEF IInv, Grows
<1>2. jobs' \in [JobIds -> Jobs'] /\ (\A j \in JobIds : JobInv(jobs[j])')
  BY <1>1, NoJobStep DEF IInv
<1>3. FollowInv'
  BY DEF IInv, FollowInv, RecordsFollowDisk, Unrecorded, LastOf
<1>4. Contents' = Contents /\ Savers' = Savers
  BY DEF Contents, Savers
<1> QED
  BY <1>1, <1>2, <1>3, <1>4 DEF TypeOK

\* One job changes, but not at "record"; the store loses what it has a record of.
LEMMA JobMoves ==
  ASSUME IInv, NEW j \in JobIds, NEW x \in Jobs, JobInv(x), jobs' = [jobs EXCEPT ![j] = x],
         x.at = "record" <=> jobs[j].at = "record", x.at = "record" => x.took = jobs[j].took,
         Deleted, UNCHANGED made
  PROVE  /\ jobs' \in [JobIds -> Jobs'] /\ (\A i \in JobIds : JobInv(jobs[i])') /\ FollowInv'
         /\ made' \in Seq(Snapshots) /\ Len(made') <= MaxSnapshots
         /\ disk' \subseteq DOMAIN made' /\ snapshots' \subseteq DOMAIN made' /\ adrift' \subseteq DOMAIN made'
         /\ Contents' = Contents /\ Savers' = Savers
<1>1. TypeOK /\ Grows
  BY DEF IInv, Grows
<1>2. x \in Jobs' /\ JobInv(x)'
  BY JobKept, <1>1 DEF Jobs
<1>3. /\ jobs' \in [JobIds -> Jobs'] /\ (\A i \in JobIds : JobInv(jobs[i])')
      /\ jobs'[j] = x /\ \A i \in JobIds \ {j} : jobs'[i] = jobs[i]
  BY <1>1, <1>2, JobStep DEF IInv
<1>4. Unrecorded' = Unrecorded /\ \A i \in Unrecorded : jobs'[i].took = jobs[i].took
  BY <1>3 DEF Unrecorded
<1>5. FollowInv'
  BY <1>4, FollowLess DEF IInv
<1>6. Contents' = Contents /\ Savers' = Savers
  BY DEF Contents, Savers
<1>7. disk' \subseteq DOMAIN made' /\ snapshots' \subseteq DOMAIN made' /\ adrift' \subseteq DOMAIN made'
  BY <1>1 DEF Deleted, TypeOK
<1> QED
  BY <1>1, <1>3, <1>5, <1>6, <1>7 DEF TypeOK

\* A save that is under way goes on with its job.
LEMMA SaverKept ==
  ASSUME IInv, saver' = saver, NEW j \in JobIds, NEW x, jobs' = [jobs EXCEPT ![j] = x],
         x.at = jobs[j].at \/ jobs[j].at \notin Saves
  PROVE  SaverInv'
<1>1. jobs \in [JobIds -> Jobs]
  BY DEF IInv, TypeOK
<1>2. jobs'[j] = x /\ \A i \in JobIds \ {j} : jobs'[i] = jobs[i]
  BY <1>1
<1> QED
  BY <1>2 DEF IInv, SaverInv

------------------------------------------------------------------------------
\* Of what retention finds, every snapshot is recorded and of the schedule.
LEMMA SurplusIsOwn ==
  ASSUME NEW S, NEW n \in AllSurplus(S)
  PROVE  n \in snapshots /\ made[n].by \in S
BY DEF AllSurplus, Surplus, OfSchedule

LEMMA RetentionDeletes ==
  ASSUME NEW S, ApplyRetention(S)
  PROVE  Deleted
<1>1. AllSurplus(S) \cap disk \subseteq snapshots \cap disk
  BY SurplusIsOwn
<1> QED
  BY <1>1 DEF ApplyRetention, Deleted

LEMMA IInit == Init => IInv
<1> SUFFICES ASSUME Init
             PROVE  IInv
  OBVIOUS
<1>1. made = Earlier /\ snapshots = DOMAIN made /\ disk = DOMAIN made /\ adrift = {}
  BY DEF Init
<1>2. NoFile \in Contents
  BY DEF NoFile, Contents, NoSchedule
<1>3. NoJob \in Jobs /\ NoJob.at = "none" /\ NoJob.state = "none"
  BY DEF NoJob, Jobs, Owners
<1>4. Idle \in Savers
  BY <1>2 DEF Idle, Savers
<1>5. schedules \in [Schedules -> Settings \cup {NoSchedule}] /\ file = Memory
  BY DEF Init
<1>6. Memory \in Contents
  BY <1>1, <1>5 DEF Memory, Contents
<1>7. cron = Entries(schedules)
  BY DEF Init
<1>8. TypeOK
  BY <1>1, <1>2, <1>3, <1>4, <1>5, <1>6, <1>7 DEF Init, TypeOK, Entries
<1>9. \A j \in JobIds : JobInv(jobs[j])
  BY DEF Init, JobInv, NoJob
<1>10. FollowInv
  <2>1. Unrecorded = {}
    BY <1>3 DEF Init, Unrecorded
  <2>2. Follows
    BY <1>1 DEF Follows
  <2> QED
    BY <2>1, <2>2, FollowsIs DEF FollowInv
<1>11. SaverInv
  BY DEF Init, SaverInv, Idle, Threads
<1> QED
  BY <1>8, <1>9, <1>10, <1>11 DEF IInv

------------------------------------------------------------------------------
(* The requests.                                                               *)

LEMMA EnterStep ==
  ASSUME IInv, NEW s \in Schedules, NEW setting \in Settings,
         CreateSchedule(s, setting) \/ UpdateSchedule(s, setting)
  PROVE  IInv'
<1> DEFINE New == Entries(schedules') \cap {s}
<1>1. Enter(s, setting) /\ (cron' = cron \cup New \/ cron' = (cron \ {s}) \cup New)
  BY DEF CreateSchedule, UpdateSchedule
<1>2. UNCHANGED <<jobs, snapshots, disk, made, adrift, saver, tmp, file, restarts>>
  BY <1>1 DEF Enter, store, files, rest
<1>3. schedules' = [schedules EXCEPT ![s] = setting]
  BY <1>1 DEF Enter
<1>4. schedules' \in [Schedules -> Settings \cup {NoSchedule}] /\ cron' \subseteq Schedules
  BY <1>1, <1>3 DEF IInv, TypeOK, Entries
<1>5. lock = "free" /\ lock' \in {"free", "stuck"}
      /\ (lock' = "free" => setting.enabled /\ setting.kind = "fields")
  BY <1>1 DEF Enter, IInv, TypeOK
<1>6. lock' = "free" => \A c \in cron' : schedules'[c].enabled
  <2> SUFFICES ASSUME lock' = "free", NEW c \in cron'
               PROVE  schedules'[c].enabled
    OBVIOUS
  <2>1. New = {}
    <3>1. schedules'[s] = setting
      BY <1>3 DEF IInv, TypeOK
    <3> QED
      BY <3>1, <1>5 DEF Entries
  <2>2. c \in cron /\ schedules[c].enabled /\ c \in Schedules
    BY <2>1, <1>1, <1>5 DEF IInv, TypeOK
  <2>3. schedules \in [Schedules -> Settings \cup {NoSchedule}]
    BY DEF IInv, TypeOK
  <2>4. CASE c = s
    BY <2>2, <2>3, <2>4, <1>3, <1>5
  <2>5. CASE c # s
    BY <2>2, <2>3, <2>5, <1>3
  <2> QED
    BY <2>4, <2>5
<1> QED
  BY <1>2, <1>4, <1>5, <1>6, Elsewhere DEF IInv, TypeOK, SaverInv

LEMMA DeleteScheduleStep ==
  ASSUME IInv, NEW s \in Schedules, DeleteSchedule(s)
  PROVE  IInv'
<1>1. UNCHANGED <<jobs, snapshots, disk, made, adrift, saver, tmp, file, restarts>>
  BY DEF DeleteSchedule, store, files, rest
<1>2. schedules' \in [Schedules -> Settings \cup {NoSchedule}] /\ cron' \subseteq Schedules /\ lock' = "stuck"
  BY DEF DeleteSchedule, IInv, TypeOK
<1> QED
  BY <1>1, <1>2, Elsewhere DEF IInv, TypeOK, SaverInv

LEMMA DeleteSnapshotStep ==
  ASSUME IInv, NEW n \in DOMAIN made, DeleteSnapshot(n)
  PROVE  IInv'
<1>1. /\ UNCHANGED <<jobs, schedules, cron, made, saver, tmp, file, restarts>>
      /\ {n} \in SUBSET (snapshots \cap disk) /\ lock = "free" /\ lock' \in {lock, "stuck"}
  BY DEF DeleteSnapshot, plan, files, rest
<1>0. Deleted
  <2>1. \/ disk' = disk \ {n} /\ snapshots' = snapshots \ ({n} \ {}) /\ adrift' = adrift \cup {}
        \/ disk' = disk \ {n} /\ snapshots' = snapshots \ ({n} \ {n}) /\ adrift' = adrift \cup {n}
    BY DEF DeleteSnapshot
  <2>2. {} \in SUBSET {n} /\ {n} \in SUBSET {n}
    OBVIOUS
  <2> QED
    BY <2>1, <2>2, <1>1 DEF Deleted
<1>2. TypeOK /\ Grows
  BY <1>1 DEF IInv, Grows
<1>3. jobs' \in [JobIds -> Jobs'] /\ \A j \in JobIds : JobInv(jobs[j])'
  BY <1>1, <1>2, NoJobStep DEF IInv
<1>4. FollowInv'
  <2>1. Unrecorded' = Unrecorded /\ \A j \in Unrecorded : jobs'[j].took = jobs[j].took
    BY <1>1 DEF Unrecorded
  <2> QED
    BY <2>1, <1>0, FollowLess DEF IInv
<1>5. Contents' = Contents /\ Savers' = Savers
  BY <1>1 DEF Contents, Savers
<1>6. disk' \subseteq DOMAIN made' /\ snapshots' \subseteq DOMAIN made' /\ adrift' \subseteq DOMAIN made'
  BY <1>0, <1>1, <1>2 DEF Deleted, TypeOK
<1> QED
  BY <1>1, <1>2, <1>3, <1>4, <1>5, <1>6 DEF IInv, TypeOK, SaverInv

LEMMA SubmitStep ==
  ASSUME IInv, NEW by \in Owners, Submit(by, IF by = User THEN Manual ELSE Covers[by])
  PROVE  IInv'
<1> DEFINE todo == IF by = User THEN Manual ELSE Covers[by]
           x == [NoJob EXCEPT !.state = "pending", !.by = by, !.at = "start", !.todo = todo]
<1>1. PICK j \in JobIds : /\ jobs[j] = NoJob /\ jobs' = [jobs EXCEPT ![j] = x]
                          /\ UNCHANGED <<lock, schedules, cron, snapshots, disk, made, adrift, saver, tmp, file, restarts>>
  BY DEF Submit, plan, store, files, rest
<1>2. todo \in Seq(Subvolumes) /\ todo # <<>>
  BY DEF Owners
<1>3. NoJob \in Jobs /\ NoJob.took = {} /\ NoJob.at = "none"
  BY DEF NoJob, Jobs, Owners
<1>4. x \in Jobs /\ x.state = "pending" /\ x.by = by /\ x.at = "start" /\ x.todo = todo /\ x.took = {}
  <2> HIDE DEF todo
  <2> QED
    BY <1>2, <1>3 DEF Jobs
<1>5. JobInv(x)
  BY <1>2, <1>4 DEF JobInv, Asked
<1>6. x.took = jobs[j].took /\ x.at # "record" /\ jobs[j].at # "record"
  BY <1>1, <1>3, <1>4
<1>7. Deleted
  BY <1>1, NoneDeleted
<1>8. SaverInv'
  BY <1>1, <1>3, SaverKept DEF Saves
<1> HIDE DEF x
<1> QED
  BY <1>1, <1>4, <1>5, <1>6, <1>7, <1>8, JobMoves DEF IInv, TypeOK

------------------------------------------------------------------------------
(* The steps of a job.                                                         *)

LEMMA CancelStep ==
  ASSUME IInv, NEW j \in JobIds, CancelJob(j)
  PROVE  IInv'
<1> DEFINE x == [jobs[j] EXCEPT !.state = "canceled"]
<1>1. /\ jobs' = [jobs EXCEPT ![j] = x]
      /\ UNCHANGED <<lock, schedules, cron, snapshots, disk, made, adrift, saver, tmp, file, restarts>>
  BY DEF CancelJob, plan, store, files, rest
<1>2. jobs[j] \in Jobs /\ JobInv(jobs[j]) /\ jobs[j].state \in {"pending", "running"}
  BY DEF IInv, TypeOK, CancelJob
<1>3. /\ x \in Jobs /\ x.state = "canceled" /\ x.at = jobs[j].at /\ x.by = jobs[j].by
      /\ x.todo = jobs[j].todo /\ x.took = jobs[j].took
  BY <1>2 DEF Jobs
<1> HIDE DEF x
<1>4. JobInv(x)
  BY <1>2, <1>3 DEF JobInv, Asked, Parts, LastOf
<1>5. Deleted
  BY <1>1, NoneDeleted
<1>6. SaverInv'
  BY <1>1, <1>3, SaverKept
<1> QED
  BY <1>1, <1>3, <1>4, <1>5, <1>6, JobMoves DEF IInv, TypeOK

LEMMA NoJobIsJob == NoJob \in Jobs /\ NoJob.took = {}
BY DEF NoJob, Jobs, Owners

\* What a job that has failed is.
LEMMA FailedJob ==
  ASSUME NEW y \in Jobs
  PROVE  /\ Failed(y) \in Jobs /\ JobInv(Failed(y)) /\ Failed(y).at \in {"done", "note"}
         /\ Failed(y).by = y.by /\ (y.by # User => Failed(y).at = "note")
<1>1. NoJob \in Jobs /\ NoJob.took = {}
  BY NoJobIsJob
<1> DEFINE x == Failed(y)
<1>2. /\ x \in Jobs /\ x.state = "failed" /\ x.at \in {"done", "note"} /\ x.took = {}
      /\ x.by = y.by /\ (y.by # User => x.at = "note")
  BY <1>1 DEF Jobs, Failed, Ended
<1> HIDE DEF x
<1>3. JobInv(x)
  BY <1>2 DEF JobInv
<1> QED
  BY <1>2, <1>3 DEF x

LEMMA FailStep ==
  ASSUME IInv, NEW j \in JobIds, jobs[j].at \in {"start", "take"}, FailJob(j), UNCHANGED store
  PROVE  IInv'
<1> DEFINE x == Failed(jobs[j])
<1>1. /\ jobs' = [jobs EXCEPT ![j] = x]
      /\ UNCHANGED <<lock, schedules, cron, snapshots, disk, made, adrift, saver, tmp, file, restarts>>
  BY DEF FailJob, plan, store, files, rest
<1>2. jobs[j] \in Jobs
  BY DEF IInv, TypeOK
<1>3. x \in Jobs /\ JobInv(x) /\ x.at \in {"done", "note"}
  BY <1>2, FailedJob
<1> HIDE DEF x
<1>4. x.at # "record" /\ jobs[j].at # "record"
  BY <1>3
<1>5. Deleted
  BY <1>1, NoneDeleted
<1>6. SaverInv'
  BY <1>1, SaverKept DEF Saves
<1> QED
  BY <1>1, <1>3, <1>4, <1>5, <1>6, JobMoves DEF IInv, TypeOK

\* A job fails of which the agent has made the snapshot.
LEMMA LostStep ==
  ASSUME IInv, NEW j \in JobIds, jobs[j].at = "take", FailJob(j), Make(j), adrift' = adrift \cup {Len(made')}
  PROVE  IInv'
<1> DEFINE n == Len(made) + 1
           m == [subvol |-> Head(jobs[j].todo), by |-> jobs[j].by]
           x == Failed(jobs[j])
<1>1. jobs[j] \in Jobs /\ JobInv(jobs[j]) /\ made \in Seq(Snapshots) /\ Len(made) \in Nat /\ DOMAIN made = 1..Len(made)
  BY DEF IInv, TypeOK
<1>2. /\ jobs' = [jobs EXCEPT ![j] = x] /\ Len(made) < MaxSnapshots /\ made' = Append(made, m)
      /\ disk' = disk \cup {Len(made')} /\ adrift' = adrift \cup {Len(made')}
      /\ UNCHANGED <<lock, schedules, cron, snapshots, saver, tmp, file, restarts>>
  BY DEF FailJob, Make, plan, files, rest
<1>3. jobs[j].todo \in Seq(Subvolumes) /\ jobs[j].todo # <<>> /\ Head(jobs[j].todo) \in Subvolumes
  BY <1>1, HeadAndTail DEF Jobs, JobInv
<1>4. m \in Snapshots
  BY <1>1, <1>3 DEF Snapshots, Jobs
<1> HIDE DEF m
<1>5. Len(made') = n /\ DOMAIN made' = 1..n /\ n \notin DOMAIN made /\ DOMAIN made \subseteq DOMAIN made' /\ n \in DOMAIN made'
  BY <1>1, <1>2, <1>4
<1>6. TypeOK /\ Grows
  BY <1>2, <1>4 DEF IInv, Grows
<1>12. x \in Jobs /\ JobInv(x) /\ x.at \in {"done", "note"}
  BY <1>1, FailedJob
<1> HIDE DEF x, n
<1> SUFFICES ASSUME NEW z, z = x
             PROVE  IInv'
  OBVIOUS
<1>7. z \in Jobs' /\ JobInv(z)' /\ z.at \in {"done", "note"}
  <2>1. z \in Jobs /\ JobInv(z)
    BY <1>12
  <2>2. JobInv(z)'
    BY <2>1, <1>6, JobKept
  <2> QED
    BY <2>1, <2>2, <1>6, <1>12, Growth
<1>8. /\ jobs' \in [JobIds -> Jobs'] /\ (\A i \in JobIds : JobInv(jobs[i])')
      /\ jobs'[j] = z /\ \A i \in JobIds \ {j} : jobs'[i] = jobs[i]
  BY <1>2, <1>6, <1>7, JobStep DEF IInv
<1>9. FollowInv'
  <2>1. Unrecorded' = Unrecorded /\ \A i \in Unrecorded : i # j
    BY <1>7, <1>8 DEF Unrecorded
  <2>2. \A i \in Unrecorded : LastOf(jobs[i])' = LastOf(jobs[i])
    BY <2>1, <1>8 DEF LastOf, Unrecorded
  <2>3. \A k : Fresh(k)' <=> Fresh(k)
    BY <2>1, <2>2 DEF Fresh
  <2>4. disk' = disk \cup {n} /\ adrift' = adrift \cup {n} /\ snapshots' = snapshots
    BY <1>2, <1>5
  <2>5. Follows'
    BY <2>3, <2>4, FollowsIs DEF Follows, IInv, FollowInv
  <2>6. \A i \in Unrecorded' : LastOf(jobs[i])' \in disk' \ snapshots'
    BY <2>1, <2>2, <2>4 DEF IInv, FollowInv
  <2>7. \A i, k \in Unrecorded' : LastOf(jobs[i])' = LastOf(jobs[k])' => i = k
    BY <2>1, <2>2 DEF IInv, FollowInv
  <2> QED
    BY <2>5, <2>6, <2>7, FollowsIsPrime DEF FollowInv
<1>10. TypeOK'
  <2>1. made' \in Seq(Snapshots) /\ Len(made') <= MaxSnapshots
    BY <1>1, <1>2, <1>5, <1>6, Growth DEF n
  <2>2. disk' \subseteq DOMAIN made' /\ snapshots' \subseteq DOMAIN made' /\ adrift' \subseteq DOMAIN made'
    BY <1>2, <1>5, <1>6 DEF TypeOK
  <2>3. Contents \subseteq Contents' /\ Savers \subseteq Savers'
    BY <1>6, Growth
  <2>4. saver' \in [Threads -> Savers'] /\ tmp' \in Contents' /\ file' \in Contents'
    BY <1>2, <2>3 DEF IInv, TypeOK
  <2> QED
    BY <2>1, <2>2, <2>4, <1>2, <1>8 DEF IInv, TypeOK
<1>11. SaverInv'
  BY <1>2, SaverKept DEF Saves
<1> QED
  BY <1>8, <1>9, <1>10, <1>11 DEF IInv

LEMMA StartStep ==
  ASSUME IInv, NEW j \in JobIds, Start(j)
  PROVE  IInv'
<1>1. CASE FailJob(j) /\ UNCHANGED store
  BY <1>1, FailStep DEF Start
<1>2. CASE ~(FailJob(j) /\ UNCHANGED store)
  <2> DEFINE x == [jobs[j] EXCEPT !.state = "running", !.at = "take"]
  <2>1. /\ jobs[j].at = "start" /\ jobs' = [jobs EXCEPT ![j] = x]
        /\ UNCHANGED <<lock, schedules, cron, snapshots, disk, made, adrift, saver, tmp, file, restarts>>
    BY <1>2 DEF Start, plan, store, files, rest
  <2>2. jobs[j] \in Jobs /\ JobInv(jobs[j])
    BY DEF IInv, TypeOK
  <2>3. /\ x \in Jobs /\ x.state = "running" /\ x.at = "take" /\ x.by = jobs[j].by
        /\ x.todo = jobs[j].todo /\ x.took = jobs[j].took
    BY <2>2 DEF Jobs
  <2> HIDE DEF x
  <2>4. JobInv(x)
    <3>1. x.took = {} /\ x.todo # <<>> /\ x.todo = Asked(x)
      BY <2>1, <2>2, <2>3 DEF JobInv, Asked
    <3>2. Parts(x) = {}
      BY <3>1 DEF Parts
    <3> QED
      BY <2>3, <3>1, <3>2 DEF JobInv
  <2>5. Deleted
    BY <2>1, NoneDeleted
  <2>6. SaverInv'
    BY <2>1, SaverKept DEF Saves
  <2> QED
    BY <2>1, <2>3, <2>4, <2>5, <2>6, JobMoves DEF IInv, TypeOK
<1> QED
  BY <1>1, <1>2

LEMMA RetainStep ==
  ASSUME IInv, NEW j \in JobIds, Retain(j)
  PROVE  IInv'
<1> DEFINE x == [jobs[j] EXCEPT !.state = "succeeded", !.at = "save"]
<1>1. /\ jobs[j].at = "retain" /\ jobs' = [jobs EXCEPT ![j] = x]
      /\ UNCHANGED <<lock, schedules, cron, made, saver, tmp, file, restarts>>
  BY DEF Retain, plan, files, rest
<1>2. Deleted
  <2>1. CASE jobs[j].by = User
    BY <2>1, NoneDeleted DEF Retain
  <2>2. CASE jobs[j].by # User
    BY <2>2, RetentionDeletes DEF Retain
  <2> QED
    BY <2>1, <2>2
<1>3. jobs[j] \in Jobs /\ JobInv(jobs[j])
  BY DEF IInv, TypeOK
<1>4. /\ x \in Jobs /\ x.state = "succeeded" /\ x.at = "save" /\ x.by = jobs[j].by /\ x.took = jobs[j].took
  BY <1>3 DEF Jobs, Ended
<1> HIDE DEF x
<1>5. JobInv(x)
  BY <1>1, <1>3, <1>4 DEF JobInv, Asked, Parts
<1>6. SaverInv'
  BY <1>1, SaverKept DEF Saves
<1> QED
  BY <1>1, <1>2, <1>4, <1>5, <1>6, JobMoves DEF IInv, TypeOK

LEMMA NoteStep ==
  ASSUME IInv, NEW j \in JobIds, Note(j)
  PROVE  IInv'
<1> DEFINE x == [jobs[j] EXCEPT !.at = "save again"]
<1>1. /\ jobs[j].at = "note" /\ jobs' = [jobs EXCEPT ![j] = x]
      /\ UNCHANGED <<lock, schedules, cron, snapshots, disk, made, adrift, saver, tmp, file, restarts>>
  BY DEF Note, plan, store, files, rest
<1>2. jobs[j] \in Jobs /\ JobInv(jobs[j])
  BY DEF IInv, TypeOK
<1>3. /\ x \in Jobs /\ x.state = jobs[j].state /\ x.at = "save again" /\ x.by = jobs[j].by /\ x.took = jobs[j].took
  BY <1>2 DEF Jobs
<1> HIDE DEF x
<1>4. JobInv(x)
  BY <1>2, <1>3 DEF JobInv, Asked, Parts
<1>5. Deleted
  BY <1>1, NoneDeleted
<1>6. SaverInv'
  BY <1>1, SaverKept DEF Saves
<1> QED
  BY <1>1, <1>3, <1>4, <1>5, <1>6, JobMoves DEF IInv, TypeOK

\* The snapshot that a job makes is new to all.
LEMMA TakeStep ==
  ASSUME IInv, NEW j \in JobIds, Take(j)
  PROVE  IInv'
<1>1. CASE FailJob(j) /\ UNCHANGED store
  BY <1>1, FailStep DEF Take
<1>3. CASE FailJob(j) /\ Make(j) /\ adrift' = adrift \cup {Len(made')}
  BY <1>3, LostStep DEF Take
<1>2. CASE Made(j)
  <2> DEFINE n == Len(made) + 1
             m == [subvol |-> Head(jobs[j].todo), by |-> jobs[j].by]
             z == [jobs[j] EXCEPT !.at = "record", !.took = jobs[j].took \cup {n}]
  <2>1. jobs[j] \in Jobs /\ JobInv(jobs[j]) /\ made \in Seq(Snapshots) /\ Len(made) \in Nat /\ DOMAIN made = 1..Len(made)
    BY DEF IInv, TypeOK
  <2>2. /\ jobs[j].at = "take" /\ Len(made) < MaxSnapshots
        /\ made' = Append(made, m) /\ disk' = disk \cup {Len(made')}
        /\ jobs' = [jobs EXCEPT ![j] = [jobs[j] EXCEPT !.at = "record", !.took = jobs[j].took \cup {Len(made')}]]
        /\ UNCHANGED <<lock, schedules, cron, snapshots, adrift, saver, tmp, file, restarts>>
    BY <1>2 DEF Take, Made, Make, plan, files, rest
  <2>3. jobs[j].todo \in Seq(Subvolumes) /\ jobs[j].todo # <<>> /\ Head(jobs[j].todo) \in Subvolumes
    BY <2>1, <2>2, HeadAndTail DEF Jobs, JobInv
  <2>4. m \in Snapshots
    BY <2>1, <2>3 DEF Snapshots, Jobs
  <2> HIDE DEF m
  <2>5. Len(made') = n /\ DOMAIN made' = 1..n /\ made'[n] = m /\ \A k \in DOMAIN made : made'[k] = made[k]
    BY <2>1, <2>2, <2>4
  <2>6. jobs' = [jobs EXCEPT ![j] = z]
    BY <2>2, <2>5
  <2>7. /\ z.state = jobs[j].state /\ z.by = jobs[j].by /\ z.at = "record" /\ z.todo = jobs[j].todo
        /\ z.took = jobs[j].took \cup {n}
    BY <2>1 DEF Jobs
  <2>8. z \in Jobs'
    <3>1. jobs[j].took \cup {n} \in SUBSET DOMAIN made'
      <4>1. 1..Len(made) \subseteq 1..n /\ n \in 1..n
        BY <2>1
      <4>2. jobs[j].took \subseteq 1..Len(made)
        BY <2>1 DEF Jobs
      <4> QED
        BY <4>1, <4>2, <2>5
    <3> QED
      BY <3>1, <2>1 DEF Jobs
  <2> HIDE DEF z
  <2> SUFFICES ASSUME NEW x, x = z
               PROVE  IInv'
    OBVIOUS
  <2>9. TypeOK /\ Grows
    BY <2>2, <2>4 DEF IInv, Grows
  <2>10. Max(x.took) = n
    BY <2>1, <2>7, NewIsLast DEF Jobs
  <2>11. JobInv(x)'
    <3>1. Parts(x)' = Parts(jobs[j]) \cup {m.subvol}
      <4>1. jobs[j].took \subseteq DOMAIN made
        BY <2>1 DEF Jobs
      <4>2. x.took = jobs[j].took \cup {n} /\ \A k \in jobs[j].took : made'[k] = made[k]
        BY <4>1, <2>5, <2>7
      <4>3. Parts(x)' = {made'[k].subvol : k \in jobs[j].took} \cup {made'[n].subvol}
        BY <4>2 DEF Parts
      <4>4. {made'[k].subvol : k \in jobs[j].took} = Parts(jobs[j])
        BY <4>2 DEF Parts
      <4> QED
        BY <4>3, <4>4, <2>5
    <3>2. m.subvol = Head(x.todo) /\ m.subvol \in Range(x.todo)
      BY <2>3, <2>7, HeadAndTail DEF m
    <3>3. Parts(jobs[j]) \cup Range(x.todo) = Range(Asked(x)) /\ x.todo # <<>> /\ x.state # "succeeded"
      BY <2>1, <2>2, <2>7 DEF JobInv, Asked
    <3> QED
      BY <3>1, <3>2, <3>3, <2>5, <2>7, <2>10 DEF JobInv, LastOf, Asked
  <2>12. /\ jobs' \in [JobIds -> Jobs'] /\ (\A i \in JobIds : JobInv(jobs[i])')
         /\ jobs'[j] = x /\ \A i \in JobIds \ {j} : jobs'[i] = jobs[i]
    BY <2>6, <2>8, <2>9, <2>11, JobStep DEF IInv
  <2>13. FollowInv'
    <3>1. Unrecorded' = Unrecorded \cup {j} /\ j \notin Unrecorded
      BY <2>2, <2>7, <2>12 DEF Unrecorded
    <3>2. LastOf(jobs[j])' = n /\ \A i \in Unrecorded : LastOf(jobs[i])' = LastOf(jobs[i])
      BY <3>1, <2>10, <2>12 DEF LastOf, Unrecorded
    <3>3. \A i \in Unrecorded : LastOf(jobs[i]) \in disk \ snapshots /\ LastOf(jobs[i]) # n
      BY <2>1 DEF IInv, TypeOK, FollowInv
    <3>4. n \notin snapshots /\ disk' = disk \cup {n} /\ snapshots' = snapshots /\ adrift' = adrift
      BY <2>1, <2>2, <2>5 DEF IInv, TypeOK
    <3>5. \A k : Fresh(k)' <=> Fresh(k) \/ k = n
      BY <3>1, <3>2 DEF Fresh
    <3>6. Follows'
      BY <3>4, <3>5, FollowsIs DEF Follows, IInv, FollowInv
    <3>8. \A i \in Unrecorded' : LastOf(jobs[i])' \in disk' \ snapshots'
      BY <3>1, <3>2, <3>3, <3>4
    <3>9. \A i, k \in Unrecorded' : LastOf(jobs[i])' = LastOf(jobs[k])' => i = k
      BY <3>1, <3>2, <3>3 DEF IInv, FollowInv
    <3> QED
      BY <3>6, <3>8, <3>9, FollowsIsPrime DEF FollowInv
  <2>14. TypeOK'
    <3>1. made' \in Seq(Snapshots) /\ Len(made') <= MaxSnapshots
      BY <2>1, <2>2, <2>5, <2>9, Growth
    <3>2. disk' \subseteq DOMAIN made' /\ snapshots' \subseteq DOMAIN made' /\ adrift' \subseteq DOMAIN made'
      BY <2>1, <2>2, <2>5 DEF IInv, TypeOK
    <3>3. Contents \subseteq Contents' /\ Savers \subseteq Savers'
      BY <2>9, Growth
    <3>4. saver' \in [Threads -> Savers'] /\ tmp' \in Contents' /\ file' \in Contents'
      BY <2>2, <3>3 DEF IInv, TypeOK
    <3> QED
      BY <3>1, <3>2, <3>4, <2>2, <2>12 DEF IInv, TypeOK
  <2>15. SaverInv'
    BY <2>2, <2>6, SaverKept DEF Saves
  <2> QED
    BY <2>12, <2>13, <2>14, <2>15 DEF IInv
<1> QED
  BY <1>1, <1>2, <1>3 DEF Take

LEMMA RecordStep ==
  ASSUME IInv, NEW j \in JobIds, Record(j)
  PROVE  IInv'
<1> DEFINE next == IF Len(jobs[j].todo) > 1 THEN "take" ELSE "retain"
           z == [jobs[j] EXCEPT !.at = next, !.todo = Tail(jobs[j].todo)]
<1>1. /\ jobs[j].at = "record" /\ jobs' = [jobs EXCEPT ![j] = z]
      /\ snapshots' = snapshots \cup {LastOf(jobs[j])}
      /\ UNCHANGED <<lock, schedules, cron, disk, made, adrift, saver, tmp, file, restarts>>
  BY DEF Record, LastOf, plan, files, rest
<1>2. jobs[j] \in Jobs /\ JobInv(jobs[j]) /\ TypeOK /\ Grows
  BY <1>1 DEF IInv, TypeOK, Grows
<1>3. jobs[j].todo \in Seq(Subvolumes) /\ jobs[j].todo # <<>>
  BY <1>1, <1>2 DEF Jobs, JobInv
<1>4. /\ Tail(jobs[j].todo) \in Seq(Subvolumes)
      /\ Range(jobs[j].todo) = {Head(jobs[j].todo)} \cup Range(Tail(jobs[j].todo))
      /\ Len(jobs[j].todo) > 1 <=> Tail(jobs[j].todo) # <<>>
      /\ Tail(jobs[j].todo) = <<>> => Range(Tail(jobs[j].todo)) = {}
  BY <1>3, HeadAndTail
<1>5. (next = "take" /\ Tail(jobs[j].todo) # <<>>) \/ (next = "retain" /\ Range(Tail(jobs[j].todo)) = {})
  BY <1>4
<1> HIDE DEF next
<1>6. /\ z \in Jobs /\ z.state = jobs[j].state /\ z.at = next /\ z.by = jobs[j].by
      /\ z.todo = Tail(jobs[j].todo) /\ z.took = jobs[j].took
  BY <1>2, <1>4, <1>5 DEF Jobs
<1> HIDE DEF z
<1> SUFFICES ASSUME NEW x, x = z
             PROVE  IInv'
  OBVIOUS
<1>7. JobInv(x)
  <2>1. Parts(x) = Parts(jobs[j]) /\ Asked(x) = Asked(jobs[j])
    BY <1>6 DEF Parts, Asked
  <2>2. Head(jobs[j].todo) \in Parts(jobs[j])
    BY <1>1, <1>2 DEF JobInv, Parts
  <2>3. Parts(x) \cup Range(x.todo) = Range(Asked(x)) /\ x.state # "succeeded"
    BY <2>1, <2>2, <1>1, <1>2, <1>4, <1>6 DEF JobInv
  <2> QED
    BY <2>3, <1>5, <1>6 DEF JobInv
<1>8. /\ jobs' \in [JobIds -> Jobs'] /\ (\A i \in JobIds : JobInv(jobs[i])')
      /\ jobs'[j] = x /\ \A i \in JobIds \ {j} : jobs'[i] = jobs[i]
  <2>1. x \in Jobs' /\ JobInv(x)'
    BY <1>1, <1>2, <1>6, <1>7, JobKept DEF Jobs
  <2> QED
    BY <2>1, <1>1, <1>2, JobStep DEF IInv
<1>9. FollowInv'
  <2>1. Unrecorded' = Unrecorded \ {j} /\ j \in Unrecorded
    BY <1>1, <1>5, <1>6, <1>8 DEF Unrecorded
  <2>2. \A i \in Unrecorded \ {j} : LastOf(jobs[i])' = LastOf(jobs[i])
    BY <1>8 DEF LastOf, Unrecorded
  <2>3. /\ \A i \in Unrecorded : LastOf(jobs[i]) \in disk \ snapshots
        /\ \A i, k \in Unrecorded : LastOf(jobs[i]) = LastOf(jobs[k]) => i = k
    BY DEF IInv, FollowInv
  <2>4. \A k : Fresh(k) <=> Fresh(k)' \/ k = LastOf(jobs[j])
    BY <2>1, <2>2 DEF Fresh
  <2>5. LastOf(jobs[j]) \in disk
    BY <2>1, <2>3
  <2>6. Follows'
    BY <2>4, <2>5, <1>1, FollowsIs DEF Follows, IInv, FollowInv
  <2>7. \A i \in Unrecorded' : LastOf(jobs[i])' \in disk' \ snapshots'
    BY <2>1, <2>2, <2>3, <1>1
  <2>8. \A i, k \in Unrecorded' : LastOf(jobs[i])' = LastOf(jobs[k])' => i = k
    BY <2>1, <2>2, <2>3
  <2> QED
    BY <2>6, <2>7, <2>8, FollowsIsPrime DEF FollowInv
<1>10. LastOf(jobs[j]) \in DOMAIN made
  BY <1>1, <1>2 DEF JobInv, Jobs
<1>11. Contents' = Contents /\ Savers' = Savers
  BY <1>1 DEF Contents, Savers
<1>12. SaverInv'
  BY <1>1, SaverKept DEF Saves
<1> QED
  BY <1>1, <1>8, <1>9, <1>10, <1>11, <1>12 DEF IInv, TypeOK

------------------------------------------------------------------------------
(* The sweep, the saves and restarts.                                          *)

LEMMA SweepStep ==
  ASSUME IInv, SweepRetains
  PROVE  IInv'
<1>1. UNCHANGED <<jobs, lock, schedules, cron, made, tmp, file, restarts>>
  BY DEF SweepRetains, plan, files
<1>2. Deleted
  BY RetentionDeletes DEF SweepRetains
<1>3. TypeOK /\ Grows
  BY <1>1 DEF IInv, Grows
<1>4. jobs' \in [JobIds -> Jobs'] /\ \A j \in JobIds : JobInv(jobs[j])'
  BY <1>1, <1>3, NoJobStep DEF IInv
<1>5. FollowInv'
  <2>1. Unrecorded' = Unrecorded /\ \A j \in Unrecorded : jobs'[j].took = jobs[j].took
    BY <1>1 DEF Unrecorded
  <2> QED
    BY <2>1, <1>1, <1>2, FollowLess DEF IInv
<1>6. Contents' = Contents /\ Savers' = Savers
  BY <1>1 DEF Contents, Savers
<1>7. Sweep \in Threads /\ \A j \in JobIds : j # Sweep /\ j \in Threads
  BY DEF Sweep, JobIds, Threads
<1>8. saver' \in [Threads -> Savers] /\ \A j \in JobIds : saver'[j] = saver[j]
  <2>1. [saver[Sweep] EXCEPT !.at = "save"] \in Savers
    <3>1. saver[Sweep] \in Savers
      BY <1>3, <1>7 DEF TypeOK
    <3> QED
      BY <3>1 DEF Savers
  <2> QED
    BY <2>1, <1>3, <1>7 DEF SweepRetains, TypeOK
<1>9. SaverInv'
  BY <1>1, <1>8 DEF IInv, SaverInv
<1>10. disk' \subseteq DOMAIN made' /\ snapshots' \subseteq DOMAIN made' /\ adrift' \subseteq DOMAIN made'
  BY <1>1, <1>2, <1>3 DEF Deleted, TypeOK
<1> QED
  BY <1>1, <1>3, <1>4, <1>5, <1>6, <1>8, <1>9, <1>10 DEF IInv, TypeOK

\* The state as it is read is a content of the file.
LEMMA MemoryIsContent ==
  ASSUME TypeOK
  PROVE  Memory \in Contents /\ NoFile \in Contents /\ Torn \in Contents
<1>1. NoFile \in Contents
  BY DEF NoFile, Contents, NoSchedule
<1>2. Torn \in Contents
  BY <1>1 DEF Torn, Contents
<1> QED
  BY <1>1, <1>2 DEF TypeOK, Memory, Contents

\* One thread goes on with its save, and no job changes.
LEMMA SaveStep ==
  ASSUME IInv, NEW t \in Threads, NEW y \in Savers, saver' = [saver EXCEPT ![t] = y],
         t \in JobIds => saver[t].at # "idle" \/ jobs[t].at \in Saves,
         tmp' \in Contents, file' \in Contents,
         UNCHANGED <<jobs, snapshots, disk, made, adrift, lock, schedules, cron, restarts>>
  PROVE  IInv'
<1>1. saver' \in [Threads -> Savers] /\ \A u \in Threads : saver'[u] = IF u = t THEN y ELSE saver[u]
  BY DEF IInv, TypeOK
<1>2. SaverInv'
  BY <1>1 DEF IInv, SaverInv, JobIds, Threads
<1> QED
  BY <1>1, <1>2, Elsewhere DEF IInv, TypeOK

LEMMA SavingStep ==
  ASSUME IInv, NEW t \in Threads, ReadLock(t) \/ Open(t) \/ Write(t)
  PROVE  IInv'
<1>1. TypeOK /\ saver[t] \in Savers /\ saver \in [Threads -> Savers]
  BY DEF IInv, TypeOK
<1>2. Memory \in Contents /\ NoFile \in Contents /\ Torn \in Contents
  BY <1>1, MemoryIsContent
<1>3. CASE ReadLock(t)
  <2> DEFINE y == [saver[t] EXCEPT !.at = "read"]
  <2>1. /\ saver' = [saver EXCEPT ![t] = y]
        /\ UNCHANGED <<tmp, file, jobs, snapshots, disk, made, adrift, lock, schedules, cron, restarts>>
    BY <1>3 DEF ReadLock, plan, store, rest
  <2>2. y \in Savers
    BY <1>1 DEF Savers
  <2>3. t \in JobIds => jobs[t].at \in Saves
    <3>1. t \in JobIds => t # Sweep
      BY DEF JobIds, Sweep
    <3> QED
      BY <3>1, <1>3 DEF ReadLock, Wants, Saves
  <2> HIDE DEF y
  <2> QED
    BY <2>1, <2>2, <2>3, <1>1, SaveStep DEF TypeOK
<1>4. CASE Open(t)
  <2> DEFINE y == [at |-> "write", data |-> Memory, fd |-> "tmp"]
  <2>1. /\ saver' = [saver EXCEPT ![t] = y] /\ saver[t].at = "read" /\ tmp' = Torn
        /\ UNCHANGED <<file, jobs, snapshots, disk, made, adrift, lock, schedules, cron, restarts>>
    BY <1>4 DEF Open, plan, store, rest
  <2>2. y \in Savers
    BY <1>2 DEF Savers
  <2> HIDE DEF y
  <2> QED
    BY <2>1, <2>2, <1>1, <1>2, SaveStep DEF TypeOK
<1>5. CASE Write(t)
  <2> DEFINE y == [at |-> "rename", data |-> NoFile, fd |-> "lost"]
  <2>1. /\ saver' = [saver EXCEPT ![t] = y] /\ saver[t].at = "write"
        /\ tmp' \in {tmp, saver[t].data} /\ file' \in {file, saver[t].data}
        /\ UNCHANGED <<jobs, snapshots, disk, made, adrift, lock, schedules, cron, restarts>>
    BY <1>5 DEF Write, plan, store, rest
  <2>2. y \in Savers /\ saver[t].data \in Contents
    BY <1>1, <1>2 DEF Savers
  <2> HIDE DEF y
  <2>3. tmp' \in Contents /\ file' \in Contents
    BY <2>1, <2>2, <1>1 DEF TypeOK
  <2> QED
    BY <2>1, <2>2, <2>3, SaveStep
<1> QED
  BY <1>3, <1>4, <1>5

\* A save ends, well or not.
LEMMA RenameStep ==
  ASSUME IInv, NEW t \in Threads, Rename(t) \/ FailSave(t)
  PROVE  IInv'
<1>1. TypeOK /\ saver \in [Threads -> Savers] /\ jobs \in [JobIds -> Jobs]
  BY DEF IInv, TypeOK
<1>2. /\ saver[t].at # "idle" /\ AfterSave(t)
      /\ tmp' \in {tmp, NoFile, Torn} /\ file' \in {file, tmp, Torn}
      /\ UNCHANGED <<snapshots, disk, made, adrift, lock, schedules, cron, restarts>>
  BY DEF Rename, FailSave, plan, store, rest
<1>3. tmp' \in Contents /\ file' \in Contents /\ Idle \in Savers
  BY <1>1, <1>2, MemoryIsContent DEF TypeOK, Idle, Savers
<1>4. \/ saver' = [u \in Threads |-> IF u = t THEN Idle ELSE [saver[u] EXCEPT !.fd = Moved(@)]]
      \/ saver' = [saver EXCEPT ![t] = Idle]
  BY DEF Rename, FailSave
<1>5. \A u \in Threads : /\ [saver[u] EXCEPT !.fd = Moved(@)] \in Savers
                         /\ [saver[u] EXCEPT !.fd = Moved(@)].at = saver[u].at
  BY ZenonT(30), <1>1 DEF Savers, Moved
<1>6. saver' \in [Threads -> Savers] /\ saver'[t].at = "idle" /\ \A u \in Threads \ {t} : saver'[u].at = saver[u].at
  <2>1. Idle.at = "idle"
    BY DEF Idle
  <2>2. CASE saver' = [saver EXCEPT ![t] = Idle]
    BY <2>1, <2>2, <1>1, <1>3
  <2>3. CASE saver' = [u \in Threads |-> IF u = t THEN Idle ELSE [saver[u] EXCEPT !.fd = Moved(@)]]
    BY <2>1, <2>3, <1>3, <1>5
  <2> QED
    BY <2>2, <2>3, <1>4
<1>7. CASE t = Sweep
  <2>1. jobs' = jobs /\ t \notin JobIds
    BY <1>2, <1>7 DEF AfterSave, JobIds, Sweep
  <2>2. SaverInv'
    BY <2>1, <1>6 DEF IInv, SaverInv, Threads
  <2> QED
    BY <2>1, <2>2, <1>1, <1>2, <1>3, <1>6, Elsewhere DEF IInv, TypeOK
<1>8. CASE t # Sweep
  <2> DEFINE next == IF jobs[t].at = "save" /\ jobs[t].by # User THEN "note" ELSE "done"
             x == [jobs[t] EXCEPT !.at = next]
  <2>1. t \in JobIds /\ jobs' = [jobs EXCEPT ![t] = x]
    BY <1>2, <1>8 DEF AfterSave, Threads
  <2>2. next \in {"note", "done"}
    OBVIOUS
  <2> HIDE DEF next
  <2>3. /\ x \in Jobs /\ x.at = next /\ x.state = jobs[t].state /\ x.by = jobs[t].by /\ x.took = jobs[t].took
    BY ZenonT(30), <1>1, <2>1, <2>2 DEF Jobs
  <2>4. \A i \in JobIds \ {t} : jobs'[i] = jobs[i]
    BY <1>1, <2>1
  <2> HIDE DEF x
  <2>5. jobs[t].at \in Saves /\ JobInv(jobs[t])
    BY <1>2, <2>1 DEF IInv, SaverInv
  <2>6. JobInv(x)
    BY <2>2, <2>3, <2>5 DEF JobInv, Asked, Parts
  <2>7. SaverInv'
    BY <1>6, <2>1, <2>4 DEF IInv, SaverInv, Threads
  <2>8. Deleted
    BY <1>2, NoneDeleted
  <2>9. x.at = "record" <=> jobs[t].at = "record"
    BY <2>2, <2>3, <2>5 DEF Saves
  <2> QED
    BY <2>1, <2>3, <2>6, <2>7, <2>8, <2>9, <1>1, <1>2, <1>3, <1>6, JobMoves DEF IInv, TypeOK
<1> QED
  BY <1>7, <1>8

LEMMA RestartStep ==
  ASSUME IInv, Restart
  PROVE  IInv'
<1>1. TypeOK /\ made \in Seq(Snapshots) /\ file \in Contents
  BY DEF IInv, TypeOK
<1>2. /\ lock' = "free" /\ UNCHANGED <<disk, made, tmp, file>>
      /\ schedules' = file.schedules /\ snapshots' = file.snapshots
      /\ cron' = Entries(file.schedules)
      /\ adrift' = adrift \cup (file.snapshots \ disk) \cup (disk \ file.snapshots)
      /\ saver' = [t \in Threads |-> Idle]
  BY DEF Restart
<1>3. restarts' \in 0..MaxRestarts
  BY <1>1 DEF Restart, TypeOK
<1>4. Contents' = Contents /\ Savers' = Savers /\ Jobs' = Jobs
  BY <1>2 DEF Contents, Savers, Jobs
<1>5. Idle \in Savers
  BY <1>1, MemoryIsContent DEF Idle, Savers
<1>6. /\ schedules' \in [Schedules -> Settings \cup {NoSchedule}] /\ snapshots' \subseteq DOMAIN made'
      /\ cron' \subseteq Schedules /\ \A s \in cron' : schedules'[s].enabled
      /\ adrift' \subseteq DOMAIN made'
  BY <1>1, <1>2 DEF Contents, Entries, TypeOK
<1>7. NoJob \in Jobs /\ NoJob.at = "none" /\ NoJob.state = "none"
  BY DEF NoJob, Jobs, Owners
<1>8. \A j \in JobIds : jobs'[j] \in Jobs /\ jobs'[j].at = "none" /\ jobs'[j].state # "succeeded"
  <2> SUFFICES ASSUME NEW j \in JobIds
               PROVE  jobs'[j] \in Jobs /\ jobs'[j].at = "none" /\ jobs'[j].state # "succeeded"
    OBVIOUS
  <2>1. jobs'[j] = NoJob \/ jobs'[j] = [NoJob EXCEPT !.state = "gone"]
    BY DEF Restart
  <2> QED
    BY <2>1, <1>7 DEF Jobs
<1>9. jobs' \in [JobIds -> Jobs']
  <2>1. jobs' = [j \in JobIds |-> jobs'[j]]
    BY DEF Restart
  <2> QED
    BY <2>1, <1>4, <1>8
<1>10. \A j \in JobIds : JobInv(jobs[j])'
  BY <1>8 DEF JobInv
<1>11. FollowInv'
  <2>1. Unrecorded' = {}
    BY <1>8 DEF Unrecorded
  <2>2. Follows'
    BY <1>2 DEF Follows
  <2> QED
    BY <2>1, <2>2, FollowsIsPrime DEF FollowInv
<1>12. SaverInv'
  BY <1>2 DEF SaverInv, Idle, Threads
<1>13. TypeOK'
  BY <1>1, <1>2, <1>3, <1>4, <1>5, <1>6, <1>9, MemoryIsContent DEF TypeOK
<1> QED
  BY <1>10, <1>11, <1>12, <1>13 DEF IInv

------------------------------------------------------------------------------
LEMMA INext == IInv /\ [Next]_vars => IInv'
<1> SUFFICES ASSUME IInv, [Next]_vars
             PROVE  IInv'
  OBVIOUS
<1>1. ASSUME NEW s \in Schedules, Fire(s)
      PROVE  IInv'
  BY <1>1, SubmitStep DEF Fire, Owners
<1>2. CASE CreateSnapshot
  BY <1>2, SubmitStep DEF CreateSnapshot, Owners
<1>3. ASSUME NEW j \in Threads, Save(j)
      PROVE  IInv'
  BY <1>3, SavingStep, RenameStep DEF Save
<1>4. ASSUME NEW j \in JobIds, Run(j)
      PROVE  IInv'
  BY <1>3, <1>4, StartStep, TakeStep, RecordStep, RetainStep, NoteStep DEF Run, Threads
<1>5. CASE UNCHANGED vars
  <2>1. UNCHANGED <<jobs, snapshots, disk, made, adrift, lock, schedules, cron, restarts, saver, tmp, file>>
    BY <1>5 DEF vars
  <2> QED
    BY <2>1, Elsewhere DEF IInv, TypeOK, SaverInv
<1>6. Sweep \in Threads
  BY DEF Threads
<1> QED
  BY <1>1, <1>2, <1>3, <1>4, <1>5, <1>6, EnterStep, DeleteScheduleStep, DeleteSnapshotStep, SweepStep,
     RestartStep, CancelStep DEF Next

LEMMA Invariant == Spec => []IInv
BY IInit, INext, PTL DEF Spec

\* Whatever fails and whoever saves, the state stays of its type: no record of a
\* snapshot that was never made, in memory or in a file.
THEOREM TypeCorrect == Spec => []TypeOK
<1>1. IInv => TypeOK
  BY DEF IInv
<1> QED
  BY <1>1, Invariant, PTL

\* A job that is shown as succeeded has made a snapshot of each of its subvolumes.
THEOREM SuccessIsComplete == Spec => []SucceededIsComplete
<1>1. IInv => SucceededIsComplete
  BY DEF IInv, JobInv, SucceededIsComplete, Parts, Asked
<1> QED
  BY <1>1, Invariant, PTL

\* A snapshot is on the disk just if it is recorded or about to be: but for those of
\* which an answer was lost, and those that nosd has started with a wrong record of.
THEOREM DiskIsRecorded == Spec => []RecordsFollowDisk
<1>1. IInv => RecordsFollowDisk
  BY DEF IInv, FollowInv
<1> QED
  BY <1>1, Invariant, PTL

------------------------------------------------------------------------------
(* The state file.                                                             *)

\* What does not touch the saves, and either leaves what is in memory to a save to
\* come, or leaves all as it was.
LEMMA SavedKept ==
  ASSUME SavedInv, UNCHANGED <<saver, tmp, file, raced>>,
         \/ lock' # "free" \/ unsaved'
         \/ \E t \in Threads : WillSave(t)'
         \/ /\ UNCHANGED <<lock, schedules, snapshots>> /\ (~unsaved' => ~unsaved)
            /\ \A t \in Threads : WillSave(t) => WillSave(t)'
  PROVE  SavedInv'
<1>1. Alone'
  BY DEF SavedInv, Alone, Saving
<1>2. CASE \E t \in Threads : WillSave(t)'
  BY <1>1, <1>2 DEF SavedInv, Saved
<1>3. CASE /\ UNCHANGED <<lock, schedules, snapshots>> /\ (~unsaved' => ~unsaved)
           /\ \A t \in Threads : WillSave(t) => WillSave(t)'
  BY <1>1, <1>3 DEF SavedInv, Saved, Memory, HasMemory, Saving
<1> QED
  BY <1>1, <1>2, <1>3 DEF SavedInv

LEMMA SavedByRequests ==
  ASSUME IInv, SavedInv,
         \/ \E s \in Schedules : DeleteSchedule(s) \/ Fire(s)
         \/ \E s \in Schedules, setting \in Settings : CreateSchedule(s, setting) \/ UpdateSchedule(s, setting)
         \/ \E n \in DOMAIN made : DeleteSnapshot(n)
         \/ CreateSnapshot
         \/ \E j \in JobIds : CancelJob(j)
  PROVE  SavedInv'
<1>0. jobs \in [JobIds -> Jobs] /\ \A j \in JobIds : j # Sweep /\ j \in Threads
  BY DEF IInv, TypeOK, JobIds, Sweep, Threads
<1>1. ASSUME NEW s \in Schedules, NEW setting \in Settings, Enter(s, setting)
      PROVE  SavedInv'
  <2>1. UNCHANGED <<saver, tmp, file, raced>> /\ (unsaved' \/ lock' # "free")
    BY <1>1 DEF Enter, files
  <2> QED
    BY <2>1, SavedKept
<1>2. ASSUME NEW s \in Schedules, DeleteSchedule(s)
      PROVE  SavedInv'
  <2>1. UNCHANGED <<saver, tmp, file, raced>> /\ lock' # "free"
    BY <1>2 DEF DeleteSchedule, files
  <2> QED
    BY <2>1, SavedKept
<1>3. ASSUME NEW n \in DOMAIN made, DeleteSnapshot(n)
      PROVE  SavedInv'
  <2>1. UNCHANGED <<saver, tmp, file, raced, schedules, jobs, unsaved>>
        /\ (lock' # "free" \/ UNCHANGED <<lock, snapshots>>)
    BY <1>3 DEF DeleteSnapshot, plan, files
  <2>2. \A t \in Threads : WillSave(t) => WillSave(t)'
    BY <2>1 DEF WillSave
  <2> QED
    BY <2>1, <2>2, SavedKept
<1>4. ASSUME NEW by, NEW todo, Submit(by, todo)
      PROVE  SavedInv'
  <2>1. PICK j \in JobIds : /\ jobs[j] = NoJob /\ \A i \in JobIds \ {j} : jobs'[i] = jobs[i]
                            /\ UNCHANGED <<saver, tmp, file, raced, lock, schedules, snapshots, unsaved>>
    BY <1>0, <1>4 DEF Submit, plan, store, files
  <2>2. ~WillSave(j)
    BY <1>0, <2>1 DEF WillSave, NoJob, Saves
  <2>3. \A t \in Threads : WillSave(t) => WillSave(t)'
    BY <2>1, <2>2 DEF WillSave, Threads
  <2> QED
    BY <2>1, <2>3, SavedKept
<1>5. ASSUME NEW j \in JobIds, CancelJob(j)
      PROVE  SavedInv'
  <2>1. UNCHANGED <<saver, tmp, file, raced, lock, schedules, snapshots, unsaved>>
    BY <1>5 DEF CancelJob, plan, store, files
  <2>2. \A i \in JobIds : jobs'[i].at = jobs[i].at /\ jobs'[i].by = jobs[i].by /\ jobs'[i].took = jobs[i].took
    <3> DEFINE x == [jobs[j] EXCEPT !.state = "canceled"]
    <3>1. jobs' = [jobs EXCEPT ![j] = x]
      BY <1>5 DEF CancelJob
    <3>2. x.at = jobs[j].at /\ x.by = jobs[j].by /\ x.took = jobs[j].took
      BY <1>0 DEF Jobs
    <3> HIDE DEF x
    <3> QED
      BY <1>0, <3>1, <3>2
  <2>3. \A t \in Threads : WillSave(t) => WillSave(t)'
    BY <2>1, <2>2 DEF WillSave, Threads
  <2> QED
    BY <2>1, <2>3, SavedKept
<1> QED
  BY <1>1, <1>2, <1>3, <1>4, <1>5 DEF CreateSchedule, UpdateSchedule, Fire, CreateSnapshot

LEMMA SavedByJobs ==
  ASSUME IInv, SavedInv, NEW j \in JobIds, Start(j) \/ Take(j) \/ Record(j) \/ Retain(j) \/ Note(j)
  PROVE  SavedInv'
<1>0. /\ jobs \in [JobIds -> Jobs] /\ jobs[j] \in Jobs /\ j # Sweep /\ j \in Threads
      /\ jobs[j].at \notin Saves => saver[j].at = "idle"
  BY DEF IInv, TypeOK, JobIds, Sweep, Threads, SaverInv
<1>1. UNCHANGED <<saver, tmp, file, raced>>
  BY DEF Start, FailJob, Take, Made, Record, Retain, Note, files
<1>2. CASE FailJob(j) /\ jobs[j].at \in {"start", "take"}
  <2>1. /\ UNCHANGED <<lock, schedules, snapshots>> /\ jobs'[j] = Failed(jobs[j])
        /\ \A i \in JobIds \ {j} : jobs'[i] = jobs[i]
        /\ unsaved' = (unsaved \/ (jobs[j].by = User /\ jobs[j].took # {}))
    BY <1>0, <1>2 DEF FailJob, plan
  <2>2. CASE jobs[j].by # User
    <3>1. jobs'[j].at = "note"
      BY <1>0, <2>1, <2>2, FailedJob
    <3> QED
      BY <3>1, <1>0, <1>1, SavedKept DEF WillSave
  <2>3. CASE jobs[j].by = User /\ jobs[j].took # {}
    BY <2>1, <2>3, <1>1, SavedKept
  <2>4. CASE jobs[j].by = User /\ jobs[j].took = {}
    <3>1. ~WillSave(j)
      BY <1>0, <1>2, <2>4 DEF WillSave, Saves
    <3>2. \A t \in Threads : WillSave(t) => WillSave(t)'
      BY <1>1, <2>1, <3>1 DEF WillSave, Threads
    <3>3. ~unsaved' => ~unsaved
      BY <2>1
    <3> QED
      BY <3>2, <3>3, <1>1, <2>1, SavedKept
  <2> QED
    BY <2>2, <2>3, <2>4
<1>3. CASE Start(j) /\ ~FailJob(j)
  <2>1. /\ UNCHANGED <<lock, schedules, snapshots, unsaved>> /\ jobs[j].at = "start"
        /\ \A i \in JobIds \ {j} : jobs'[i] = jobs[i]
    BY <1>0, <1>3 DEF Start, plan, store
  <2>2. \A t \in Threads : WillSave(t) => WillSave(t)'
    BY <1>0, <1>1, <2>1 DEF WillSave, Threads, Saves
  <2> QED
    BY <2>1, <2>2, <1>1, SavedKept
<1>4. CASE Made(j) \/ Record(j) \/ Retain(j) \/ Note(j)
  <2>1. CASE Made(j)
    <3> DEFINE x == [jobs[j] EXCEPT !.at = "record", !.took = jobs[j].took \cup {Len(made')}]
    <3>2. jobs' = [jobs EXCEPT ![j] = x]
      BY <2>1 DEF Made
    <3>3. x.at = "record"
      BY <1>0 DEF Jobs
    <3> HIDE DEF x
    <3>1. jobs'[j].at = "record"
      BY <1>0, <3>2, <3>3
    <3> QED
      BY <3>1, <1>0, <1>1, SavedKept DEF WillSave
  <2>2. CASE Record(j)
    <3>1. jobs[j].took # {}
      BY <2>2 DEF IInv, JobInv, Record
    <3>2. jobs'[j].took = jobs[j].took /\ jobs'[j].at \in {"take", "retain"}
      BY <1>0, <2>2 DEF Record, Jobs
    <3> QED
      BY <3>1, <3>2, <1>0, <1>1, SavedKept DEF WillSave
  <2>3. CASE Retain(j) \/ Note(j)
    <3> DEFINE x == [jobs[j] EXCEPT !.state = "succeeded", !.at = "save"]
               y == [jobs[j] EXCEPT !.at = "save again"]
    <3>2. jobs' = [jobs EXCEPT ![j] = x] \/ jobs' = [jobs EXCEPT ![j] = y]
      BY <1>0, <2>3 DEF Retain, Note
    <3>3. x.at = "save" /\ y.at = "save again" /\ jobs[j].at \notin Saves
      BY <1>0, <2>3 DEF Retain, Note, Jobs, Saves
    <3> HIDE DEF x, y
    <3>1. jobs'[j].at \in Saves /\ jobs[j].at \notin Saves
      BY <1>0, <3>2, <3>3 DEF Saves
    <3> QED
      BY <3>1, <1>0, <1>1, SavedKept DEF WillSave
  <2> QED
    BY <1>4, <2>1, <2>2, <2>3
<1> QED
  BY <1>2, <1>3, <1>4 DEF Start, Take

LEMMA SavedBySaves ==
  ASSUME IInv, SavedInv, NEW t \in Threads, Save(t)
  PROVE  SavedInv'
<1>0. /\ saver \in [Threads -> Savers] /\ file \in Contents
      /\ \A u \in Threads : saver[u] \in Savers
  BY DEF IInv, TypeOK
<1>1. CASE ReadLock(t)
  <2>1. /\ saver'[t].at = "read" /\ \A u \in Threads \ {t} : saver'[u] = saver[u]
        /\ raced' = (\E u \in Threads : Saving(u)) /\ jobs' = jobs /\ Wants(t)
    BY <1>0, <1>1 DEF ReadLock, Savers
  <2>2. Alone'
    BY <2>1 DEF Alone, Saving
  <2>3. WillSave(t)'
    BY <2>1 DEF WillSave, Wants, Saves
  <2> QED
    BY <2>2, <2>3 DEF SavedInv, Saved
<1>2. CASE Open(t)
  <2>1. /\ saver'[t].at = "write" /\ saver'[t].fd = "tmp" /\ saver'[t].data = Memory
        /\ \A u \in Threads \ {t} : saver'[u] = saver[u]
        /\ raced' = raced /\ Saving(t) /\ Memory' = Memory
    BY <1>0, <1>2 DEF Open, Saving, Memory, plan, store
  <2>2. Alone'
    BY <2>1 DEF SavedInv, Alone, Saving
  <2> QED
    BY <2>1, <2>2 DEF SavedInv, Saved
<1>3. CASE Write(t)
  <2>1. /\ saver'[t].at = "rename" /\ \A u \in Threads \ {t} : saver'[u] = saver[u]
        /\ tmp' = IF saver[t].fd = "tmp" THEN saver[t].data ELSE tmp
        /\ saver[t].at = "write" /\ Saving(t) /\ Memory' = Memory
        /\ UNCHANGED <<raced, lock, unsaved, jobs>>
    BY <1>0, <1>3 DEF Write, Saving, Memory, plan, store
  <2>2. Alone'
    BY <2>1 DEF SavedInv, Alone, Saving
  <2>3. ASSUME ~raced, Saved
        PROVE  Saved'
    <3>1. \A u \in Threads : WillSave(u) => WillSave(u)'
      BY <2>1 DEF WillSave, Sweep, Threads
    <3>2. \A u \in Threads : Saving(u) => u = t
      BY <2>1, <2>3 DEF SavedInv, Alone
    <3> QED
      BY <2>1, <2>3, <3>1, <3>2 DEF Saved, Saving
  <2> QED
    BY <2>1, <2>2, <2>3 DEF SavedInv
<1>4. CASE Rename(t)
  <2>1. /\ saver'[t].at = "idle" /\ \A u \in Threads \ {t} : saver'[u].at = saver[u].at
        /\ saver[t].at = "rename" /\ Saving(t) /\ Memory' = Memory
        /\ UNCHANGED <<raced, lock, unsaved>>
    BY <1>0, <1>4 DEF Rename, Saving, Memory, Idle, Savers, plan, store
  <2>2. Alone'
    BY <2>1 DEF SavedInv, Alone, Saving
  <2>3. ASSUME ~raced, Saved
        PROVE  Saved'
    <3>1. \A u \in Threads : Saving(u) => u = t
      BY <2>1, <2>3 DEF SavedInv, Alone
    <3>2. CASE tmp = Memory
      <4>1. tmp # NoFile
        BY <3>2 DEF Memory, NoFile
      <4>2. HasMemory(file)'
        <5>1. file' = Memory
          BY <1>4, <3>2, <4>1 DEF Rename
        <5>2. UNCHANGED <<schedules, snapshots>>
          BY <1>4 DEF Rename, plan, store
        <5> QED
          BY <5>1, <5>2 DEF HasMemory, Memory
      <4>3. \A u \in Threads : ~Saving(u)'
        BY <2>1, <3>1 DEF Saving
      <4> QED
        BY <4>2, <4>3 DEF Saved
    <3>3. CASE tmp # Memory
      <4>1. PICK u \in Threads : WillSave(u)
        BY <2>1, <2>3, <3>1, <3>3 DEF Saved, Saving
      <4>2. t \in JobIds => jobs[t].at \in Saves
        BY <2>1 DEF IInv, SaverInv
      <4>3. u # t
        BY <2>1, <4>1, <4>2 DEF WillSave, Threads, Saves
      <4>4. u # Sweep => jobs'[u] = jobs[u]
        BY <1>4, <4>3 DEF Rename, AfterSave, IInv, TypeOK, Threads
      <4>5. WillSave(u)'
        BY <2>1, <4>1, <4>3, <4>4 DEF WillSave
      <4> QED
        BY <4>5 DEF Saved
    <3> QED
      BY <3>2, <3>3
  <2> QED
    BY <2>1, <2>2, <2>3 DEF SavedInv
<1>5. CASE FailSave(t)
  <2>1. saver'[t].at = "idle" /\ (\A u \in Threads \ {t} : saver'[u] = saver[u]) /\ raced' = raced /\ unsaved'
    BY <1>0, <1>5 DEF FailSave, Idle
  <2>2. Alone'
    BY <2>1 DEF SavedInv, Alone, Saving
  <2> QED
    BY <2>1, <2>2 DEF SavedInv
<1> QED
  BY <1>1, <1>2, <1>3, <1>4, <1>5 DEF Save

LEMMA SavedBySweep ==
  ASSUME IInv, SavedInv, SweepRetains
  PROVE  SavedInv'
<1>1. saver \in [Threads -> Savers] /\ Sweep \in Threads /\ saver[Sweep] = Idle /\ raced' = raced
  BY DEF IInv, TypeOK, SweepRetains, Threads, files
<1>2. saver'[Sweep].at = "save" /\ \A u \in Threads \ {Sweep} : saver'[u] = saver[u]
  BY <1>1 DEF SweepRetains, Savers
<1>3. Alone'
  BY <1>1, <1>2 DEF SavedInv, Alone, Saving
<1>4. WillSave(Sweep)'
  BY <1>2 DEF WillSave
<1> QED
  BY <1>1, <1>3, <1>4 DEF SavedInv, Saved

\* nosd starts with what the file has, if it can read it.
LEMMA SavedByRestart ==
  ASSUME IInv, Restart
  PROVE  SavedInv'
<1>1. \A t \in Threads : ~Saving(t)'
  BY DEF Restart, Saving, Idle
<1>2. ASSUME ~unsaved'
      PROVE  HasMemory(file)'
  BY <1>2 DEF HasMemory, Restart
<1> QED
  BY <1>1, <1>2 DEF SavedInv, Alone, Saved

LEMMA SavedInit == Init => SavedInv
BY DEF Init, SavedInv, Saved, Alone, Saving, Idle, HasMemory, Memory

LEMMA SavedNext == IInv /\ SavedInv /\ [Next]_vars => SavedInv'
<1> SUFFICES ASSUME IInv, SavedInv, [Next]_vars
             PROVE  SavedInv'
  OBVIOUS
<1>1. CASE UNCHANGED vars
  <2>1. UNCHANGED <<saver, tmp, file, raced, lock, schedules, snapshots, made, unsaved, jobs>>
    BY <1>1 DEF vars
  <2>2. \A t \in Threads : WillSave(t) => WillSave(t)'
    BY <2>1 DEF WillSave
  <2> QED
    BY <2>1, <2>2, SavedKept
<1>2. Sweep \in Threads /\ JobIds \subseteq Threads
  BY DEF Threads
<1> QED
  BY <1>1, <1>2, SavedByRequests, SavedByJobs, SavedBySaves, SavedBySweep, SavedByRestart DEF Next, Run

\* What is recorded is what is on the disk, but for the snapshots of which an answer
\* was lost or a restart has the wrong record; and when all is quiet it is in the state
\* file, unless two saves ran into each other, the last change is one that the code
\* does not save, or none has succeeded since one failed.
THEOREM RecordsStayTrue == Spec => []RecordsAreTrue
<1>1. Init => IInv /\ SavedInv
  BY IInit, SavedInit
<1>2. (IInv /\ SavedInv) /\ [Next]_vars => (IInv /\ SavedInv)'
  BY INext, SavedNext
<1>3. IInv /\ SavedInv => RecordsAreTrue
  <2> SUFFICES ASSUME IInv, SavedInv
               PROVE  RecordsAreTrue
    OBVIOUS
  <2>1. QuietIsSaved
    <3> SUFFICES ASSUME lock = "free", AllIdle, ~unsaved, ~raced
                 PROVE  HasMemory(file)
      BY DEF QuietIsSaved
    <3>2. \A t \in Threads : saver[t].at = "idle"
      BY DEF AllIdle, Idle
    <3>3. \A t \in Threads : t = Sweep \/ jobs[t].at \in {"none", "done"}
      BY DEF AllIdle, Threads
    <3>1. \A t \in Threads : saver[t].at = "idle" /\ ~WillSave(t)
      BY <3>2, <3>3 DEF WillSave, Saves
    <3> QED
      BY <3>1 DEF SavedInv, Saved, Saving
  <2> QED
    BY <2>1 DEF RecordsAreTrue, IInv, FollowInv
<1> QED
  BY <1>1, <1>2, <1>3, PTL DEF Spec

------------------------------------------------------------------------------
(* What retention keeps.                                                       *)

LEMMA RetentionLists ==
  ASSUME IInv, NEW s, NEW v
  PROVE  /\ IsNewestFirst(NewestFirst(OfSchedule(s, v)))
         /\ OfSchedule(s, v) # {} => /\ NewestFirst(OfSchedule(s, v)) # <<>>
                                     /\ NewestFirst(OfSchedule(s, v))[1].n = Max(OfSchedule(s, v))
                                     /\ Max(OfSchedule(s, v)) \in OfSchedule(s, v)
         /\ \A n \in OfSchedule(s, v) : Placed(NewestFirst(OfSchedule(s, v)), OfSchedule(s, v), n)
         /\ Today \in Int
         /\ Policy \in [minKeep : Int, days : Int, weeks : Int, months : Int, years : Int]
<1>1. /\ Len(made) \in Nat /\ Len(made) <= MaxSnapshots /\ MaxSnapshots \in Nat
      /\ OfSchedule(s, v) \in SUBSET (1..Len(made))
  <2>1. made \in Seq(Snapshots) /\ Len(made) <= MaxSnapshots /\ snapshots \subseteq DOMAIN made
    BY DEF IInv, TypeOK
  <2>2. Len(made) \in Nat /\ DOMAIN made = 1..Len(made)
    <3> SUFFICES ASSUME NEW R, made \in Seq(R)
                 PROVE  Len(made) \in Nat /\ DOMAIN made = 1..Len(made)
      BY <2>1
    <3> QED
      OBVIOUS
  <2>3. OfSchedule(s, v) \subseteq snapshots
    BY DEF OfSchedule
  <2> QED
    BY <2>1, <2>2, <2>3
<1>2. Today \in Int
  BY <1>1, RetentionAssumption DEF Today
<1>3. Policy \in [minKeep : Int, days : Int, weeks : Int, months : Int, years : Int]
  BY RetentionAssumption
<1> HIDE DEF OfSchedule
<1> QED
  BY <1>1, <1>2, <1>3, NewestFirstList, MaxExists

\* The latest of a schedule and a subvolume is never in excess, of no schedule's.
LEMMA LatestIsKept ==
  ASSUME IInv, Policy.minKeep > 0, NEW s, NEW v, NEW S
  PROVE  Latest(s, v) \cap AllSurplus(S) = {}
<1> SUFFICES ASSUME NEW n \in Latest(s, v), NEW t, NEW w, n \in Surplus(t, w)
             PROVE  FALSE
  BY DEF AllSurplus
<1>1. OfSchedule(s, v) # {} /\ n = Max(OfSchedule(s, v))
  BY DEF Latest, OfSchedule
<1>2. n \in OfSchedule(s, v)
  BY <1>1, RetentionLists
<1>3. n \in OfSchedule(t, w) /\ n \notin {k.n : k \in Selected(NewestFirst(OfSchedule(t, w)), Policy, Today)}
  BY DEF Surplus
<1>4. OfSchedule(t, w) = OfSchedule(s, v)
  BY <1>2, <1>3 DEF OfSchedule
<1> DEFINE list == NewestFirst(OfSchedule(s, v))
<1>5. /\ IsNewestFirst(list) /\ list # <<>> /\ list[1].n = n /\ Today \in Int
      /\ Policy \in [minKeep : Int, days : Int, weeks : Int, months : Int, years : Int]
  BY <1>1, RetentionLists
<1>6. n \notin {k.n : k \in Selected(list, Policy, Today)}
  BY <1>3, <1>4
<1> HIDE DEF list
<1>7. list[1] \in Selected(list, Policy, Today)
  BY <1>5, NewestIsSelected
<1> QED
  BY <1>5, <1>6, <1>7

\* In a step that ends a request and is no restart, what is dropped is dropped by retention.
Drops ==
  \/ snapshots \subseteq snapshots'
  \/ \E S \in SUBSET Schedules : ApplyRetention(S)

LEMMA RetentionDrops ==
  ASSUME IInv, [Next]_vars, lock' = "free", restarts' = restarts
  PROVE  Drops
<1>1. CASE SweepRetains
  <2>1. {s \in Schedules : schedules[s].enabled} \in SUBSET Schedules
    OBVIOUS
  <2> QED
    BY <1>1, <2>1 DEF SweepRetains, Drops
<1>2. ASSUME NEW j \in JobIds, Retain(j)
      PROVE  Drops
  <2>1. CASE jobs[j].by = User
    BY <1>2, <2>1 DEF Retain, Drops
  <2>2. CASE jobs[j].by # User
    <3>1. {jobs[j].by} \in SUBSET Schedules
      BY <2>2 DEF IInv, TypeOK, Jobs, Owners
    <3> QED
      BY <1>2, <2>2, <3>1 DEF Retain, Drops
  <2> QED
    BY <2>1, <2>2
<1>3. ASSUME NEW j \in JobIds, Start(j) \/ Take(j) \/ Note(j) \/ CancelJob(j)
      PROVE  snapshots' = snapshots
  BY <1>3 DEF Start, Take, Made, Note, CancelJob, FailJob, store
<1>4. ASSUME NEW j \in Threads, Save(j)
      PROVE  snapshots' = snapshots
  BY <1>4 DEF Save, ReadLock, Open, Write, Rename, FailSave, store
<1>5. ASSUME NEW j \in JobIds, Record(j)
      PROVE  snapshots \subseteq snapshots'
  BY <1>5 DEF Record
<1>6. ASSUME NEW s \in Schedules, NEW setting \in Settings, CreateSchedule(s, setting) \/ UpdateSchedule(s, setting)
      PROVE  snapshots' = snapshots
  BY <1>6 DEF CreateSchedule, UpdateSchedule, Enter, store
<1>7. ASSUME NEW s \in Schedules, Fire(s)
      PROVE  snapshots' = snapshots
  BY <1>7 DEF Fire, Submit, store
<1>8. CASE CreateSnapshot
  BY <1>8 DEF CreateSnapshot, Submit, store, Drops
<1>9. ~Restart
  BY DEF Restart, IInv, TypeOK
<1>10. ASSUME NEW s \in Schedules, DeleteSchedule(s)
       PROVE  FALSE
  BY <1>10 DEF DeleteSchedule
<1>11. ASSUME NEW n \in DOMAIN made, DeleteSnapshot(n)
       PROVE  snapshots' = snapshots
  BY <1>11 DEF DeleteSnapshot
<1>12. CASE UNCHANGED vars
  BY <1>12 DEF vars, Drops
<1>13. Sweep \in Threads /\ JobIds \subseteq Threads
  BY DEF Threads
<1> QED
  BY <1>1, <1>2, <1>3, <1>4, <1>5, <1>6, <1>7, <1>8, <1>9, <1>10, <1>11, <1>12, <1>13
     DEF Next, Run, Drops

\* No step but a restart or a request of the user drops the record of a snapshot that
\* a user made, and none the latest of a schedule and a subvolume if MinKeep is one or
\* more: retention never does.
THEOREM RetentionSparesThem == Spec => RetentionSpares
<1> DEFINE Spared == UsersSpared /\ (Policy.minKeep > 0 => LatestSpared)
<1>1. ASSUME IInv, [Next]_vars, lock' = "free", restarts' = restarts
      PROVE  Spared
  <2>0. ASSUME snapshots \subseteq snapshots'
        PROVE  Spared
    <3>1. UsersSpared
      BY <2>0 DEF UsersSpared
    <3>2. LatestSpared
      <4> SUFFICES ASSUME NEW s \in Schedules, NEW v, NEW n \in Latest(s, v)
                   PROVE  n \in snapshots'
        BY DEF LatestSpared
      <4>1. OfSchedule(s, v) # {} /\ n = Max(OfSchedule(s, v))
        BY DEF Latest, OfSchedule
      <4>2. n \in OfSchedule(s, v)
        BY <4>1, <1>1, RetentionLists
      <4> QED
        BY <4>2, <2>0 DEF OfSchedule
    <3> QED
      BY <3>1, <3>2
  <2>1. ASSUME NEW S \in SUBSET Schedules, ApplyRetention(S)
        PROVE  Spared
    <3>1. UsersSpared
      BY <2>1, SurplusIsOwn DEF ApplyRetention, UsersSpared
    <3>2. ASSUME Policy.minKeep > 0, NEW s \in Schedules, NEW v, NEW n \in Latest(s, v)
          PROVE  n \in snapshots'
      <4>1. OfSchedule(s, v) # {} /\ n = Max(OfSchedule(s, v))
        BY <3>2 DEF Latest, OfSchedule
      <4>2. n \in OfSchedule(s, v)
        BY <4>1, <1>1, RetentionLists
      <4>3. n \notin AllSurplus(S)
        BY <3>2, <1>1, LatestIsKept
      <4>4. n \in snapshots
        BY <4>2 DEF OfSchedule
      <4> QED
        BY <4>3, <4>4, <2>1 DEF ApplyRetention
    <3> QED
      BY <3>1, <3>2 DEF LatestSpared
  <2> HIDE DEF Spared
  <2> QED
    BY <1>1, <2>0, <2>1, RetentionDrops DEF Drops
<1>2. IInv /\ [Next]_vars => [lock' = "free" /\ restarts' = restarts => Spared]_vars
  BY <1>1
<1> QED
  BY <1>2, Invariant, PTL DEF Spec, RetentionSpares

\* Nothing promised is in excess, of no schedule's.
LEMMA PromisedAreKept ==
  ASSUME IInv, NEW s, NEW v, NEW S
  PROVE  Promised(OfSchedule(s, v)) \cap AllSurplus(S) = {}
<1> SUFFICES ASSUME NEW n \in Promised(OfSchedule(s, v)), NEW t, NEW w, n \in Surplus(t, w)
             PROVE  FALSE
  BY DEF AllSurplus
<1>1. n \in OfSchedule(s, v)
  BY DEF Promised, NewestOfEach
<1>2. n \in OfSchedule(t, w) /\ n \notin {k.n : k \in Selected(NewestFirst(OfSchedule(t, w)), Policy, Today)}
  BY DEF Surplus
<1>3. OfSchedule(t, w) = OfSchedule(s, v)
  BY <1>1, <1>2 DEF OfSchedule
<1> QED
  BY <1>2, <1>3, RetentionLists, PromisedIsSelected

\* No step but a restart or a request of the user drops the record of a snapshot that
\* the documentation promises to keep, of the last days, months and years: retention
\* never does, whatever it has deleted, failed to delete or lost the answer of before.
THEOREM PromisesAreKept == Spec => PromiseKept
<1> DEFINE Kept == \A s \in Schedules : \A v \in Range(Covers[s]) : Promised(OfSchedule(s, v)) \subseteq snapshots'
<1>1. ASSUME IInv, [Next]_vars, lock' = "free", restarts' = restarts
      PROVE  Kept
  <2>0. ASSUME snapshots \subseteq snapshots'
        PROVE  Kept
    <3>1. \A s, v : Promised(OfSchedule(s, v)) \subseteq OfSchedule(s, v) /\ OfSchedule(s, v) \subseteq snapshots
      BY DEF Promised, NewestOfEach, OfSchedule
    <3> QED
      BY <2>0, <3>1
  <2>1. ASSUME NEW S \in SUBSET Schedules, ApplyRetention(S)
        PROVE  Kept
    <3> SUFFICES ASSUME NEW s \in Schedules, NEW v, NEW n \in Promised(OfSchedule(s, v))
                 PROVE  n \in snapshots'
      OBVIOUS
    <3>1. n \in snapshots
      BY DEF Promised, NewestOfEach, OfSchedule
    <3>2. n \notin AllSurplus(S)
      BY <1>1, PromisedAreKept
    <3> QED
      BY <3>1, <3>2, <2>1 DEF ApplyRetention
  <2> HIDE DEF Kept
  <2> QED
    BY <1>1, <2>0, <2>1, RetentionDrops DEF Drops
<1>2. IInv /\ [Next]_vars => [lock' = "free" /\ restarts' = restarts => Kept]_vars
  BY <1>1
<1> QED
  BY <1>2, Invariant, PTL DEF Spec, PromiseKept

=============================================================================
