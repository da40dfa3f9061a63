------------------------------ MODULE Retention ------------------------------
(***************************************************************************)
(* Which snapshots of a schedule are kept: selectGFSSnapshots of           *)
(* pkg/backup/scheduler.go.  A list of snapshots has the newest first; of  *)
(* a snapshot its number and the day it was made are what matters.         *)
(***************************************************************************)
EXTENDS FiniteSetsExt, Functions, Integers, Sequences

CONSTANTS Month, Year   \* the month and the year a day is in

ASSUME CalendarAssumption ==
  \A d, e \in DOMAIN Month : d <= e => Month[d] <= Month[e] /\ Year[d] <= Year[e]

\* Mutant: whether there is one of the period is not looked up.
Thinned_Any(list, today, within, limit, Period) ==
  LET kept[i \in 0..Len(list)] ==
        IF i = 0 THEN {}
        ELSE IF /\ today - list[i].day < within
                /\ Cardinality(kept[i - 1]) < limit
               THEN kept[i - 1] \cup {list[i]} ELSE kept[i - 1]
  IN  kept[Len(list)]

\* The newest of every period, as long as there are fewer than limit of them.
Thinned(list, today, within, limit, Period) ==
  LET kept[i \in 0..Len(list)] ==
        IF i = 0 THEN {}
        ELSE IF /\ today - list[i].day < within
                /\ \A k \in kept[i - 1] : Period[k.day] # Period[list[i].day]
                /\ Cardinality(kept[i - 1]) < limit
               THEN kept[i - 1] \cup {list[i]} ELSE kept[i - 1]
  IN  kept[Len(list)]

Newest(list, n) == {list[i] : i \in {j \in DOMAIN list : j <= n}}

Daily(list, policy, today) ==
  {s \in Newest(list, policy.days) : today - s.day < policy.days}

\* The key of a week is made with the layout "2006-W01", where 01 is the month.
Weekly(list, policy, today) == Thinned(list, today, 7 * policy.weeks, policy.weeks, Month)
Monthly(list, policy, today) == Thinned(list, today, 30 * policy.months, policy.months, Month)
Yearly(list, policy, today) == Thinned(list, today, 365 * policy.years, policy.years, Year)

\* toKeep has one entry for a snapshot and one for each period it is kept for: what
\* is compared with MinKeep is the number of entries.
Selected(list, policy, today) ==
  LET daily == Daily(list, policy, today)
      weekly == Weekly(list, policy, today)
      monthly == Monthly(list, policy, today)
      yearly == Yearly(list, policy, today)
      kept == daily \cup weekly \cup monthly \cup yearly
      entries == Cardinality(kept) + Cardinality(weekly) + Cardinality(monthly) + Cardinality(yearly)
  IN  IF Len(list) <= policy.minKeep THEN Range(list)
      ELSE IF entries < policy.minKeep THEN kept \cup Newest(list, policy.minKeep)
      ELSE kept

=============================================================================
