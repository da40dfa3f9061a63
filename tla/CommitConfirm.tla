---------------------------- MODULE CommitConfirm ----------------------------
(***************************************************************************)
(* What a commit-confirmed configuration change promises, whatever the     *)
(* timers, files and commands behind it do: a plan is put on trial, the    *)
(* trial ends by acceptance or by being abandoned, a plan is accepted only *)
(* from its trial, and an accepted plan is never put on trial again.       *)
(***************************************************************************)
CONSTANTS Plans,  \* the plans that can be put on trial
          NoPlan  \* "no plan is on trial"

VARIABLES trial,    \* the plan on trial, or NoPlan
          accepted  \* the plans the administrator has accepted

vars == <<trial, accepted>>

Init == /\ trial = NoPlan
        /\ accepted = {}

\* A new trial may replace one that is still running.
Try(p) == /\ p \in Plans \ accepted
          /\ trial' = p
          /\ UNCHANGED accepted

Accept == /\ trial # NoPlan
          /\ accepted' = accepted \cup {trial}
          /\ trial' = NoPlan

Abandon == /\ trial # NoPlan
           /\ trial' = NoPlan
           /\ UNCHANGED accepted

Next == \/ \E p \in Plans : Try(p)
        \/ Accept
        \/ Abandon

Spec == Init /\ [][Next]_vars
==============================================================================
