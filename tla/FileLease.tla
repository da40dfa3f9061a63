------------------------------ MODULE FileLease ------------------------------
(***************************************************************************)
(* What the file locks of the realtime hub promise a user who holds one:   *)
(* the file is his alone until he gives it up or his lease runs out.  A    *)
(* file never passes from one user to another without being free between.  *)
(***************************************************************************)
CONSTANTS Files, Users, Nobody

VARIABLE holder  \* the user who holds each file, or Nobody

Init == holder = [f \in Files |-> Nobody]

Take(f, u) == /\ holder[f] = Nobody
              /\ holder' = [holder EXCEPT ![f] = u]

\* Leases run out together when the clock moves past them.
Free(F) == holder' = [f \in Files |-> IF f \in F THEN Nobody ELSE holder[f]]

Next == \/ \E f \in Files, u \in Users : Take(f, u)
        \/ \E F \in SUBSET Files : Free(F)

Spec == Init /\ [][Next]_holder
==============================================================================
