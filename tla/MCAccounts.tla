------------------------------ MODULE MCAccounts ------------------------------
\* TLC instance of Accounts: two users, none or both there at first, two requests at a time, three in all.
EXTENDS Accounts, TLC

CONSTANTS n1, n2

MCNames == {n1, n2}
MCBlank == [n \in MCNames |-> NoUser]
User(i, r, k) == [id |-> i, role |-> r, failed |-> k, until |-> 0]
MCGiven == {MCBlank,
            (n1 :> User(1, "admin", 0) @@ n2 :> User(2, "user", 1)),
            (n1 :> User(1, "admin", 0) @@ n2 :> User(2, "admin", 0))}
=============================================================================
