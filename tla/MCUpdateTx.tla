----------------------------- MODULE MCUpdateTx -----------------------------
\* TLC instance of UpdateTx.  Two requests meet in every way two can: two
\* applies, an apply and its rollback, a rollback and its own rollback.  Two
\* seconds and Keep = 1 make a prune drop a recorded snapshot.
EXTENDS UpdateTx

CONSTANTS r1, r2, srv, pool

MCRequests == {r1, r2}
MCTargets == {srv, pool}
MCAlways == {srv}
MCBtrfs == {pool}
==============================================================================
