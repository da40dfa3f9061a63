-------------------------- MODULE MCFirewallManager --------------------------
\* TLC instance of FirewallManager.  Two timers are what it takes for an
\* apply to lose track of the previous one; three plans let a stale timer
\* meet a plan created after a confirmation.
EXTENDS FirewallManager

CONSTANTS p1, p2, p3, t1, t2

MCPlans == {p1, p2, p3}
MCPlans2 == {p1, p2}
MCTimers == {t1, t2}
==============================================================================
