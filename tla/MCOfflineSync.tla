---------------------------- MODULE MCOfflineSync ----------------------------
\* TLC instance of OfflineSync.  Three changes of a path of two types: two may
\* merge, and the third passes them by its priority.  Two
\* goroutines are as many as SetMode can bring about in one sync.
EXTENDS OfflineSync

CONSTANTS p1, s1, s2

MCPaths == {p1}
MCSyncs == {s1, s2}
MCTypes == {"modify", "delete"}
==============================================================================
