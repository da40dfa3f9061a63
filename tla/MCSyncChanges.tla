--------------------------- MODULE MCSyncChanges ---------------------------
\* TLC instance of SyncChanges: two paths, so that one changes while the other is
\* scanned, and answers of one change, so that every other one is cut off.
EXTENDS SyncChanges

MCPaths == {"a", "b"}
MCContents == {"x", "y"}
=============================================================================
