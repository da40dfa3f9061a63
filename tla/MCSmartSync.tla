----------------------------- MODULE MCSmartSync -----------------------------
\* TLC instance of SmartSync: two files of different size and a limit that the
\* smaller one is under and the larger one is not, two priorities.
EXTENDS SmartSync

CONSTANTS f1, f2

MCFiles == {f1, f2}
MCSizes == (f1 :> 1) @@ (f2 :> 2)
MCPriorities == {50, 100}
MCMaxima == {1}
=============================================================================
