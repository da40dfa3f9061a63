------------------------------ MODULE MCPoolTx ------------------------------
\* TLC instance of PoolTx.  Two requests compete for a key, or meet at the
\* records, one with the key of a pool and one with Create.  A plan of two steps
\* has a middle.
EXTENDS PoolTx

CONSTANTS t1, t2, tank

MCTxs == {t1, t2}
MCPools == {tank}
=============================================================================
