SPECIFICATION PoolFairSpec
CONSTANTS
  t1 = t1
  t2 = t2
  tank = tank
  Create = Create
  NoTx = NoTx
  Txs <- MCTxs
  Pools <- MCPools
  Steps = 2
INVARIANTS
  OneAtWork
  OkMeansAll
PROPERTIES
  FileFollows
  KeyComesBack
CHECK_DEADLOCK FALSE
