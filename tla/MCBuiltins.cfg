\* Every stack word, found and performed, on a stack of three longs from -3 to 2,
\* with an int from -2 to 1.
CONSTANTS
  Keys <- MCKeys
  Rank <- MCRank
  N_builtins <- MCN
  DB_builtins <- MCDB
  IDX_builtins <- MCIDX
  D = 3
  LONG_MAX = 2
  INT_MAX = 1
  None = None
SPECIFICATION FairSpec
INVARIANTS TypeOK LookupDecides
PROPERTIES LookupNarrows LookupReturns KeepsItsPromise
\* A task that is beyond its stack, or dead, is not followed.
CHECK_DEADLOCK FALSE
