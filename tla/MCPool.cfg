SPECIFICATION PoolFairSpec
CONSTANTS
  Workers = {1, 2, 3}
  Concurrencies <- ConcurrencyFlags
  MaxFailed = 1
  Nobody = Nobody
INVARIANTS PoolTypeOK OutputIsContiguous NoCountLost JoinIsComplete
PROPERTIES PoolEnds
CHECK_DEADLOCK FALSE
