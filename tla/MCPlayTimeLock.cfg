CONSTANTS
  u1 = u1
  gateway = gateway
  auth = auth
  k1 = k1
  k2 = k2
  l1 = l1
  l2 = l2
  Auth = auth
  Players = {u1}
  Workers = {gateway, auth}
  Runs = {k1, k2}
  Ends = {l1}
  Interval = 1
  Grace = 1
  KeyTtl = 1
  MaxRunTime = 1
  MaxCalls = 2
  MaxCrashes = 1
  MaxFailedEnds = 1
  MaxNow = 3
SPECIFICATION PlayFairSpec
INVARIANT OneAggregator
PROPERTY EveryUpdateEnds
CHECK_DEADLOCK FALSE
