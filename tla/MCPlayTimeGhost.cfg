CONSTANTS
  u1 = u1
  gateway = gateway
  auth = auth
  k1 = k1
  k2 = k2
  l1 = l1
  l2 = l2
  Auth = auth
  Players = {u1}
  Workers = {gateway, auth}
  Runs = {k1}
  Ends = {l1}
  Interval = 3
  Grace = 1
  KeyTtl = 20
  MaxRunTime = 3
  MaxCalls = 2
  MaxCrashes = 0
  MaxFailedEnds = 0
  MaxNow = 6
SPECIFICATION PlaySpec
INVARIANT EndedSessionStaysEnded
CHECK_DEADLOCK FALSE
