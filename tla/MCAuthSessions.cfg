CONSTANTS
  u1 = u1
  auth = auth
  k1 = k1
  l1 = l1
  l2 = l2
  s1 = s1
  s2 = s2
  Auth = auth
  Players = {u1}
  Workers = {auth}
  Runs = {k1}
  Ends = {l1, l2}
  Logins = {s1, s2}
  Interval = 2
  Grace = 1
  KeyTtl = 2
  MaxRunTime = 1
  MaxCalls = 2
  MaxCrashes = 1
  MaxFailedEnds = 1
  MaxFailedAuth = 1
  MaxLogins = 2
  MaxFaults = 2
  MaxNow = 3
SYMMETRY Slots
CONSTRAINTS FewFaults StillClaimed
SPECIFICATION AuthSpec
INVARIANTS AuthTypeOK TokenMeansSession LoggedOutStaysOut 
CHECK_DEADLOCK FALSE
