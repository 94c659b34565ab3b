CONSTANTS
  u1 = u1
  u2 = u2
  e1 = e1
  c1 = c1
  c2 = c2
  c3 = c3
  Users = {u1, u2}
  Events = {e1}
  Claims = {c1, c2, c3}
  Edits = {}
  Rewards <- MCRewards
  InitialLists <- MCInitialLists
  Dates <- MCDates
  Seed <- MCSeed
  MaxEdits = 1
  PlayTimes = {}
  MaxInFlight = 2
  MaxFailures = 1
  MaxLogins = 1
  MaxTimeouts = 3
SPECIFICATION MCGatewaySpec
INVARIANTS
  GatewayTypeOK SuccessIsTrueAndUnique PatientApprovedOnce
  RequestsBacked ApprovalsBounded BalanceNotInflated
PROPERTY EveryRequestAnswered
CHECK_DEADLOCK FALSE
