CONSTANTS
  u1 = u1
  u2 = u2
  e1 = e1
  e2 = e2
  c1 = c1
  c2 = c2
  c3 = c3
  a1 = a1
  a2 = a2
  Users = {u1}
  Events = {e1, e2}
  Claims = {c1, c2}
  Edits = {}
  Rewards <- MCRewards
  InitialLists <- MCInitialLists
  Dates <- MCDates
  Seed <- SeedTwo
  MaxEdits = 1
  PlayTimes = {30000, 60000}
  MaxInFlight = 2
  MaxFailures = 0
  MaxLogins = 1
SPECIFICATION Spec
INVARIANT ApprovedOnce
CHECK_DEADLOCK FALSE
