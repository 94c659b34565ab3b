CONSTANTS
  u1 = u1
  u2 = u2
  e1 = e1
  e2 = e2
  c1 = c1
  c2 = c2
  c3 = c3
  a1 = a1
  a2 = a2
  Users = {u1, u2}
  Events = {e1, e2}
  Claims = {c1, c2, c3}
  Edits = {}
  Rewards <- MCRewards
  InitialLists <- MCInitialLists
  Dates <- MCDates
  Seed <- SeedLogins
  MaxEdits = 1
  PlayTimes = {}
  MaxInFlight = 2
  MaxFailures = 1
  MaxLogins = 1
SPECIFICATION MCListingSpec
CONSTRAINT LoginsFirst
INVARIANTS
  LedgerIsRunningAccount TwiceOnlyByOverlap PointsLostOnlyByOverlap
  ListedRequestsArePaid
PROPERTIES GrantsOnce GrantsAreApproved
CHECK_DEADLOCK FALSE
