CONSTANTS
  u1 = u1
  u2 = u2
  e1 = e1
  e2 = e2
  c1 = c1
  c2 = c2
  c3 = c3
  a1 = a1
  a2 = a2
  Users = {u1}
  Events = {e1}
  Claims = {c1, c2}
  Edits = {a1, a2}
  Rewards <- MCRewards
  InitialLists <- MCInitialLists
  Dates <- MCDates
  Seed <- SeedBare
  MaxEdits = 2
  PlayTimes = {60000}
  MaxInFlight = 2
  MaxFailures = 1
  MaxLogins = 1
SPECIFICATION FairSpec
INVARIANT LoginConditionsHold
PROPERTIES AmountsComeFromTheEvent EveryClaimEnds NoPaymentAfterApproval
CHECK_DEADLOCK FALSE
