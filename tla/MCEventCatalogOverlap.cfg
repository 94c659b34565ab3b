CONSTANTS
  e1 = e1
  e2 = e2
  e3 = e3
  a1 = a1
  a2 = a2
  a3 = a3
  r1 = r1
  r2 = r2
  Horizon = 2
  Events <- MCEvents
  Edits <- MCEdits
  Rewards <- MCRewards
  InitialLists <- MCInitialLists
  Dates <- MCDates
  Seed <- MCSeed
  MaxEdits = 3
SPECIFICATION CatalogFairSpec
INVARIANTS CatalogTypeOK NoForeignReward NoRewardAppliedTwice AddedRewardsStay
PROPERTY EveryEditEnds

CHECK_DEADLOCK FALSE
