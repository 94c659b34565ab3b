SPECIFICATION HealthFairSpec
CONSTANTS
  k1 = k1
  k2 = k2
  Checks = {k1, k2}
  MaxOutages = 2
\* The checks are finitely many, and the services may stay up.
CHECK_DEADLOCK FALSE
INVARIANTS
  HealthTypeOK
  VerdictsAreTrue
PROPERTY EveryCheckAnswered
