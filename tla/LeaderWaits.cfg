SPECIFICATION FairSpec
CONSTANTS
  MaxLogins = 1
  Faults = FALSE
PROPERTY LeaderWaitsForSession
CHECK_DEADLOCK FALSE
