SPECIFICATION FairSpec
CONSTANTS
  MaxLogins = 3
  Faults = TRUE
PROPERTIES SessionFollowsLeader TerminationEndsSession LeaderFollowsSession
CHECK_DEADLOCK FALSE
