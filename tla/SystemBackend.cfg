CONSTANTS
  Kinds = {"systemd", "consolekit", "null"}
  MaxLocks = 3
SPECIFICATION FairSpec
INVARIANTS
  LockIsDue
  DownAfterEnd
PROPERTIES
  ShutdownIsDecided
