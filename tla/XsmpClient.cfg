CONSTANT MaxMessages = 3
SPECIFICATION Spec
CHECK_DEADLOCK FALSE
INVARIANTS
  FrozenOnlyInLogout
  NobodyWaitsInVain
  OneSaveAtATime
