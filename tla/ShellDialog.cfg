CONSTANTS
  Inhibitors = {}
  Jit = {j1}
  DialogTypes = {"SHUTDOWN"}
  LogoutPrompt = FALSE
  MaxOpen = 2
  MaxSignals = 2
SPECIFICATION FairSpec
CHECK_DEADLOCK FALSE
INVARIANTS
  OpenWillFinish
  InhibitorsShown
PROPERTY QueryIsDecided
