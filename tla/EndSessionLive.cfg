CONSTANTS
  DBusClients = {d1}
  XsmpClients = {x1}
  Cookies = {}
  LogoutPrompt = TRUE
  MaxLast = 1
  MaxTasks = 1
  MaxCalls = 1
SPECIFICATION FairSpec
CHECK_DEADLOCK FALSE
PROPERTIES
  EndSessionTerminates
  QueryIsAnswered
  ForcedLogoutEnds
