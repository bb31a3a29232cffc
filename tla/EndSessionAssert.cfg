CONSTANTS
  DBusClients = {}
  XsmpClients = {x1}
  Cookies = {}
  LogoutPrompt = FALSE
  MaxLast = 1
  MaxTasks = 1
  MaxCalls = 1
SPECIFICATION Spec
CHECK_DEADLOCK FALSE
INVARIANT NoAssertionFailure
