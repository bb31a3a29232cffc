CONSTANTS
  DBusClients = {d1}
  XsmpClients = {x1}
  Cookies = {k1}
  LogoutPrompt = FALSE
  MaxLast = 1
  MaxTasks = 1
  MaxCalls = 1
SPECIFICATION Spec
CHECK_DEADLOCK FALSE
INVARIANTS
  RunningIsQuiescent
  QuestionsAreTimed
  QueryListIsSound
  InhibitorsOfLiveClients
  CallersAnswered
PROPERTIES
  ObjectionHolds
  ShutdownWaitsForLogind
  LastComeLast
  ImplementsLifecycle
