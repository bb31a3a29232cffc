CONSTANTS
  compositor = compositor
  settings = settings
  panel = panel
  Apps = {compositor, settings, panel}
  PhaseOf <- Phases
  Required = {compositor, panel, settings}
  Autorestart = {settings}
  Conditional = {settings}
  Activated = {panel}
  Wayland = TRUE
  SystemdManaged = TRUE
  MaxProcs = 2
SPECIFICATION FairSpec
CHECK_DEADLOCK FALSE
INVARIANTS
  StartupNeverStalls
  EveryAppHasItsTurn
  PidIsAChild
PROPERTIES
  GivenUpForCause
  StartupCompletes
  CompositorNotRestarted
