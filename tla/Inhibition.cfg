CONSTANTS
  Cookies = {k1, k2, k3}
  AVAILABLE = AVAILABLE
  IDLE = IDLE
  Statuses = {AVAILABLE, BUSY}
  MaxCalls = 2
SPECIFICATION Spec
SYMMETRY Symmetry
INVARIANTS
  SuspendIsBlocked
  ObserversAgree
  IdleIsInhibited
  IdleEndsByActivity
