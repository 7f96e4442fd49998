SPECIFICATION Spec
CONSTANTS
  None = None
  Writer = {ui, tablet}
  MaxAge = 0
  MaxClock = 2
  FileFaults = TRUE
  ClockSteps = TRUE
INVARIANTS RestartGuard ActsOnce
PROPERTIES StopReaches
