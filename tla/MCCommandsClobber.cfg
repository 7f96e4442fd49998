SPECIFICATION Spec
CONSTANTS
  None = None
  Writer = {ui, tablet}
  MaxAge = 1
  MaxClock = 3
  FileFaults = FALSE
  ClockSteps = FALSE
PROPERTIES Unclobbered
