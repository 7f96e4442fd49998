SPECIFICATION Spec
CONSTANTS
  None = None
  Setpoint = {pv}
  SpValue = {p0, p1}
  start = start
  stop = stop
  Command = {start, stop}
  WritePlan <- MCWritePlan
  CmdValue = {0, 1}
  Poll = 1
  Rewrite = 2
  MaxLoop = 1
  MaxSent = 2
  BusFaults = TRUE
INVARIANTS CleanIsWritten WriteAgeBounded
PROPERTIES CommandsPerformed Converges KeepsPromise
