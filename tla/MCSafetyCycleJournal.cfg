SPECIFICATION Spec
CONSTANTS
  grid = grid
  pv = pv
  None = None
  Device = {grid}
  Meter = grid
  Limit <- Limits
  MaxWriteAge = 2
  MaxFrozen = 1
  Rewrite = 1
  Cycle = 1
  MaxCycle = 1
  MaxPass = 1
  Settle = 2
PROPERTIES AlwaysLands
