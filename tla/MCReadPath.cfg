SPECIFICATION Spec
CONSTANTS
  grid = grid
  pv = pv
  None = None
  Device = {grid, pv}
  Order <- SiteOrder
  Endpoint = {e1, e2}
  Settle = 6
SYMMETRY Interchangeable
INVARIANTS AgeHonest Isolated
PROPERTIES StaleForOneCycle KeepsReading
