SPECIFICATION Spec
CONSTANTS
  None = None
  Request = {r1, r2}
  Main = Main
  Process = {unit, p1, p2}
  Unit = unit
  Site = {hw}
  UnitSite = hw
INVARIANTS Accounted
PROPERTIES StopReaches Answered
