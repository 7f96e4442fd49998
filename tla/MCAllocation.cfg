SPECIFICATION Spec
CONSTANTS
  safety = safety
  gate = gate
  cap = cap
  band = band
  None = None
  Requester <- MCRequester
  Prio <- MCPrio
  Rank <- MCRank
  Claim <- MCClaim
  PMin = 0
  PMax = 6
  Default = 6
  RampUp = 1
  RampDown = 2
  Deadband = 2
  RegMin = 0
  RegMax = 6
  MaxLag = 2
INVARIANTS WithinEnvelope LoopAgrees
PROPERTIES GradientRespected PinLands Approaches Settles
