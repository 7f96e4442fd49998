CONSTANTS
  Base = 8
  Profile <- MCProfile
  Samples <- MCSamples
  Commands <- MCCommands
  Ids = {1, 2}
  Slave = 1
  MaxTimeouts = 2
  MaxEvents = 2
  None = None
SPECIFICATION Spec
PROPERTIES
  PollIsCurrent
  OthersLand
  WritesLand
  NeverBeyond
  Discriminates
