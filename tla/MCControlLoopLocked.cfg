CONSTANTS
  Sites <- MCWithoutImport
  ExportLimit = 3
  Headroom = 2
  HeadroomPct = 0
  ImportBand = 3
  Tolerance = 2
  Window = 3
  SafePower = 0
  Kp = 2
  Ki = 1
  Den = 4
  Tt = 2
  MaxMemory = 24
  PMin = 0
  PMax = 12
  Default = 12
  RampUp = 3
  RampDown = 6
  Deadband = 3
  RegMin = 0
  RegMax = 100
  Count = 2
  Loads = {0,9}
  MaxLoad = 9
  Avails = {3,15}
  MaxLag = 2
  MaxEvents = 2
  None = None
SPECIFICATION Spec
PROPERTY Startable
