CONSTANTS
  Caller = {r1, r2}
  UTC = UTC
  Kyiv = Kyiv
  Zone = {UTC, Kyiv}
  ZoneOffset <- MCZoneOffset
  Day = 3
  Entered = {1}
  Off = {2}
  Found <- MCFound
  MaxEvents = 2
  Absent = Absent
SPECIFICATION ClockSpec
INVARIANT ClockTypeOK
PROPERTIES
  AppliedAsStored
  RequestsEnd
  KeepsTime
