SPECIFICATION Spec
CONSTANTS
  w1 = w1
  w2 = w2
  p1 = p1
  p2 = p2
  Locale = {de}
  Key = {k}
  Value = {v}
  NoValue = NoValue
  NoFile = NoFile
  NoLocale = NoLocale
  NoConfig = NoConfig
  NoRequest = NoRequest
  NoSeed = NoSeed
  AnyVersion = AnyVersion
  Named = {1, 2}
  Sent <- NoConfigs
  Shipped = {NoConfig}
  Process = {p1, p2}
  Writer = {w1, w2}
  Host <- TwoProcesses
  EditsRaceWrites = FALSE
  MaxRequests = 3
  MaxFaults = 1
  MaxEdits = 1
SYMMETRY Alike
INVARIANTS
  AppliedIsRecorded
  AppliedIsAudited
  RollbackRestores
  GateIsMutex
  IInv
PROPERTIES
  WritesAreAtomic
CHECK_DEADLOCK FALSE
