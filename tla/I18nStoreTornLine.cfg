SPECIFICATION Spec
CONSTANTS
  w1 = w1
  w2 = w2
  p1 = p1
  p2 = p2
  Locale = {de}
  Key = {k}
  Value = {v}
  NoValue = NoValue
  NoFile = NoFile
  NoLocale = NoLocale
  NoConfig = NoConfig
  NoRequest = NoRequest
  NoSeed = NoSeed
  AnyVersion = AnyVersion
  Named = {1, 3}
  Sent <- ListsAllOrNone
  Shipped = {NoConfig}
  Process = {p1}
  Writer = {w1, w2}
  Host <- OneProcess
  EditsRaceWrites = FALSE
  MaxRequests = 2
  MaxFaults = 1
  MaxEdits = 0
INVARIANT AppliedIsReadable
CHECK_DEADLOCK FALSE
