SPECIFICATION ReadSpec
CONSTANTS
  w1 = w1
  p1 = p1
  de = de
  en = en
  fr = fr
  NoValue = NoValue
  NoFile = NoFile
  NoLocale = NoLocale
  NoConfig = NoConfig
  NoRequest = NoRequest
  NoSeed = NoSeed
  AnyVersion = AnyVersion
  Locale = {de, en, fr}
  Key = {k}
  Value = {u, v}
  Named = {1, 2}
  Sent <- NoConfigs
  Shipped <- OneAfterTheOther
  MaxRequests = 1
  MaxFaults = 0
  MaxEdits = 0
  Process = {p1}
  Writer = {w1}
  Host <- OneWriter
  EditsRaceWrites = FALSE
  DefaultCode = en
  ReadsFail = FALSE
SYMMETRY ValuesAlike
INVARIANTS
  NearestFirst
  ReadsAreLive
  VersionsMeanOneThing
  ReadsSeeAnsweredWrites
CHECK_DEADLOCK FALSE
