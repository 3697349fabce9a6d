SPECIFICATION FairReadSpec
CONSTANTS
  w1 = w1
  p1 = p1
  de = de
  en = en
  fr = fr
  NoValue = NoValue
  NoFile = NoFile
  NoLocale = NoLocale
  NoConfig = NoConfig
  NoRequest = NoRequest
  NoSeed = NoSeed
  AnyVersion = AnyVersion
  Locale = {de, en, fr}
  Key = {}
  Value = {v}
  Named = {}
  Sent <- NoConfigs
  Shipped <- AnyConfigWithDefaultEn
  MaxRequests = 0
  MaxFaults = 0
  MaxEdits = 0
  Process = {p1}
  Writer = {w1}
  Host <- OneWriter
  EditsRaceWrites = FALSE
  DefaultCode = en
  ReadsFail = TRUE
INVARIANTS
  ChainIsReference
PROPERTIES
  ReadEnds
CHECK_DEADLOCK FALSE
