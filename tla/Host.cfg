SPECIFICATION HostSpec
CONSTANTS
  \* I18nSeed
  p1 = p1
  p2 = p2
  en = en
  de = de
  fr = fr
  settings = settings
  Process = {p1, p2}
  File = {en, de, fr, settings}
  Seed = {en, de, settings}
  CatalogOf = {en, de, fr}
  \* CommandPipeline
  Gone = Gone
  Pending = Pending
  Threw = Threw
  Nothing = Nothing
  Epsilon = 2
  Cent = 3
  Commands <- MCCommands
  Answers <- MCAnswers
  Configured = 5
  MaxChanges = 1
  MaxFaults = 1
CHECK_DEADLOCK FALSE
INVARIANTS
  FreshShareIsPopulated
  VerdictIsOfOneReading
  ReceiptIsOfTheVerdict
PROPERTIES
  SeedsNeverOverwrite
