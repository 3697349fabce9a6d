SPECIFICATION SeedSpec
CONSTANTS
  p1 = p1
  p2 = p2
  en = en
  de = de
  fr = fr
  settings = settings
  Process = {p1, p2}
  File = {en, de, settings}
  Seed = {en, de, settings}
  CatalogOf = {en, de}
INVARIANTS
  PopulatedAfterRestart
