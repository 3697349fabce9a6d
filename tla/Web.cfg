SPECIFICATION WebSpec
CONSTANTS
  \* TokenTheme
  main = main
  soft = soft
  button = button
  back = back
  text = text
  base = base
  light = light
  dark = dark
  sepia = sepia
  NoAlias = NoAlias
  NoToken = NoToken
  ThemePath = {main, soft, button, back, text}
  ModeName = {base, light, dark, sepia}
  Base = base
  ThemeModes <- MCThemeModes
  Palette <- MCPalette
  Contained <- MCContained
  Component <- MCComponent
  ColorPaths = {main, soft, back}
  PalettePaths = {main, soft}
  TokenSets <- MCTokenSets
  \* FigmaVariables
  day = day
  night = night
  NoRaw = NoRaw
  Collections <- MCCollections
  Payloads <- MCPayloads
  \* TokenUsage
  Tile = Tile
  Card = Card
  entry = entry
  helper = helper
  styles = styles
  Nobody = Nobody
  NoBlock = NoBlock
  NoComponent = NoComponent
  Module = {Tile, Card, entry, helper, styles}
  Graphs <- MCGraphs
  Terminals = {Tile, Card, entry}
  TokenPaths <- UsagePaths
  Sources <- MCSources
  StyleRules <- MCStyleRules
  ComponentOfMui <- MCComponentOfMui
  \* ThemeScopes and TokenTargets
  ThemeMode = {"light", "dark"}
  Words <- KeyWords
  FlatPaths <- MCFlatPaths
  ListPaths <- SchemaLists
  Storages <- MCStorages
  DefaultMode = "light"
  Shipped <- MCShipped
  HostTokens <- MCHostTokens
  HostThemes <- MCHostThemes
  ScopeTokens <- MCScopeTokens
  Parts <- MCParts
  UsageMap <- MCUsageMap
  UsagePath <- MCUsagePath
  NoMode = NoMode
  NoTheme = NoTheme
  MaxChanges = 2
  Exports <- MCExports
  FirstExport <- MCFirstInputs
  Schema <- MCSchema
  Refused = Refused
  Absent = Absent
  Edited = Edited
  NotBuilding = NotBuilding
  NoSnapshot = NoSnapshot
  NotCached = NotCached
  MaxReleases = 1
  MaxHandEdits = 1
  MaxBuilds = 2
  \* TokenStudio
  File <- StudioFiles
  ModeOf <- MCStudioModes
  Path = {"text", "paper"}
  Type = {"color", "none"}
  NoType = "none"
  Value = {"white", "black", "grey", "glass", "reed"}
  Display <- MCDisplayed
  Nothing = Nothing
  Committed <- MCCommitted
  Edits <- MCEdits
  Transforms <- MCTransforming
  Luminance <- MCLuminance
  Pairs <- MCPairs
  Translucent = Translucent
  Unwritten = Unwritten
  MaxStudioSaves = 2
  MaxEdits = 2
  MaxStops = 1
  \* I18nProvider
  en = en
  it = it
  api = api
  nowhere = nowhere
  Locale = {en, it}
  En = en
  Url = {api, nowhere}
  DefaultUrl = nowhere
  Serving = {api}
  ConfigFiles <- MCConfigFiles
  NoUrl = NoUrl
  Pending = Pending
  Failed = Failed
  MaxSaves = 1
  MaxSwitches = 2
  MaxReloads = 1
CHECK_DEADLOCK FALSE
INVARIANTS
  WebTypeOK
  TransformIsReference
  ComponentsFollowTheMode
  TypesSurviveHoisting
  AttributionIsReachability
  NoReadTokenIsLost
  ShownIsOfTheLocale
  PageAgrees
  ScopesCompose
  MainHasNoDrift
  CachesHoldTheRelease
  ExportsAreGated
PROPERTIES
  TransformEnds
  EveryFileIsAttributed
  PageComesToRest
