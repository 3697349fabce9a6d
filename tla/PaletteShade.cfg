SPECIFICATION ThemeSpec
CONSTANTS
  main = main
  soft = soft
  button = button
  back = back
  text = text
  base = base
  light = light
  dark = dark
  sepia = sepia
  NoAlias = NoAlias
  NoToken = NoToken
  ThemePath = {main, soft, button, back, text}
  ModeName = {base, light, dark, sepia}
  Base = base
  ThemeModes <- MCThemeModes
  Palette <- MCPalette
  Contained <- MCContained
  Component <- MCComponent
  ColorPaths = {main, soft, back}
  PalettePaths = {main, soft}
  TokenSets <- MCTokenSets
CHECK_DEADLOCK FALSE
INVARIANTS
  ShadesResolve
