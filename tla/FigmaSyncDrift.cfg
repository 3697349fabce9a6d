SPECIFICATION SyncSpec
CONSTANTS
  base = base
  light = light
  light2 = light2
  baseMode = baseMode
  lightMode = lightMode
  bg = bg
  fg = fg
  soft = soft
  stack = stack
  color = color
  font = font
  white = white
  black = black
  grey = grey
  list = list
  text = text
  mara = mara
  NoType = NoType
  Nothing = Nothing
  File = {base, light, light2}
  ModeOf <- MCModeOf
  Path = {bg, fg, soft, stack}
  Type = {color, font, NoType}
  Value = {white, black, grey, list, text}
  Display <- MCDisplay
  Author = {mara, Nothing}
  BaseMode = baseMode
  Swatch = {bg, fg, soft}
  Order <- MCOrder
  Design <- MCDesign
  First <- MCFirst
  Transforms <- MCTransforms
  Contrast <- MCContrast
  MaxReleases = 3
  MaxEdits = 1
  MaxStops = 1
INVARIANTS
  ReleasedExportVerifies
