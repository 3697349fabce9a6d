--------------------------- MODULE CoreComponents ---------------------------
(***************************************************************************)
(* @atlas/core: which tokens its components draw with.  What a component   *)
(* draws is a set of parts.  A part has the custom properties that its     *)
(* style names, as paths (reads), what MUI's theme gives it (themed: fixed *)
(* in the theme by createTheme, not a custom property), and the component  *)
(* that answers for it in the map of token-usage.ts.                       *)
(***************************************************************************)
EXTENDS ThemeSchema

Part(by, reads, themed) == [by |-> by, reads |-> reads, themed |-> themed]
Styled(by, reads) == {Part(by, reads, {})}
In(component, keys) == In3("component", {component}, keys)

Height == [sm |-> "heightSm", md |-> "heightMd", lg |-> "heightLg"]
Padding == [sm |-> "paddingInlineSm", md |-> "paddingInlineMd", lg |-> "paddingInlineLg"]
IconSide == [sm |-> "sizeSm", md |-> "sizeMd", lg |-> "sizeLg"]

-----------------------------------------------------------------------------
(* createAtlasTheme.ts: the styles of MUI's components.  A variant is named *)
(* as the Button of core names it; soft, ghost and link are MUI's text.     *)

MuiButton(variant, size) ==
  Styled("Button",
    In("button", {"gap", "radius", "fontWeight", Height[size], Padding[size]}
                   \union CASE variant = "solid" -> {"solidBackground", "solidText", "solidHoverBackground"}
                            [] variant = "outline" -> {"outlineBorder", "outlineText", "hoverSurface"}
                            [] variant = "soft" -> {"ghostText", "hoverSurface", "softBackground", "softText"}
                            [] OTHER -> {"ghostText", "hoverSurface"})
      \union {<<"opacity", "disabled">>})

MuiIconButton(size) ==
  Styled("IconButton", In("button", {"radius", "ghostText", "hoverSurface", Height[size]}) \union {<<"opacity", "disabled">>})

MuiSvgIcon(size) == Styled("Icon", In("icon", {IconSide[size]}))

MuiAppBar == Styled("AppHeader", In("header", {"borderColor"}) \union {<<"background", "paper">>, <<"border", "width">>})

MuiToolbar(size) ==
  Styled("AppHeader", In("header", {"gap", "paddingInline", "height"} \union IF size = "compact" THEN {"heightCompact"} ELSE {}))

-----------------------------------------------------------------------------
(* The primitives and the controls.                                        *)

Spaces == {"none", "xs", "sm", "md", "lg", "xl"}

\* There is no property of space.none: the gap it names is no gap.
Stack(gap) == Styled("Stack", IF gap = "none" THEN {} ELSE {<<"space", gap>>})

\* The palette path a tone takes its colour from.
Color ==
  [primary |-> <<"primary", "main">>, secondary |-> <<"secondary", "main">>, success |-> <<"success", "main">>,
   warning |-> <<"warning", "main">>, danger |-> <<"error", "main">>, info |-> <<"info", "main">>,
   neutral |-> <<"text", "primary">>, muted |-> <<"text", "secondary">>, none |-> <<>>]

Text(variant, tone) ==
  {Part("Text", {},
        In3("typography", {variant}, {"size", "weight", "lineHeight"}
                                       \union IF variant = "overline" THEN {"letterSpacing"} ELSE {})
          \union ({Color[tone]} \ {<<>>}))}

Icon(size) == Styled("Icon", In("icon", {IconSide[size]}))

Button(variant, size) == MuiButton(variant, size)
IconButton(glyph, size) == MuiIconButton(size) \union glyph

ThemeSwitcher == Stack("xs") \union IconButton(MuiSvgIcon("sm"), "md")

-----------------------------------------------------------------------------
(* The layout.  What a component is given to draw is a set of parts, {}    *)
(* where it is given nothing.                                              *)

MenuButton == IconButton(MuiSvgIcon("md"), "md")

\* Adornments are a Stack whose gap the header's own replaces.
Adorned(parts) ==
  IF parts = {} THEN {}
  ELSE parts \union Stack("md") \union Styled("AppHeader", In("header", {"adornmentGap", "adornmentSize"}))

AppHeader(menu, start, end, size, surface, content) ==
  MuiAppBar \union MuiToolbar(size)
    \union Styled("AppHeader", IF surface = "transparent" THEN {} ELSE {<<"background", surface>>})
    \union Adorned(IF menu THEN MenuButton \union start ELSE start)
    \union Stack("md") \union content \union Adorned(end)

Page(titled, described, start, actions, content) ==
  Styled("Page", In2("layout", {"contentGap", "contentPadding"}))
    \union (IF titled
            THEN Stack("md") \union Stack("sm") \union start \union Stack("none") \union Text("title", "none")
                   \union (IF described THEN Text("bodySmall", "muted") ELSE {})
                   \union (IF actions = {} THEN {} ELSE Stack("sm") \union actions)
            ELSE {})
    \union Stack("lg") \union content

Brand(subtitled, logo) ==
  Stack("sm") \union logo \union Stack("none") \union Text("heading", "primary")
    \union (IF subtitled THEN Text("caption", "muted") ELSE {})

-----------------------------------------------------------------------------
(* designer-poc: the page that previews a designer's change.  A token's    *)
(* path and value are a caption, whatever the token.                       *)

TokenLine == Text("caption", "muted")
Group(content) == Stack("sm") \union Text("heading", "none") \union content

Header ==
  LET bell == IconButton(MuiSvgIcon("md"), "md")
  IN  Group(UNION {AppHeader(menu, {}, bell, "regular", "paper", Brand(TRUE, {})) : menu \in BOOLEAN} \union TokenLine)

Typography ==
  Group(UNION {Stack("xs") \union Text(variant, "none") \union TokenLine : variant \in TypeStyles})

Buttons == Group(Stack("sm") \union UNION {Button(v, "md") : v \in {"solid", "outline", "ghost"}} \union TokenLine)

Release == Group(Text("bodySmall", "muted") \union Text("caption", "none") \union TokenLine)

Preview == Stack("lg") \union Header \union Typography \union Buttons

\* The whole page but for the studio; the preview alone is in a scope.
App ==
  Page(TRUE, TRUE, {}, Button("solid", "md") \union Button("outline", "md") \union ThemeSwitcher, Preview \union Release)

-----------------------------------------------------------------------------

\* Whatever a component of the package can be given.
AnyPart ==
  UNION {Button(v, s) \union IconButton(Icon(s), s) : v \in {"solid", "soft", "outline", "ghost", "link"}, s \in DOMAIN Height}
    \union UNION {Stack(gap) : gap \in Spaces}
    \union UNION {Text(v, t) : v \in TypeStyles \union {"overline"}, t \in DOMAIN Color}
    \union UNION {AppHeader(m, {}, ThemeSwitcher, s, on, Brand(TRUE, {})) :
                    m \in BOOLEAN, s \in {"regular", "compact"}, on \in {"paper", "default", "transparent"}}
    \union Page(TRUE, TRUE, {}, ThemeSwitcher, {})

\* A path of the flattened theme as TOKEN_PATHS has it.
NameInMap(path) == IF path[1] = "component" THEN <<"components">> \o Tail(path) ELSE path

ReadBy(parts) == UNION {{<<NameInMap(p), part.by>> : p \in part.reads} : part \in parts}

\* tokenUsage of generated/token-usage.ts, as pairs of a path and a component
TokenUsageMap ==
  LET of(component, paths) == paths \X {component}
      buttonKeys(keys) == In3("components", {"button"}, keys) \union {<<"opacity", "disabled">>}
      heights == {"heightSm", "heightMd", "heightLg"}
  IN  of("Button", buttonKeys(DOMAIN ComponentColours \union heights
                            \union {"fontWeight", "gap", "paddingInlineLg", "paddingInlineMd", "paddingInlineSm", "radius"}))
        \union of("IconButton", buttonKeys(heights \union {"ghostText", "hoverSurface", "radius"}))
        \union of("AppHeader", In3("components", {"header"},
                    {"adornmentGap", "adornmentSize", "borderColor", "gap", "height", "heightCompact", "paddingInline"}))
        \union of("Icon", In3("components", {"icon"}, {"sizeLg", "sizeMd", "sizeSm"}))
        \union of("Page", In2("layout", {"contentGap", "contentPadding"}))
        \union of("Stack", In2("space", {"lg", "md", "sm", "xl", "xs"}))

=============================================================================
