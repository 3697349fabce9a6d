----------------------------- MODULE ThemeSchema -----------------------------
(***************************************************************************)
(* What schema/*.ts says a theme consists of, as paths of keys, and the    *)
(* designer's change that the proof of concept previews.                   *)
(***************************************************************************)
EXTENDS Sequences

In2(group, keys) == {<<group, k>> : k \in keys}
In3(group, keys, inner) == {<<group, k, l>> : k \in keys, l \in inner}

\* The palette of a mode, and the four paths it may have on top.
PalettePaths2 ==
  {<<"mode">>, <<"divider">>}
    \union In2("primary", {"main", "light", "soft", "contrastText"})
    \union UNION {In2(colour, {"main"}) : colour \in {"secondary", "success", "warning", "error", "info"}}
    \union In2("text", {"primary", "secondary"}) \union In2("background", {"default", "paper"})
    \union In2("border", {"width", "color"}) \union In2("focus", {"width", "color"})

\* The colours named after what the domain calls them, a part of every palette;
\* the last are a list.
SemanticPaths ==
  {<<"semantic">> \o p : p \in
     In3("status", {"fund"}, {"draft", "open", "frozen", "closed"})
       \union In3("status", {"deal"}, {"pipeline", "investable", "closed", "withdrawn"})
       \union In3("status", {"coInvestment"}, {"proposed", "active", "suspended", "closed"})
       \union In2("performance", {"positive", "negative", "flat"})
       \union In2("exposure", {"withinAppetite", "approaching", "breach"})
       \union In2("assetClass", {"privateEquity", "privateCredit", "liquidEquity", "etf"})
       \union In2("region", {"northAmerica", "emea", "apac", "latam"})
       \union {<<"series">>}}
SchemaLists == {<<"semantic", "series">>}
SeriesIndices == {"1", "2", "3", "4", "5", "6", "7", "8"}

ButtonContainedPaths == In2("buttonContained", {"background", "text", "hoverBackground", "hoverText"})

TypeStyles == {"title", "heading", "subheading", "body", "bodySmall", "caption"}

SharedPaths ==
  In2("font", {"sans", "mono"}) \union In2("radius", {"control", "surface"})
    \union In2("opacity", {"soft", "disabled"}) \union In2("space", {"xs", "sm", "md", "lg", "xl"})
    \union In2("layout", {"contentPadding", "contentGap"})
    \union In3("typography", TypeStyles, {"size", "weight", "lineHeight"})
    \union In3("typography", {"overline"}, {"size", "weight", "letterSpacing", "lineHeight"})
    \union {<<"typography", "button", "weight">>}

\* The component colours, and what the shipped export has them name.
ComponentColours ==
  [solidBackground |-> <<"primary", "main">>, solidText |-> <<"primary", "contrastText">>,
   solidHoverBackground |-> <<"primary", "light">>, softBackground |-> <<"primary", "soft">>,
   softText |-> <<"primary", "main">>, outlineBorder |-> <<"divider">>, outlineText |-> <<"primary", "main">>,
   ghostText |-> <<"primary", "main">>, hoverSurface |-> <<"primary", "soft">>]

ComponentPaths ==
  In2("button", DOMAIN ComponentColours
                  \union {"heightSm", "heightMd", "heightLg", "paddingInlineSm", "paddingInlineMd", "paddingInlineLg",
                          "gap", "radius", "fontWeight"})
    \union In2("icon", {"sizeSm", "sizeMd", "sizeLg"})
    \union In2("header", {"height", "heightCompact", "paddingInline", "gap", "borderColor", "adornmentGap", "adornmentSize"})

\* TOKEN_PATHS: what the usage of tokens is measured by; the palette is not.
UsagePaths == SharedPaths \union {<<"components">> \o p : p \in ComponentPaths}

\* PROPOSAL: paths and values (x100 where the value is a ratio).
Proposal ==
  [typography |-> {<<"title", "size", 28>>, <<"title", "lineHeight", 125>>, <<"heading", "size", 22>>,
                   <<"heading", "weight", 700>>, <<"subheading", "size", 15>>, <<"body", "size", 15>>,
                   <<"bodySmall", "size", 13>>, <<"caption", "size", 11>>},
   components |-> {<<"button", "heightMd", 44>>, <<"button", "paddingInlineMd", 20>>, <<"button", "fontWeight", 700>>,
                   <<"header", "height", 72>>, <<"header", "adornmentSize", 40>>, <<"header", "adornmentGap", 12>>}]

\* The keys of more than one word, and the words customProperty makes of them.
KeyWords ==
  [contrastText |-> <<"contrast", "text">>, buttonContained |-> <<"button", "contained">>,
   hoverBackground |-> <<"hover", "background">>, hoverText |-> <<"hover", "text">>,
   bodySmall |-> <<"body", "small">>, lineHeight |-> <<"line", "height">>,
   letterSpacing |-> <<"letter", "spacing">>, contentPadding |-> <<"content", "padding">>,
   contentGap |-> <<"content", "gap">>, solidBackground |-> <<"solid", "background">>,
   solidText |-> <<"solid", "text">>, solidHoverBackground |-> <<"solid", "hover", "background">>,
   softBackground |-> <<"soft", "background">>, softText |-> <<"soft", "text">>,
   outlineBorder |-> <<"outline", "border">>, outlineText |-> <<"outline", "text">>,
   ghostText |-> <<"ghost", "text">>, hoverSurface |-> <<"hover", "surface">>,
   heightSm |-> <<"height", "sm">>, heightMd |-> <<"height", "md">>, heightLg |-> <<"height", "lg">>,
   paddingInlineSm |-> <<"padding", "inline", "sm">>, paddingInlineMd |-> <<"padding", "inline", "md">>,
   paddingInlineLg |-> <<"padding", "inline", "lg">>, paddingInline |-> <<"padding", "inline">>,
   fontWeight |-> <<"font", "weight">>, sizeSm |-> <<"size", "sm">>, sizeMd |-> <<"size", "md">>,
   sizeLg |-> <<"size", "lg">>, heightCompact |-> <<"height", "compact">>, borderColor |-> <<"border", "color">>,
   adornmentGap |-> <<"adornment", "gap">>, adornmentSize |-> <<"adornment", "size">>,
   coInvestment |-> <<"co", "investment">>, withinAppetite |-> <<"within", "appetite">>,
   assetClass |-> <<"asset", "class">>, privateEquity |-> <<"private", "equity">>,
   privateCredit |-> <<"private", "credit">>, liquidEquity |-> <<"liquid", "equity">>,
   northAmerica |-> <<"north", "america">>]

=============================================================================
