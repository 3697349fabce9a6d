----------------------------- MODULE ThemeScopes -----------------------------
(***************************************************************************)
(* The theme of a page: AtlasThemeProvider keeps the mode, persists it,    *)
(* stamps it on <html> and writes the tokens of the mode there as custom   *)
(* properties; an AtlasTokenScope writes, on an element of its own, those  *)
(* properties its overrides move away from what it inherits.  The styles   *)
(* of the components read custom properties only.                          *)
(***************************************************************************)
EXTENDS TokenFlatten, Naturals

CONSTANTS
  DefaultMode,
  Shipped,      \* themeInputs
  HostTokens,   \* what the host may pass as `tokens`, NoOverrides included
  HostThemes,   \* what it may pass as `theme`, NoTheme included
  Storages,     \* what the storage may be when the page is opened
  ScopeTokens,  \* nests of scopes: sequences of overrides, the outermost first
  Parts,        \* what the page draws: [by, reads, themed], as in CoreComponents
  UsageMap,     \* tokenUsage: pairs of a token path and a component
  UsagePath(_), \* a path of the flattened theme as the map has it
  NoMode, NoTheme,
  MaxChanges    \* bound on what a user and a host do

ASSUME ModesAssumption ==
  /\ DefaultMode \in ThemeMode /\ NoMode \notin ThemeMode
  /\ Storages \subseteq [works : BOOLEAN, mode : ThemeMode \union {NoMode}]

\* ThemeInputs: every theme has the tokens of the shipped one; a palette may
\* have more (buttonContained).
Whole(inputs) ==
  /\ DOMAIN inputs.shared = DOMAIN Shipped.shared
  /\ DOMAIN inputs.components = DOMAIN Shipped.components
  /\ \A m \in ThemeMode : DOMAIN Shipped.palettes[m] \subseteq DOMAIN inputs.palettes[m]

\* ThemeOverrides: some of them; any palette, and lists of any length.
Partial(over) ==
  DOMAIN over.shared \subseteq DOMAIN Shipped.shared
    /\ DOMAIN over.components \subseteq DOMAIN Shipped.components

ASSUME ThemesAssumption ==
  /\ DOMAIN Shipped.components \subseteq Seq(STRING)
  /\ \A tokens \in HostTokens \ {NoOverrides} : Partial(tokens)
  /\ \A theme \in HostThemes \ {NoTheme} : Whole(theme.tokens)
  /\ \A nest \in ScopeTokens :
       /\ Len(nest) \in Nat /\ DOMAIN nest = 1 .. Len(nest)
       /\ \A k \in DOMAIN nest : nest[k] # NoOverrides /\ Partial(nest[k])

\* A style names tokens of the theme, none of them an item of a list, and the
\* generated map has what it reads, the palette apart.
ASSUME PartsAssumption ==
  \A part \in Parts : \A p \in part.reads :
    /\ p \in FlatPaths /\ Front(p) \notin ListPaths
    /\ \A m \in ThemeMode : p \in DOMAIN TokensFor(FlattenTheme(Shipped), m)
    /\ p \in DOMAIN Shipped.shared \union {ComponentPath(q) : q \in DOMAIN Shipped.components} =>
         <<UsagePath(p), part.by>> \in UsageMap

VARIABLES
  storage,  \* localStorage: [works, mode]; the mode may be none the theme knows
  mode, host, scopes, \* state and props: host is [tokens, theme]
  drawn,    \* [mode, active, scopes] of the last commit
  root,     \* custom properties on <html>
  dataTheme,
  changes

pageVars == <<storage, mode, host, scopes, drawn, root, dataTheme, changes>>

\* readStoredMode, with the default of the provider
ReadStoredMode == IF storage.works /\ storage.mode \in ThemeMode THEN storage.mode ELSE DefaultMode

CreateAtlasTheme(themeMode, tokens, base) == [mode |-> themeMode, tokens |-> ApplyOverrides(base, tokens)]

\* useMemo of the provider; getAtlasTheme caches what createAtlasTheme gives.
Active ==
  IF host.theme # NoTheme THEN host.theme ELSE CreateAtlasTheme(mode, host.tokens, Shipped)

\* What the page is before its first commit.
NotDrawn == [mode |-> NoMode]

Now == [mode |-> mode, active |-> Active, scopes |-> scopes]

VariablesOf(page) == CssVariables(page.active.tokens, page.mode)

PageInit ==
  /\ storage \in Storages
  /\ mode = ReadStoredMode
  /\ host \in [tokens : HostTokens, theme : HostThemes]
  /\ scopes \in ScopeTokens
  /\ drawn = NotDrawn /\ root = <<>> /\ dataTheme = NoMode
  /\ changes = 0

Change == changes < MaxChanges /\ changes' = changes + 1

\* writeStoredMode is best effort.
SetMode(next) ==
  /\ drawn # NotDrawn /\ Change
  /\ mode' = next
  /\ storage' = IF storage.works THEN [storage EXCEPT !.mode = next] ELSE storage
  /\ UNCHANGED <<host, scopes, drawn, root, dataTheme>>

\* The host renders with other props, the page with other scopes.
Rerender ==
  /\ drawn # NotDrawn /\ Change
  /\ host' \in [tokens : HostTokens, theme : HostThemes] \ {host}
  /\ UNCHANGED <<storage, mode, scopes, drawn, root, dataTheme>>

Rescope ==
  /\ drawn # NotDrawn /\ Change
  /\ scopes' \in ScopeTokens \ {scopes}
  /\ UNCHANGED <<storage, mode, host, drawn, root, dataTheme>>

\* What is left of the properties once those written last are taken away, and
\* others set over it.
Kept == IF drawn = NotDrawn THEN DOMAIN root ELSE DOMAIN root \ DOMAIN VariablesOf(drawn)
SetOver(kept, new) ==
  [n \in DOMAIN new \union kept |-> IF n \in DOMAIN new THEN new[n] ELSE root[n]]

\* Mutant: the layout effect has no cleanup.
CommitNoCleanup ==
  /\ drawn # Now
  /\ drawn' = Now
  /\ root' = SetOver(DOMAIN root, VariablesOf(Now))
  /\ UNCHANGED <<storage, mode, host, scopes, dataTheme, changes>>

\* A render is committed: the layout effect takes away the properties it wrote
\* last and writes those of the active theme.
Commit ==
  /\ drawn # Now
  /\ drawn' = Now
  /\ root' = SetOver(Kept, VariablesOf(Now))
  /\ UNCHANGED <<storage, mode, host, scopes, dataTheme, changes>>

\* The effect that stamps the mode runs after the paint.
Stamp ==
  /\ drawn # NotDrawn /\ dataTheme # drawn.mode
  /\ dataTheme' = drawn.mode
  /\ UNCHANGED <<storage, mode, host, scopes, drawn, root, changes>>

\* The page is loaded again: a new document, and the mode from the storage.
LoadAgain ==
  /\ drawn # NotDrawn /\ Change
  /\ mode' = ReadStoredMode
  /\ drawn' = NotDrawn /\ root' = <<>> /\ dataTheme' = NoMode
  /\ UNCHANGED <<storage, host, scopes>>

PageNext ==
  (\E next \in ThemeMode : SetMode(next)) \/ Rerender \/ Rescope \/ Commit \/ Stamp \/ LoadAgain

PageSpec == PageInit /\ [][PageNext]_pageVars

-----------------------------------------------------------------------------
(* What a component sees that is drawn inside the k outermost scopes.      *)

ThemesOf(page) ==
  LET at[k \in 0 .. Len(page.scopes)] ==
        IF k = 0 THEN page.active
        ELSE CreateAtlasTheme(at[k - 1].mode, page.scopes[k], at[k - 1].tokens)
  IN  at

\* Mutant: a scope sets what differs from the shipped tokens.
PropertiesFromShipped(outer, theme) == ChangedCssVariables(Shipped, theme.tokens, theme.mode)

\* AtlasTokenScope: the style of its element.
Properties(outer, theme) == ChangedCssVariables(outer.tokens, theme.tokens, theme.mode)

\* Custom properties are inherited.
Inherited(page) ==
  LET themes == ThemesOf(page)
      at[k \in 0 .. Len(page.scopes)] ==
        IF k = 0 THEN root ELSE Lay(Properties(themes[k - 1], themes[k]), at[k - 1])
  IN  at

Settled == drawn # NotDrawn /\ drawn = Now /\ dataTheme = drawn.mode

\* AtlasThemeProvider.tsx L52: once React has nothing to do, the page is of one
\* mode: the stamp, the properties (none left over from other tokens) and the
\* theme of the components, and it is the mode that a reload will come back in.
\* A `theme` that is passed in is of the mode it was built for, whatever the
\* user switches to.
PageAgrees ==
  Settled =>
    /\ dataTheme = mode
    /\ root = CssVariables(Active.tokens, mode)
    /\ host.theme = NoTheme => Active.mode = mode
    /\ storage.works => ReadStoredMode = mode

\* What a scope restyles: the paths that two themes give different properties.
Restyled(outer, inner, mode_) ==
  LET was == CssVariables(outer.tokens, mode_)
      is == CssVariables(inner.tokens, mode_)
  IN  {p \in UNION {part.reads : part \in Parts} : was[CustomProperty[p]] # is[CustomProperty[p]]}

\* What the k outermost scopes may leave of the tokens around them: items of a
\* list that one of them replaced.
LeftOver(page, k) ==
  UNION {ListItems([list \in ListPaths \cap DOMAIN page.scopes[j].palettes[page.mode] |->
                      ThemesOf(page)[j - 1].tokens.palettes[page.mode][list]]) : j \in 1 .. k}

\* AtlasTokenScope.tsx: "Laid over whatever this subtree already inherited, so
\* scopes nest."  At every depth, a component inherits all properties of the
\* theme it is given with their values, and what its styles read is among
\* them, although each scope writes only differences.  It inherits nothing
\* else, but for one thing: a list is replaced whole (overrides.ts L3) and a
\* scope unsets no property (changedCssVariables), so items that a longer list
\* had outside stay.  And a scope that lays over no colours restyles what the
\* map of token-usage.ts, "the blast radius of changing that token", says it
\* does, and nothing else.
ScopesCompose ==
  drawn # NotDrawn /\ drawn.active.mode = drawn.mode =>
    /\ \A k \in 0 .. Len(drawn.scopes) :
         LET seen == Inherited(drawn)[k]
             given == CssVariables(ThemesOf(drawn)[k].tokens, drawn.mode)
         IN  /\ DOMAIN given \subseteq DOMAIN seen
             /\ \A name \in DOMAIN given : seen[name] = given[name]
             /\ DOMAIN seen \ DOMAIN given \subseteq {CustomProperty[p] : p \in LeftOver(drawn, k)}
             /\ \A part \in Parts : {CustomProperty[p] : p \in part.reads} \subseteq DOMAIN given
    /\ \A k \in 1 .. Len(drawn.scopes) :
         LET over == drawn.scopes[k]
             restyled == Restyled(ThemesOf(drawn)[k - 1], ThemesOf(drawn)[k], drawn.mode)
         IN  over.palettes[drawn.mode] = <<>> =>
               \A part \in Parts : \A p \in part.reads \cap restyled :
                 /\ <<UsagePath(p), part.by>> \in UsageMap
                 /\ p \in DOMAIN over.shared \union {ComponentPath(q) : q \in DOMAIN over.components}

=============================================================================
