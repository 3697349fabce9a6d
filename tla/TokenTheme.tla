----------------------------- MODULE TokenTheme -----------------------------
(***************************************************************************)
(* transform() of design-tokens: a token set becomes the theme.  Each mode *)
(* is read through its own tokens and the base ones (cascade.ts), aliases  *)
(* are followed one at a time, and the first token that does not fit its   *)
(* kind throws and stops the whole transform (a TokenError).  A component  *)
(* colour that names the palette stays a name until it is emitted.         *)
(***************************************************************************)
EXTENDS Naturals, Sequences

CONSTANTS
  ThemePath,         \* token paths
  ModeName,     \* modes an export may carry, the base one included
  Base,
  ThemeModes,   \* sequence: the modes the theme needs
  Palette,      \* sequence of [path, kind]: the palette a mode must have
  Contained,    \* sequence of [path, kind]: all of these in a mode, or none
  Component,    \* sequence of [path, kind]: read from base; the tokens that all
                \* modes share are read like these (earlier: another error comes first)
  ColorPaths,   \* paths that start with "color."
  PalettePaths, \* those that isPalettePath accepts as a component colour
  TokenSets,    \* the inputs
  NoAlias, NoToken

\* A token set is a function of its modes, and each of those one of its paths.
ASSUME TokenSetsAssumption ==
  \A tokens \in TokenSets :
    /\ DOMAIN tokens \subseteq ModeName
    /\ \A m \in DOMAIN tokens :
         /\ DOMAIN tokens[m] \subseteq ThemePath
         /\ \A p \in DOMAIN tokens[m] :
              tokens[m][p] # NoToken /\ tokens[m][p].alias \in ThemePath \union {NoAlias}

\* Base is no mode of the theme (BASE, THEME_MODES); only a component keeps
\* names, and an object has every path once (components.ts).
ASSUME SchemaAssumption ==
  /\ Base \in ModeName /\ ThemeModes \in Seq(ModeName \ {Base})
  /\ \A table \in {Palette, Contained, Component} : table \in Seq([path : ThemePath, kind : STRING])
  /\ \A table \in {Palette, Contained} : \A i \in DOMAIN table : table[i].kind # "colorToken"
  /\ \A i, j \in DOMAIN Component : Component[i].path = Component[j].path => Component[i] = Component[j]
  /\ NoAlias \notin ColorPaths

VARIABLES
  set,      \* the token set: mode -> path -> token; a mode may be absent
  toRead,   \* the modes that are still to be read
  jobs,     \* what is left to read of a mode: a sequence of [mode, path, kind]
  walk,     \* followAliases: the token it is at, and the paths it came through
  theme,    \* what was read: <<mode, path>> -> value
  outcome   \* "reading", "done", or the error that was thrown

themeVars == <<set, toRead, jobs, walk, theme, outcome>>

\* A token: $type, the path it aliases (or NoAlias), and a value.  A value has
\* a form and an identity: [form, id].
Alias(token) == token.alias # NoAlias

\* checkType of normalise.ts
AcceptedTypes(kind) ==
  CASE kind \in {"color", "colorToken"} -> {"color"}
    [] kind = "number" -> {"number", "dimension"}
    [] kind = "fontWeight" -> {"fontWeight", "number"}
    [] kind = "fontFamily" -> {"fontFamily", "string"}
    [] kind = "string" -> {"string"}

CheckType(token, kind) == token.type = "undefined" \/ token.type \in AcceptedTypes(kind)

\* normalise: the forms of value a kind is read from.  Colours and px
\* dimensions are strings, so a text or a font may be either.
Normalises(value, kind) ==
  CASE kind \in {"color", "colorToken"} -> value.form = "colour"
    [] kind = "number" -> value.form \in {"number", "px"}
    [] kind = "fontWeight" -> value.form = "number"
    [] kind = "fontFamily" -> value.form \in {"colour", "px", "text", "list"}
    [] kind = "string" -> value.form \in {"colour", "px", "text"}

\* Mutant: the base token wins.
FindBaseFirst(mode, path) ==
  IF path \in DOMAIN set[Base] THEN set[Base][path]
  ELSE IF path \in DOMAIN set[mode] THEN set[mode][path] ELSE NoToken

\* cascade: the mode's own token, then the one every mode shares.
Find(mode, path) ==
  IF path \in DOMAIN set[mode] THEN set[mode][path]
  ELSE IF path \in DOMAIN set[Base] THEN set[Base][path] ELSE NoToken

-----------------------------------------------------------------------------

PathsOf(table) == {table[i].path : i \in DOMAIN table}
In(mode, table) == [i \in DOMAIN table |-> [mode |-> mode, path |-> table[i].path, kind |-> table[i].kind]]

\* containedButton: all of it is read, or nothing; of half of it one path is
\* missing, and that throws.
ContainedJobs(mode) ==
  IF \A p \in PathsOf(Contained) : Find(mode, p) = NoToken THEN <<>> ELSE In(mode, Contained)

\* paletteOf, of a mode the export carries
PaletteJobs(mode) == In(mode, Palette) \o ContainedJobs(mode)

\* transform: modes the theme does not know are read as well, and what comes of
\* them is dropped.
Known == {ThemeModes[i] : i \in DOMAIN ThemeModes}
Extra == DOMAIN set \ ({Base} \union Known)

\* They come first, in any order, and the components, from base, last.
Due(mode) ==
  \/ mode \in Extra
  \/ /\ toRead \intersect Extra = {}
     /\ \E i \in DOMAIN ThemeModes : ThemeModes[i] = mode /\ \A j \in 1 .. i - 1 : ThemeModes[j] \notin toRead
  \/ toRead = {mode}

JobsOf(mode) == IF mode = Base THEN In(Base, Component) ELSE PaletteJobs(mode)

NoWalk == [at |-> NoToken, from |-> NoToken, chain |-> <<>>]

ThemeInit ==
  /\ set \in TokenSets
  /\ theme = <<>> /\ walk = NoWalk /\ jobs = <<>>
  /\ IF Base \in DOMAIN set
     THEN outcome = "reading" /\ toRead = Extra \union Known \union {Base}
     ELSE outcome = "mode missing" /\ toRead = {}

Job == Head(jobs)

Refuse(error) == outcome' = error /\ UNCHANGED <<set, toRead, jobs, walk, theme>>

Got(value) ==
  /\ LET key == <<Job.mode, Job.path>>
     IN  theme' = [k \in DOMAIN theme \union {key} |-> IF k = key THEN value ELSE theme[k]]
  /\ jobs' = Tail(jobs)
  /\ walk' = NoWalk
  /\ UNCHANGED <<set, toRead, outcome>>

\* The next palette, or the components.
ReadMode ==
  /\ outcome = "reading" /\ jobs = <<>>
  /\ \E mode \in toRead :
       /\ Due(mode)
       /\ IF mode \in DOMAIN set
          THEN /\ toRead' = toRead \ {mode} /\ jobs' = JobsOf(mode)
               /\ UNCHANGED <<set, walk, theme, outcome>>
          ELSE Refuse("mode missing")

Reading == outcome = "reading" /\ jobs # <<>>

\* valueAt: the token is looked up; a palette reference keeps the name.
LookUp ==
  /\ Reading /\ walk = NoWalk
  /\ LET token == Find(Job.mode, Job.path)
     IN  CASE token = NoToken -> Refuse("required token missing")
           [] token # NoToken /\ Job.kind = "colorToken" /\ token.alias \in ColorPaths ->
                IF CheckType(token, Job.kind) THEN Got([form |-> "name", id |-> token.alias])
                ELSE Refuse("type")
           [] OTHER -> /\ walk' = [at |-> token, from |-> token, chain |-> <<Job.path>>]
                       /\ UNCHANGED <<set, toRead, jobs, theme, outcome>>

\* Mutant: only an alias that leads straight back is a cycle.
FollowShortsighted ==
  /\ Reading /\ walk # NoWalk /\ Alias(walk.at)
  /\ LET target == walk.at.alias
         next == Find(Job.mode, target)
     IN  CASE target = walk.chain[Len(walk.chain)] -> Refuse("alias cycle")
           [] target # walk.chain[Len(walk.chain)] /\ next = NoToken -> Refuse("alias not found")
           [] OTHER -> /\ walk' = [walk EXCEPT !.at = next, !.chain = <<@[1], target>>]
                       /\ UNCHANGED <<set, toRead, jobs, theme, outcome>>

\* followAliases: one step.
Follow ==
  /\ Reading /\ walk # NoWalk /\ Alias(walk.at)
  /\ LET target == walk.at.alias
         next == Find(Job.mode, target)
         cycle == \E i \in DOMAIN walk.chain : walk.chain[i] = target
     IN  CASE cycle -> Refuse("alias cycle")
           [] ~ cycle /\ next = NoToken -> Refuse("alias not found")
           [] OTHER -> /\ walk' = [walk EXCEPT !.at = next, !.chain = Append(@, target)]
                       /\ UNCHANGED <<set, toRead, jobs, theme, outcome>>

\* resolved: the token that was asked for and the concrete one are checked.
Resolve ==
  /\ Reading /\ walk # NoWalk /\ ~ Alias(walk.at)
  /\ CASE ~ (CheckType(walk.from, Job.kind) /\ CheckType(walk.at, Job.kind)) -> Refuse("type")
       [] CheckType(walk.from, Job.kind) /\ CheckType(walk.at, Job.kind)
            /\ ~ Normalises(walk.at.value, Job.kind) -> Refuse("value")
       [] OTHER -> Got(walk.at.value)
Named(leaf) == theme[<<Base, leaf.path>>].form = "name"

\* checkedComponents, once everything is read.
CheckComponents ==
  /\ outcome = "reading" /\ jobs = <<>> /\ toRead = {}
  /\ outcome' =
       IF \A i \in DOMAIN Component : LET leaf == Component[i] IN
            leaf.kind = "colorToken" /\ Named(leaf) => theme[<<Base, leaf.path>>].id \in PalettePaths
       THEN "done" ELSE "not a palette colour"
  /\ UNCHANGED <<set, toRead, jobs, walk, theme>>

ThemeNext == ReadMode \/ LookUp \/ Follow \/ Resolve \/ CheckComponents

\* The transform is one synchronous call.
ThemeSpec == ThemeInit /\ [][ThemeNext]_themeVars /\ WF_themeVars(ThemeNext)

-----------------------------------------------------------------------------
(* What is emitted: resolvePaletteToken reads the name in the mode's       *)
(* palette, and gives the name itself when the palette has no such shade.  *)

\* Mutant: the light palette serves every mode.
EmittedInFirstMode(mode, path) ==
  LET value == theme[<<Base, path>>]
  IN  IF value.form = "name" /\ value.id \in PathsOf(Palette)
      THEN theme[<<ThemeModes[1], value.id>>] ELSE value

Emitted(mode, path) ==
  LET value == theme[<<Base, path>>]
  IN  IF value.form = "name" /\ value.id \in PathsOf(Palette)
      THEN theme[<<mode, value.id>>] ELSE value

-----------------------------------------------------------------------------
(* The reference: no walk, but what the aliases of a mode relate.          *)

ModesRead == Known \union Extra

\* A mode's tokens laid over the base ones.
Layered(mode) ==
  [p \in DOMAIN set[mode] \union DOMAIN set[Base] |-> IF p \in DOMAIN set[mode] THEN set[mode][p] ELSE set[Base][p]]
Aliased(mode) == {p \in DOMAIN Layered(mode) : Alias(Layered(mode)[p])}

AliasClosed(mode, paths) == \A p \in paths \cap Aliased(mode) : Layered(mode)[p].alias \in paths

\* The paths an alias leads through: the smallest closed set.
Reach(mode, path) == {q \in ThemePath : \A S \in SUBSET ThemePath : path \in S /\ AliasClosed(mode, S) => q \in S}

\* The tokens at its end: none, if it ends in a cycle or in a missing token.
Ends(mode, path) ==
  {Layered(mode)[q] : q \in (Reach(mode, path) \cap DOMAIN Layered(mode)) \ Aliased(mode)}

Fits(mode, path, kind) ==
  \E token \in Ends(mode, path) :
    CheckType(Layered(mode)[path], kind) /\ CheckType(token, kind) /\ Normalises(token.value, kind)

FitsComponent(leaf) ==
  IF leaf.path \in Aliased(Base) /\ leaf.kind = "colorToken" /\ set[Base][leaf.path].alias \in ColorPaths
  THEN CheckType(set[Base][leaf.path], leaf.kind) /\ set[Base][leaf.path].alias \in PalettePaths
  ELSE Fits(Base, leaf.path, leaf.kind)

LeavesOf(table) == {table[i] : i \in DOMAIN table}

Acceptable ==
  /\ {Base} \union Known \subseteq DOMAIN set
  /\ \A m \in ModesRead :
       /\ \A leaf \in LeavesOf(Palette) : Fits(m, leaf.path, leaf.kind)
       /\ PathsOf(Contained) \cap DOMAIN Layered(m) # {} =>
            \A leaf \in LeavesOf(Contained) : Fits(m, leaf.path, leaf.kind)
  /\ \A leaf \in LeavesOf(Component) : FitsComponent(leaf)

-----------------------------------------------------------------------------

\* The walk never goes in circles: no path twice in its chain, and it stands
\* at the token its last path names.
ThemeTypeOK ==
  walk # NoWalk =>
    /\ \A i, j \in DOMAIN walk.chain : walk.chain[i] = walk.chain[j] => i = j
    /\ walk.at = Find(Job.mode, walk.chain[Len(walk.chain)])

\* The loops of transform (theme.ts, cascade.ts, normalise.ts), which stop at
\* the first error, accept exactly the token sets of which every mode,
\* component and contained button is in order, and read for every path the
\* token its aliases end in, through the mode's layers.
TransformIsReference ==
  outcome # "reading" =>
    /\ outcome = "done" <=> Acceptable
    /\ outcome = "done" =>
         \A m \in ModesRead : \A leaf \in LeavesOf(Palette) :
           \E token \in Ends(m, leaf.path) : theme[<<m, leaf.path>>] = token.value

\* A component colour that names a colour of the palette is emitted, mode by
\* mode, as what its alias means in that mode, although it is read once, from
\* base, and bound by name much later (palettePath.ts L30-36, flatten.ts L14-24).
ComponentsFollowTheMode ==
  outcome = "done" =>
    \A leaf \in LeavesOf(Component), m \in Known :
      leaf.kind = "colorToken" /\ Named(leaf) /\ theme[<<Base, leaf.path>>].id \in PathsOf(Palette) =>
        \E token \in Ends(m, set[Base][leaf.path].alias) : Emitted(m, leaf.path) = token.value

\* palettePath.ts L7: "A shade a mode has not set is a TokenError, by design."
\* So what an accepted export emits for a component colour is a colour.
ShadesResolve ==
  outcome = "done" =>
    \A leaf \in LeavesOf(Component), m \in Known :
      leaf.kind = "colorToken" => Emitted(m, leaf.path).form = "colour"

\* Every transform ends, whatever cycles the aliases have.
TransformEnds == <>(outcome # "reading")
=============================================================================
