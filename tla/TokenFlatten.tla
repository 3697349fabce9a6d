---------------------------- MODULE TokenFlatten -----------------------------
(***************************************************************************)
(* From theme inputs to what is written for a mode: overrides.ts lays      *)
(* partial inputs over others, flatten.ts makes one flat list per mode,    *)
(* cssVariables.ts names and spells its entries as custom properties.      *)
(*                                                                         *)
(* Theme inputs are [shared, palettes, components]: functions from paths   *)
(* to values, a palette per mode.  A path is the sequence of its keys.  A  *)
(* value is a record whose form is "number", "text" or, for a component    *)
(* colour, the "name" of a palette path; at the path of a list it is a     *)
(* "list", whose items are a function of their indices.                    *)
(***************************************************************************)
EXTENDS SequencesExt

CONSTANTS
  ThemeMode,   \* THEME_MODES
  FlatPaths,   \* the paths a flattened theme may have
  ListPaths,   \* the paths of the schema's lists, all of them in a palette
  Words        \* key -> its words in lower case, for the keys of more than one word

ASSUME ListsAssumption == ListPaths \subseteq Seq(STRING)

NoOverrides == [form |-> "undefined"]

\* Two functions in one; where both have a value, that of upper. (TLC's @@, of
\* which the prover knows no definition.)
Lay(upper, lower) ==
  [x \in DOMAIN upper \union DOMAIN lower |-> IF x \in DOMAIN upper THEN upper[x] ELSE lower[x]]

\* applyOverrides and merge: leaf by leaf; where nothing is laid over, the base.
\* A list is one leaf: it is replaced whole, whatever its length.
ApplyOverrides(inputs, overrides) ==
  IF overrides = NoOverrides THEN inputs
  ELSE [shared |-> Lay(overrides.shared, inputs.shared),
        palettes |-> [m \in ThemeMode |-> Lay(overrides.palettes[m], inputs.palettes[m])],
        components |-> Lay(overrides.components, inputs.components)]

\* The paths of the items of a list: its own and the index of each.
ItemsOf(leaves, list) == {Append(list, index) : index \in DOMAIN leaves[list].items}
ListItems(leaves) == UNION {ItemsOf(leaves, list) : list \in DOMAIN leaves \cap ListPaths}

\* flatten
Flatten(leaves) ==
  [p \in (DOMAIN leaves \ ListPaths) \union ListItems(leaves) |->
     IF p \in ListItems(leaves) THEN leaves[Front(p)].items[Last(p)] ELSE leaves[p]]

\* resolvePaletteToken
ResolvePaletteToken(palette, value) ==
  IF value.form = "name" /\ value.path \in DOMAIN palette THEN palette[value.path] ELSE value

\* A component path as flattened, and back.
ComponentPath(path) == <<"component">> \o path

\* forMode of flattenTheme
ForMode(palette, components) ==
  Lay([p \in {ComponentPath(q) : q \in DOMAIN components} |-> ResolvePaletteToken(palette, components[Tail(p)])],
      Flatten(palette))

FlattenTheme(inputs) ==
  [shared |-> inputs.shared,
   modes |-> [m \in ThemeMode |-> ForMode(inputs.palettes[m], inputs.components)]]

TokensFor(flat, mode) == Lay(flat.modes[mode], flat.shared)

\* customProperty: the dots become hyphens, and so does the start of every
\* further word of a key.
WordsOf(key) == IF key \in DOMAIN Words THEN Words[key] ELSE <<key>>
CustomProperty == [path \in FlatPaths |-> FlattenSeq([i \in DOMAIN path |-> WordsOf(path[i])])]

\* No two tokens have one property.
ASSUME PropertiesAreDistinct ==
  \A p, q \in FlatPaths : CustomProperty[p] = CustomProperty[q] => p = q

PathOf == [name \in {CustomProperty[p] : p \in FlatPaths} |->
             CHOOSE p \in FlatPaths : CustomProperty[p] = name]

\* UNITLESS, by the group and the last key.
Unitless(path) ==
  "opacity" \in {path[i] : i \in 1 .. Len(path) - 1} \/ path[Len(path)] \in {"weight", "fontWeight", "lineHeight"}

CssValue(path, value) ==
  IF value.form = "number" /\ ~ Unitless(path) THEN [value EXCEPT !.form = "px"] ELSE value

CssVariables(inputs, mode) ==
  LET flat == TokensFor(FlattenTheme(inputs), mode)
  IN  [name \in {CustomProperty[p] : p \in DOMAIN flat} |-> CssValue(PathOf[name], flat[PathOf[name]])]

ChangedCssVariables(base, inputs, mode) ==
  LET shipped == CssVariables(base, mode)
      now == CssVariables(inputs, mode)
  IN  [name \in {n \in DOMAIN now : n \notin DOMAIN shipped \/ shipped[n] # now[n]} |-> now[name]]

=============================================================================
