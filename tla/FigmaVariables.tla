--------------------------- MODULE FigmaVariables ---------------------------
(***************************************************************************)
(* variables.ts: a Figma payload becomes token files.  Every variable is   *)
(* placed, mode by mode, into the tree of its file; then a type that all   *)
(* tokens below a group share is moved up onto a group.  dtcg.ts reads the *)
(* tree back: a token without a type takes the nearest one above it.       *)
(***************************************************************************)
EXTENDS Naturals, SequencesExt

CONSTANTS
  Payloads,     \* sequences of variables
  Collections,  \* collection -> the sequence of its modes
  NoRaw         \* valuesByMode has no value for a mode

\* A variable: name (its segments; none starts with $), collection,
\* resolvedType, scopes and raw (mode -> value, for every mode of the
\* collection); a raw value has a form: colour, number, text, alias.
ASSUME PayloadsAssumption ==
  \A variables \in Payloads :
    /\ Len(variables) \in Nat /\ DOMAIN variables = 1 .. Len(variables)
    /\ \A i \in DOMAIN variables :
         /\ variables[i].name \in Seq(STRING) /\ variables[i].name # <<>> /\ variables[i].scopes \in Seq(STRING)
         /\ variables[i].resolvedType \in {"COLOR", "FLOAT", "STRING", "BOOLEAN"}

\* A collection has every mode once.
ASSUME CollectionsAssumption ==
  \A c \in DOMAIN Collections :
    /\ Collections[c] \in Seq(Range(Collections[c]))
    /\ \A i, j \in DOMAIN Collections[c] : Collections[c][i] = Collections[c][j] => i = j

VARIABLES
  payload,  \* the variables, in the order of the payload
  at,       \* the variable that toDtcgFiles is at
  modes,    \* the modes of its collection that are left
  files,    \* <<collection, mode>> -> the tree of the file
  result    \* "placing", "done", or the FigmaError that was thrown

figmaVars == <<payload, at, modes, files, result>>

ScopeTypes ==
  [CORNER_RADIUS |-> "dimension", FONT_SIZE |-> "dimension", WIDTH_HEIGHT |-> "dimension",
   GAP |-> "dimension", FONT_WEIGHT |-> "fontWeight", FONT_FAMILY |-> "fontFamily"]

ResolvedTypes == [COLOR |-> "color", FLOAT |-> "number", STRING |-> "string", BOOLEAN |-> "boolean"]

\* dtcgType: the first scope that says something about the type, decides.
DtcgType(variable) ==
  LET telling == {i \in DOMAIN variable.scopes : variable.scopes[i] \in DOMAIN ScopeTypes}
  IN  IF telling = {} THEN ResolvedTypes[variable.resolvedType]
      ELSE ScopeTypes[variable.scopes[CHOOSE i \in telling : \A j \in telling : i <= j]]

\* value(): what the file holds for a raw value, or the error.
Converted(variable, raw) ==
  LET type == DtcgType(variable)
      names == {payload[i].name : i \in DOMAIN payload}
  IN  CASE raw.form = "alias" -> IF raw.id \in names THEN [form |-> "alias", id |-> raw.id]
                                 ELSE [form |-> "error", id |-> raw.id]
        [] raw.form # "alias" /\ type = "color" -> IF raw.form = "colour" THEN [form |-> "hex", id |-> raw.id]
                                ELSE [form |-> "error", id |-> raw.id]
        [] raw.form = "colour" /\ type # "color" -> [form |-> "error", id |-> raw.id]
        [] raw.form \notin {"alias", "colour"} /\ type = "dimension" -> [form |-> "px", id |-> raw.id]
        [] raw.form \notin {"alias", "colour"} /\ type = "fontFamily" -> [form |-> "list", id |-> raw.id]
        [] raw.form \notin {"alias", "colour"} /\ type \notin {"color", "dimension", "fontFamily"} -> raw

-----------------------------------------------------------------------------
(* A tree is a function of its paths, <<>> the root: groups and tokens,    *)
(* each with a $type or none.                                              *)

Untyped == "none"
Leaf(type, value) == [kind |-> "token", type |-> type, value |-> value]
Group == [kind |-> "group", type |-> Untyped, value |-> NoRaw]
EmptyTree == [p \in {<<>>} |-> Group]
IsToken(node) == node.kind = "token"

\* place: a name that is taken, or that leads through a token, is an error.
Taken(tree, path) ==
  path \in DOMAIN tree \/ \E p \in DOMAIN tree : IsPrefix(p, path) /\ IsToken(tree[p])

Place(tree, path, node) ==
  [p \in DOMAIN tree \union Prefixes(path) |->
     IF p = path THEN node ELSE IF p \in DOMAIN tree THEN tree[p] ELSE Group]

TokensOf(tree, p) == {q \in DOMAIN tree : IsPrefix(p, q) /\ IsToken(tree[q])}

\* Mutant: two tokens of one type are enough.
SharesIfTwoDo(tree, p) ==
  \E q, r \in TokensOf(tree, p) : q # r /\ tree[q].type = tree[r].type

\* More than one token, and one type.
Shares(tree, p) ==
  /\ \E q, r \in TokensOf(tree, p) : q # r
  /\ \A q, r \in TokensOf(tree, p) : tree[q].type = tree[r].type

\* hoistTypes goes down from the root, to the first groups that share a type.
Shared(tree) ==
  {p \in DOMAIN tree : Shares(tree, p) /\ \A r \in DOMAIN tree : IsStrictPrefix(r, p) => ~ Shares(tree, r)}

Children(tree, p) == {q \in DOMAIN tree : IsPrefix(p, q) /\ Len(q) = Len(p) + 1}
OneGroup(tree, p) == \E q \in Children(tree, p) : Children(tree, p) = {q} /\ ~ IsToken(tree[q])

\* hoist: and further down through groups that have one child, which is a group.
Lands(tree, p, q) ==
  /\ IsPrefix(p, q) /\ ~ OneGroup(tree, q)
  /\ \A r \in DOMAIN tree : IsPrefix(p, r) /\ IsStrictPrefix(r, q) => OneGroup(tree, r)
Homes(tree) == {q \in DOMAIN tree : \E p \in Shared(tree) : Lands(tree, p, q)}

\* There the type goes, and the tokens below lose theirs (stripTypes).
HoistTypes(tree) ==
  [q \in DOMAIN tree |->
     CASE q \in Homes(tree) -> [tree[q] EXCEPT !.type = tree[CHOOSE t \in TokensOf(tree, q) : TRUE].type]
       [] IsToken(tree[q]) /\ \E home \in Homes(tree) : IsPrefix(home, q) -> [tree[q] EXCEPT !.type = Untyped]
       [] OTHER -> tree[q]]

\* tokensIn of dtcg.ts: a token has its own type, or the nearest one above it.
TypeAt(tree, q) ==
  LET typed == {p \in DOMAIN tree : IsPrefix(p, q) /\ tree[p].type # Untyped}
  IN  IF typed = {} THEN "undefined"
      ELSE tree[CHOOSE p \in typed : \A r \in typed : Len(r) <= Len(p)].type

TokensIn(tree) ==
  {[path |-> q, type |-> TypeAt(tree, q), value |-> tree[q].value] : q \in TokensOf(tree, <<>>)}

-----------------------------------------------------------------------------

FigmaInit ==
  /\ payload \in Payloads
  /\ at = 0 /\ modes = <<>>
  /\ files = <<>>
  /\ result = "placing"

FigmaThrow(error) == result' = error /\ UNCHANGED <<payload, at, modes, files>>

\* The loops of toDtcgFiles: the next variable, whose collection must exist,
NextVariable ==
  /\ result = "placing" /\ modes = <<>> /\ at < Len(payload)
  /\ LET collection == payload[at + 1].collection
     IN  IF collection \in DOMAIN Collections
         THEN /\ at' = at + 1 /\ modes' = Collections[collection]
              /\ UNCHANGED <<payload, files, result>>
         ELSE FigmaThrow("unknown collection")

\* and its value in the next mode, if it has one.
PlaceNext ==
  /\ result = "placing" /\ modes # <<>>
  /\ LET v == payload[at]
         raw == v.raw[Head(modes)]
         file == <<v.collection, Head(modes)>>
         tree == IF file \in DOMAIN files THEN files[file] ELSE EmptyTree
         node == Leaf(DtcgType(v), Converted(v, raw))
     IN  CASE raw = NoRaw -> modes' = Tail(modes) /\ UNCHANGED <<payload, at, files, result>>
           [] raw # NoRaw /\ node.value.form = "error" -> FigmaThrow("value")
           [] raw # NoRaw /\ node.value.form # "error" /\ Taken(tree, v.name) -> FigmaThrow("defined twice")
           [] OTHER ->
                /\ files' = [f \in DOMAIN files \union {file} |-> IF f = file THEN Place(tree, v.name, node) ELSE files[f]]
                /\ modes' = Tail(modes)
                /\ UNCHANGED <<payload, at, result>>

Finish ==
  /\ result = "placing" /\ modes = <<>> /\ at = Len(payload)
  /\ IF files = <<>> THEN FigmaThrow("no variables")
     ELSE /\ files' = [f \in DOMAIN files |-> HoistTypes(files[f])]
          /\ result' = "done"
          /\ UNCHANGED <<payload, at, modes>>

FigmaNext == NextVariable \/ PlaceNext \/ Finish

FigmaSpec == FigmaInit /\ [][FigmaNext]_figmaVars

-----------------------------------------------------------------------------

ModesOf(i) == Range(Collections[payload[i].collection])
InFile(g) == <<payload[g[1]].collection, g[2]>>
ValueOf(g) == Converted(payload[g[1]], payload[g[1]].raw[g[2]])

\* A variable, and a mode in which it has a value.
Given ==
  {g \in (DOMAIN payload) \X UNION {Range(Collections[c]) : c \in DOMAIN Collections} :
     /\ payload[g[1]].collection \in DOMAIN Collections
     /\ g[2] \in ModesOf(g[1]) /\ payload[g[1]].raw[g[2]] # NoRaw}

Convertible ==
  /\ Given # {}
  /\ \A i \in DOMAIN payload : payload[i].collection \in DOMAIN Collections
  /\ \A g \in Given : ValueOf(g).form # "error"
  /\ \A g, h \in Given : g # h /\ InFile(g) = InFile(h) => ~ IsPrefix(payload[g[1]].name, payload[h[1]].name)

\* A payload converts when its variables fit into trees and their values fit
\* their types; and then reading the files back (dtcg.ts L62-71) gives every
\* variable its own type again, wherever the shared types were moved to
\* (variables.ts L176-200).
TypesSurviveHoisting ==
  result # "placing" =>
    /\ result = "done" <=> Convertible
    /\ result = "done" =>
         /\ DOMAIN files = {InFile(g) : g \in Given}
         /\ \A f \in DOMAIN files :
              TokensIn(files[f]) =
                {[path |-> payload[g[1]].name, type |-> DtcgType(payload[g[1]]), value |-> ValueOf(g)]
                   : g \in {h \in Given : InFile(h) = f}}

=============================================================================
