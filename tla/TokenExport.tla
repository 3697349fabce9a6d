---------------------------- MODULE TokenExport -----------------------------
(***************************************************************************)
(* A design-token export as dtcg.ts reads it, and how diff.ts compares two *)
(* of them.  An export is a function from the names of its files to their  *)
(* tokens, a file a function from token paths to a type and a value; the   *)
(* mode a token belongs to is in the name of its file.                     *)
(***************************************************************************)
EXTENDS FiniteSets, Naturals

CONSTANTS
  File,        \* names of token files
  ModeOf,      \* ModeOf[f]: the second segment of the name, in lower case
  Path,        \* token paths
  Type,        \* $type of a token, the undefined one included
  NoType,      \* $type is undefined
  Value,       \* $value of a token, as JSON spells it
  Display,     \* Display[v]: the value as a diff shows it
  Nothing      \* no token, no text, no plan

ASSUME ExportAssumption ==
  /\ NoType \in Type
  /\ DOMAIN ModeOf = File
  /\ DOMAIN Display = Value

Token == [type : Type, value : Value]
Mode == {ModeOf[f] : f \in File}
Entry == [mode : Mode, path : Path, type : Type, value : Value]

\* parseDtcgFiles throws when two files of a mode define one path.
Parses(export) ==
  \A f, g \in DOMAIN export :
    f # g /\ ModeOf[f] = ModeOf[g] => DOMAIN export[f] \cap DOMAIN export[g] = {}

\* The token set, one entry per mode and path.
Tokens(export) ==
  UNION {{[mode |-> ModeOf[f], path |-> p, type |-> export[f][p].type, value |-> export[f][p].value]
            : p \in DOMAIN export[f]} : f \in DOMAIN export}

\* What a diff can see of a token set: the types, and the values as displayed.
Shown(tokens) ==
  {[mode |-> t.mode, path |-> t.path, type |-> t.type, shows |-> Display[t.value]] : t \in tokens}

At(tokens, mode, path) == {t \in tokens : t.mode = mode /\ t.path = path}

\* A change of a token between two exports.
Displayable == {Display[v] : v \in Value} \union {Nothing}
TokenChange ==
  [mode : Mode, path : Path, kind : {"added", "changed", "removed"}, type : Type, retypedFrom : Type,
   before : Displayable, after : Displayable]

\* compare of diff.ts: the changes it makes of a token that only one side has,
\* or of two tokens of one path that differ.
ChangeOf(t, kind, type, retypedFrom, before, after) ==
  [mode |-> t.mode, path |-> t.path, kind |-> kind, type |-> type, retypedFrom |-> retypedFrom,
   before |-> before, after |-> after]

Added(u) == ChangeOf(u, "added", u.type, NoType, Nothing, Display[u.value])
Removed(t) == ChangeOf(t, "removed", t.type, NoType, Display[t.value], Nothing)
Changed(t, u) ==
  ChangeOf(t, "changed", u.type, IF t.type = u.type THEN NoType ELSE t.type, Display[t.value], Display[u.value])

Differ(t, u) == Display[t.value] # Display[u.value] \/ t.type # u.type

\* diffTokens, of two exports that parse: at most one token per mode and path.
Diff(source, target) ==
  LET before == Tokens(source)
      after == Tokens(target)
  IN  {Added(u) : u \in {v \in after : At(before, v.mode, v.path) = {}}}
        \union {Removed(t) : t \in {v \in before : At(after, v.mode, v.path) = {}}}
        \union UNION {{Changed(t, u) : u \in {v \in At(after, t.mode, t.path) : Differ(t, v)}} : t \in before}

\* Mutant: a token whose type moved is a changed value like any other.
BumpIgnoringTypes(changes) ==
  IF changes = {} THEN "none"
  ELSE IF \E c \in changes : c.kind = "removed" THEN "major"
  ELSE IF \E c \in changes : c.kind = "added" THEN "minor" ELSE "patch"

BumpFor(changes) ==
  LET breaks(c) == c.kind = "removed" \/ c.retypedFrom # NoType
      adds == \E c \in changes : c.kind = "added"
  IN  IF changes = {} THEN "none"
      ELSE IF \E c \in changes : breaks(c) THEN "major"
      ELSE IF adds THEN "minor" ELSE "patch"

\* bumpReason: what a reader of the pull request is told of the bump.
BumpReason(changes) ==
  LET count(kind) == Cardinality({c \in changes : c.kind = kind})
      retyped == Cardinality({c \in changes : c.retypedFrom # NoType})
      breaks == \E c \in changes : c.kind = "removed" \/ c.retypedFrom # NoType
      adds == \E c \in changes : c.kind = "added"
  IN  IF breaks THEN [says |-> "can break", removed |-> count("removed"), retyped |-> retyped]
      ELSE IF adds THEN [says |-> "none removed or retyped", added |-> count("added")]
      ELSE [says |-> "values changed", changed |-> Cardinality(changes)]

=============================================================================
