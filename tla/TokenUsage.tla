----------------------------- MODULE TokenUsage -----------------------------
(***************************************************************************)
(* build.ts of token-usage: which components of a package read which       *)
(* tokens, from what its sources read through names bound to the theme     *)
(* (scan.ts), name in token('...') calls (tsUsage.ts) and use in their     *)
(* stylesheets (cssUsage.ts).  The governance gate takes a token that is   *)
(* not in the result for one that nobody reads.                            *)
(*                                                                         *)
(* A source is what the scanner's patterns find in it; a token path is the *)
(* sequence of its segments.                                               *)
(***************************************************************************)
EXTENDS ImportAttribution

CONSTANTS
  TokenPaths,   \* TOKEN_PATHS
  Sources,      \* file -> [typed, bindings, reads, lines], a binding [alias, of, path, group]
  StyleRules,   \* rules of the stylesheets: [component, paths]
  ComponentOfMui, \* the MUI blocks the scanner knows, and their components
  NoBlock, NoComponent

\* A module has a name, and that is somebody's; paths are of keys.
ASSUME UsageAssumption ==
  /\ NoComponent \notin Module
  /\ \A f \in Module :
       /\ \A g \in Sources[f].typed : g.prefix \in Seq(STRING)
       /\ \A b \in Sources[f].bindings : b.path \in Seq(STRING) /\ b.group \in STRING

Roots == {[alias |-> "themeInputs", prefix |-> <<>>],
          [alias |-> "useAtlasTokens()", prefix |-> <<>>],
          [alias |-> "atlas.tokens", prefix |-> <<>>]}

\* joined: a prefix and no path make "prefix.", which ends in an empty segment.
Joined(prefix, path) ==
  IF prefix = <<>> THEN path ELSE prefix \o (IF path = <<>> THEN <<"">> ELSE path)

\* boundAliasesOf: what "const { group: alias } = of.path;" binds.
Bound(source, found) ==
  UNION {{[alias |-> b.alias, prefix |-> Joined(Joined(r.prefix, b.path), <<b.group>>)]
            : b \in {c \in source.bindings : c.of = r.alias}} : r \in found}

\* Mutant: a binding made from a binding is not found.
AliasesOneRound(source) ==
  LET given == Roots \union source.typed
  IN  given \union Bound(source, given)

\* aliasesIn: two rounds.
AliasesIn(source) ==
  LET given == Roots \union source.typed
      once == given \union Bound(source, given)
  IN  once \union Bound(source, once)

ReferencesOf(source, group) ==
  {Joined(group.prefix, r.path) : r \in {s \in source.reads : s.alias = group.alias}}
    \union (IF group.prefix \in TokenPaths THEN {group.prefix} ELSE {})

KnownPathsOf(reference) == {SubSeq(reference, 1, n) : n \in 1 .. Len(reference)} \cap TokenPaths

TokenPathsIn(source) ==
  UNION {KnownPathsOf(r) : r \in UNION {ReferencesOf(source, group) : group \in AliasesIn(source)}}

\* The component of a line of a file: the MUI block that was opened last, if
\* the scanner knows it, or the file's own name.
BlockOf(lines, i) ==
  LET opened == {j \in 1 .. i : lines[j].opens # NoBlock}
      last == CHOOSE j \in opened : \A k \in opened : k <= j
  IN  IF opened = {} \/ lines[last].opens \notin DOMAIN ComponentOfMui THEN NoComponent
      ELSE ComponentOfMui[lines[last].opens]

ComponentOf(f, i) ==
  IF BlockOf(Sources[f].lines, i) = NoComponent THEN f ELSE BlockOf(Sources[f].lines, i)

\* tsTokenUsage, as pairs of a path and a component
TsUsage ==
  UNION {UNION {{<<p, ComponentOf(f, i)>> : p \in Sources[f].lines[i].paths \cap TokenPaths}
                  : i \in DOMAIN Sources[f].lines} : f \in Files}

\* cssTokenUsage: a rule that names no component credits nothing.
CssUsage ==
  UNION {{<<p, rule.component>> : p \in rule.paths \cap TokenPaths}
          : rule \in {r \in StyleRules : r.component # NoComponent}}

\* buildTokenUsage, once every file is attributed
ImportUsage ==
  UNION {TokenPathsIn(Sources[f]) \X attributed[f] : f \in Files}

\* mergeUsage
Usage == ImportUsage \union CssUsage \union TsUsage

Built == module = Nobody /\ DOMAIN attributed = Files

\* What a binding from a name stands for.
Meant(prefix, b) == prefix \o b.path \o <<b.group>>

\* The scan reads a binding right from a name of the whole export, or with a
\* path behind the name.
Followed(prefix, b) == prefix = <<>> \/ b.path # <<>>

\* What a name of a source stands for, bound from a name bound from a name
\* that a root or a typed parameter gives.
Meanings(source, alias) ==
  LET given == Roots \union source.typed
      once == {w \in given \X source.bindings : w[2].of = w[1].alias /\ Followed(w[1].prefix, w[2])}
      twice == {v \in once \X source.bindings :
                  v[2].of = v[1][2].alias /\ Followed(Meant(v[1][1].prefix, v[1][2]), v[2])}
  IN  {g.prefix : g \in {h \in given : h.alias = alias}}
        \union {Meant(w[1].prefix, w[2]) : w \in {u \in once : u[2].alias = alias}}
        \union {Meant(Meant(v[1][1].prefix, v[1][2]), v[2]) : v \in {u \in twice : u[2].alias = alias}}

\* No token that a source reads through at most two bindings, or binds a name
\* to, is missing from the map: it is listed under every component that answers
\* for the source, and no token is listed that is not one or under nobody.
\* Two kinds of binding are excepted, as the scan loses them.  A third in a row
\* is not followed: scan.ts L78 takes it that it does not happen.  And one made
\* from a name of a group with no path behind the name, as in
\* "const { header } = components;" or "const { gap } = button;" of a typed
\* parameter: joined (L43) turns the missing path into "components.", so L71
\* makes "components..header", which begins no token's path, although L57 says
\* that the group can be at any depth and L78 that a binding can be made from
\* a binding.
NoReadTokenIsLost ==
  Built =>
    /\ \A f \in Files :
         /\ \A read \in Sources[f].reads : \A prefix \in Meanings(Sources[f], read.alias) :
              KnownPathsOf(Joined(prefix, read.path)) \X Owners(f) \subseteq Usage
         /\ \A b \in Sources[f].bindings : \A path \in Meanings(Sources[f], b.alias) \cap TokenPaths :
              KnownPathsOf(path) \X Owners(f) \subseteq Usage
    /\ \A use \in Usage : use[1] \in TokenPaths /\ use[2] # NoComponent

=============================================================================
