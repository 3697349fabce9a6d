---------------------------- MODULE TokenTargets -----------------------------
(***************************************************************************)
(* build-tokens.ts: one export, four generated files.  They are committed  *)
(* beside the export; the gate of a pull request builds them again and     *)
(* compares; the API serves the .NET one, tagged with its version, to      *)
(* clients that ask again with the tag they have.                          *)
(*                                                                         *)
(* An export is the theme inputs that transform() makes of it (or Refused, *)
(* when it throws) and the version of the ledger beside it.                *)
(***************************************************************************)
EXTENDS TokenFlatten, Naturals

CONSTANTS
  Exports,        \* theme inputs, or Refused
  FirstExport,    \* what is on main and deployed at first
  Schema,         \* [shared, palette, contained, components]: the paths of the schema
  Refused, Absent, Edited, NotBuilding, NoSnapshot, NotCached,
  MaxReleases, MaxHandEdits, MaxBuilds  \* bounds

ASSUME TargetsAssumption == FirstExport \in Exports \ {Refused} /\ MaxReleases \in Nat

VARIABLES
  work,      \* a working copy: [inputs, version, files]
  building,  \* targets that a build has made and not yet written, or NotBuilding
  proposed,  \* the snapshot that a pull request carries, or NoSnapshot
  onMain,    \* the main branch
  deployed,  \* Tokens.g.cs of the API that runs
  cached,    \* a client: the last [version, sets] it was given, or NotCached
  relabelled,\* main has had two exports under one version
  releases, handEdits, builds

targetVars ==
  <<work, building, proposed, onMain, deployed, cached, relabelled, releases, handEdits, builds>>

-----------------------------------------------------------------------------
(* emit/: the text of a file is what can be read from it.                  *)

Pick(paths, source) == [p \in paths \cap DOMAIN source |-> source[p]]

\* emit of typescript.ts: the schema's keys, a contained button if there is one.
Emit(inputs) ==
  [shared |-> Pick(Schema.shared, inputs.shared),
   palettes |-> [m \in ThemeMode |-> Pick(Schema.palette \union Schema.contained, inputs.palettes[m])],
   components |-> Pick(Schema.components, inputs.components)]

EmitCss(inputs) == [m \in ThemeMode |-> CssVariables(inputs, m)]

EmitJson(inputs, version) ==
  [version |-> version, tokens |-> [m \in ThemeMode |-> TokensFor(FlattenTheme(inputs), m)]]

\* Every value is quoted.
Quoted(value) == IF value.form = "number" THEN [value EXCEPT !.form = "text"] ELSE value

\* Mutant: the version is the one of a checkout without a ledger.
EmitCSharpUnstamped(inputs, version) ==
  [version |-> 0,
   sets |-> [m \in ThemeMode |->
      LET tokens == TokensFor(FlattenTheme(inputs), m) IN [p \in DOMAIN tokens |-> Quoted(tokens[p])]]]

EmitCSharp(inputs, version) ==
  [version |-> version,
   sets |-> [m \in ThemeMode |->
      LET tokens == TokensFor(FlattenTheme(inputs), m) IN [p \in DOMAIN tokens |-> Quoted(tokens[p])]]]

\* targets(), in the order they are written
Order == <<"theme-inputs.ts", "tokens.css", "tokens.json", "Tokens.g.cs">>
Target == {Order[i] : i \in DOMAIN Order}

TargetsOf(inputs, version) ==
  [t \in Target |->
     CASE t = "theme-inputs.ts" -> Emit(inputs)
       [] t = "tokens.css" -> EmitCss(inputs)
       [] t = "tokens.json" -> EmitJson(inputs, version)
       [] t = "Tokens.g.cs" -> EmitCSharp(inputs, version)]

\* transform() makes what the schema lists and nothing else; no generated file
\* is what a hand edit or a deletion leaves.
ASSUME ExportsAssumption ==
  \A inputs \in Exports \ {Refused} :
    /\ Pick(Schema.shared, inputs.shared) = inputs.shared
    /\ Pick(Schema.components, inputs.components) = inputs.components
    /\ \A m \in ThemeMode :
         /\ Pick(Schema.palette \union Schema.contained, inputs.palettes[m]) = inputs.palettes[m]
         /\ DOMAIN TokensFor(FlattenTheme(inputs), m) \subseteq FlatPaths
    /\ \A version \in 1 .. MaxReleases + 1, t \in Target : TargetsOf(inputs, version)[t] \notin {Absent, Edited}

-----------------------------------------------------------------------------

FirstTree == [inputs |-> FirstExport, version |-> 1, files |-> TargetsOf(FirstExport, 1)]

TargetsInit ==
  /\ work = FirstTree /\ onMain = FirstTree /\ proposed = NoSnapshot
  /\ building = NotBuilding
  /\ deployed = FirstTree.files["Tokens.g.cs"] /\ cached = NotCached
  /\ relabelled = FALSE /\ releases = 0 /\ handEdits = 0 /\ builds = 0

\* A sync writes another export with a ledger of the next version.
SyncExport(inputs) ==
  /\ releases < MaxReleases /\ inputs # work.inputs /\ inputs # Refused
  /\ work' = [work EXCEPT !.inputs = inputs, !.version = @ + 1]
  /\ releases' = releases + 1
  /\ UNCHANGED <<building, proposed, onMain, deployed, cached, relabelled, handEdits, builds>>

\* Somebody edits the export, a generated file, or deletes it.
EditExport(inputs) ==
  /\ handEdits < MaxHandEdits /\ inputs # work.inputs
  /\ work' = [work EXCEPT !.inputs = inputs] /\ handEdits' = handEdits + 1
  /\ UNCHANGED <<building, proposed, onMain, deployed, cached, relabelled, releases, builds>>

EditTarget(t, text) ==
  /\ handEdits < MaxHandEdits
  /\ work' = [work EXCEPT !.files[t] = text] /\ handEdits' = handEdits + 1
  /\ UNCHANGED <<building, proposed, onMain, deployed, cached, relabelled, releases, builds>>

\* main without --check: everything is made, then written file by file; a
\* TokenError comes before the first.
BuildTargets ==
  /\ building = NotBuilding /\ work.inputs # Refused /\ builds < MaxBuilds
  /\ building' = [text |-> TargetsOf(work.inputs, work.version), left |-> Order]
  /\ builds' = builds + 1
  /\ UNCHANGED <<work, proposed, onMain, deployed, cached, relabelled, releases, handEdits>>

WriteTarget ==
  /\ building # NotBuilding
  /\ work' = [work EXCEPT !.files[Head(building.left)] = building.text[Head(building.left)]]
  /\ building' = IF Len(building.left) = 1 THEN NotBuilding ELSE [building EXCEPT !.left = Tail(@)]
  /\ UNCHANGED <<proposed, onMain, deployed, cached, relabelled, releases, handEdits, builds>>

\* The build is interrupted.
Interrupt ==
  /\ building # NotBuilding
  /\ building' = NotBuilding
  /\ UNCHANGED <<work, proposed, onMain, deployed, cached, relabelled, releases, handEdits, builds>>

\* A commit is pushed and a pull request opened, whatever the working copy holds.
Propose ==
  /\ proposed = NoSnapshot /\ work # onMain
  /\ proposed' = work
  /\ UNCHANGED <<work, building, onMain, deployed, cached, relabelled, releases, handEdits, builds>>

\* Mutant: a file that is not there is not stale.
StaleIfThere(tree) ==
  {t \in Target : tree.files[t] # Absent /\ tree.files[t] # TargetsOf(tree.inputs, tree.version)[t]}

\* main with --check
Stale(tree) == {t \in Target : tree.files[t] # TargetsOf(tree.inputs, tree.version)[t]}

Check(tree) == IF tree.inputs = Refused THEN 1 ELSE IF Stale(tree) # {} THEN 1 ELSE 0

\* The gate of the pull request, and the merge.
Gate ==
  /\ proposed # NoSnapshot
  /\ IF Check(proposed) = 0
     THEN /\ onMain' = proposed
          /\ relabelled' = (relabelled \/ (proposed.version = onMain.version /\ proposed.inputs # onMain.inputs))
     ELSE UNCHANGED <<onMain, relabelled>>
  /\ proposed' = NoSnapshot
  /\ UNCHANGED <<work, building, deployed, cached, releases, handEdits, builds>>

Deploy ==
  /\ deployed # onMain.files["Tokens.g.cs"]
  /\ deployed' = onMain.files["Tokens.g.cs"]
  /\ UNCHANGED <<work, building, proposed, onMain, cached, relabelled, releases, handEdits, builds>>

\* NotModified, by the tag, which is the version
NotModified(tag) == tag = deployed.version

\* GET /api/design-tokens/{mode}, with the tag of what the client has.
Get ==
  /\ cached' = IF cached # NotCached /\ NotModified(cached.version) THEN cached ELSE deployed
  /\ cached' # cached
  /\ UNCHANGED <<work, building, proposed, onMain, deployed, relabelled, releases, handEdits, builds>>

TargetsNext ==
  \/ \E inputs \in Exports : SyncExport(inputs) \/ EditExport(inputs)
  \/ \E t \in Target, text \in {Absent, Edited} : EditTarget(t, text)
  \/ BuildTargets \/ WriteTarget \/ Interrupt
  \/ Propose \/ Gate \/ Deploy \/ Get

TargetsSpec == TargetsInit /\ [][TargetsNext]_targetVars

-----------------------------------------------------------------------------

\* build-tokens.ts L3-4: "Every consumer gets the same values from the same
\* export, so none of them can drift."  On main, whatever was edited by hand,
\* deleted, built halfway or from an export that has changed since, the four
\* files have the same tokens in every mode with the same values, those of the
\* export beside them, and the two that carry a version carry the ledger's.
MainHasNoDrift ==
  LET files == onMain.files
  IN  /\ Absent \notin {files[t] : t \in Target} /\ Edited \notin {files[t] : t \in Target}
      /\ {files["tokens.json"].version, files["Tokens.g.cs"].version} = {onMain.version}
      /\ \A m \in ThemeMode :
           LET tokens == TokensFor(FlattenTheme(onMain.inputs), m)
               ts == TokensFor(FlattenTheme(files["theme-inputs.ts"]), m)
           IN  /\ ts = tokens
               /\ DOMAIN files["tokens.css"][m] = {CustomProperty[p] : p \in DOMAIN tokens}
               /\ DOMAIN files["tokens.json"].tokens[m] = DOMAIN tokens
               /\ DOMAIN files["Tokens.g.cs"].sets[m] = DOMAIN tokens
               /\ \A p \in DOMAIN tokens :
                    /\ files["tokens.json"].tokens[m][p] = tokens[p]
                    /\ files["Tokens.g.cs"].sets[m][p] = Quoted(tokens[p])
                    /\ files["tokens.css"][m][CustomProperty[p]] = CssValue(p, tokens[p])

\* DesignTokenEndpoints.cs L30: "a client caches until the next release."  So
\* the values a client holds under the served version are the served ones,
\* across any deployments; unless main has had two exports under one version,
\* which the gate lets through: it compares with the export, not with the
\* digest of the ledger.
CachesHoldTheRelease ==
  ~ relabelled /\ cached # NotCached /\ NotModified(cached.version) => cached = deployed

=============================================================================
