------------------------------ MODULE MCThemes ------------------------------
(***************************************************************************)
(* Instances of ThemeScopes and TokenTargets for TLC.  The pages have all  *)
(* tokens of the schema, the overrides of the designer's proposal, a       *)
(* brand, and nests of both.                                               *)
(***************************************************************************)
EXTENDS ThemeScopes, TokenTargets, ThemeSchema

Core == INSTANCE CoreComponents

\* Everything that the proof of concept draws, and everything it might.
MCParts == Core!App \union Core!AnyPart
MCUsageMap == Core!TokenUsageMap
MCUsagePath(path) == Core!NameInMap(path)

\* One series may have an item more than the schema's.
MCFlatPaths ==
  SharedPaths \union PalettePaths2 \union (SemanticPaths \ SchemaLists)
    \union In3("semantic", {"series"}, SeriesIndices \union {"9"})
    \union ButtonContainedPaths \union {<<"component">> \o p : p \in ComponentPaths}

NumberKeys == {"width", "size", "weight", "lineHeight", "control", "surface", "soft", "disabled", "xs", "sm", "md", "lg", "xl"}
IsNumber(path) ==
  path[Len(path)] \in NumberKeys /\ path[1] \notin {"primary", "semantic"}
Series(m, indices) ==
  [form |-> "list", items |-> [i \in indices |-> [form |-> "text", of |-> <<m, i>>]]]
Ship(m, path) ==
  IF path \in SchemaLists THEN Series(m, SeriesIndices)
  ELSE [form |-> IF IsNumber(path) THEN "number" ELSE "text", of |-> <<m, path>>]

MCShipped ==
  [shared |-> [p \in SharedPaths |-> Ship("shared", p)],
   palettes |-> [m \in ThemeMode |-> [p \in PalettePaths2 \union SemanticPaths |-> Ship(m, p)]],
   components |-> [p \in ComponentPaths |->
     IF p[2] \in DOMAIN ComponentColours THEN [form |-> "name", path |-> ComponentColours[p[2]]]
     ELSE IF p[2] = "borderColor" THEN [form |-> "name", path |-> <<"divider">>]
     ELSE [form |-> "number", of |-> <<"component", p>>]]]

None == [m \in ThemeMode |-> <<>>]
Over(sharedPart, palettesPart, componentsPart) ==
  [form |-> "overrides", shared |-> sharedPart, palettes |-> palettesPart, components |-> componentsPart]
Of(set, group) == [p \in {<<group, t[1], t[2]>> : t \in set} |->
                     [form |-> "number", of |-> <<(CHOOSE t \in set : <<group, t[1], t[2]>> = p)[3]>>]]

ProposalOver ==
  Over(Of(Proposal.typography, "typography"), None,
       [p \in {<<t[1], t[2]>> : t \in Proposal.components} |->
          [form |-> "number", of |-> <<(CHOOSE t \in Proposal.components : <<t[1], t[2]>> = p)[3]>>]])
\* The designer's button again as it is shipped.
BackToShipped ==
  Over(<<>>, None, [p \in In2("button", {"heightMd", "fontWeight"}) |-> MCShipped.components[p]])
Red == [form |-> "text", of |-> <<"red">>]
\* The brand's series is shorter, in light; the one laid over it is longer.
Short == <<"semantic", "series">> :> Series("brand", {"1", "2"})
Long == <<"semantic", "series">> :> Series("light", SeriesIndices \union {"9"})
Brand ==
  Over(<<"radius", "control">> :> [form |-> "number", of |-> <<0>>],
       [m \in ThemeMode |-> IF m = "dark" THEN <<>>
                           ELSE (<<"primary", "main">> :> Red) @@ Short @@ [p \in ButtonContainedPaths |-> Red]],
       <<"button", "softText">> :> [form |-> "name", path |-> <<"success", "main">>])

LongSeries == Over(<<>>, [m \in ThemeMode |-> IF m = "light" THEN Long ELSE <<>>], <<>>)

\* token-usage.ts is what the custom properties of the components come to, for
\* everything a component can be given.
ASSUME MapIsOfTheReads == {u \in Core!ReadBy(Core!AnyPart) : u[1] \in UsagePaths} = Core!TokenUsageMap

\* proposal.ts: "this is what the reviewer sees": the preview draws with every
\* token that the proposal changes.
ASSUME PreviewShowsTheProposal ==
  DOMAIN ProposalOver.shared \union {ComponentPath(q) : q \in DOMAIN ProposalOver.components}
    \subseteq UNION {part.reads \union part.themed : part \in Core!Preview}

MCStorages ==
  {[works |-> TRUE, mode |-> NoMode], [works |-> TRUE, mode |-> "dark"], [works |-> FALSE, mode |-> NoMode]}
MCHostTokens == {NoOverrides, Brand}
MCHostThemes == {NoTheme, CreateAtlasTheme("light", NoOverrides, MCShipped)}
MCScopeTokens == {<<>>, <<ProposalOver>>, <<Brand, ProposalOver, LongSeries>>, <<ProposalOver, BackToShipped>>}

-----------------------------------------------------------------------------
\* A few paths of the schema: of every group one or two.
MCSchema ==
  [shared |-> {<<"radius", "control">>}, palette |-> {<<"primary", "main">>, <<"divider">>, <<"semantic", "series">>},
   contained |-> {<<"buttonContained", "background">>},
   components |-> {<<"button", "softText">>, <<"button", "heightMd">>}]

MCFirstInputs ==
  [shared |-> [p \in MCSchema.shared |-> Ship("shared", p)],
   palettes |-> [m \in ThemeMode |-> [p \in MCSchema.palette |-> Ship(m, p)]],
   components |-> (<<"button", "softText">> :> [form |-> "name", path |-> <<"primary", "main">>])
                    @@ (<<"button", "heightMd">> :> [form |-> "number", of |-> <<40>>])]
MCSecondInputs ==
  ApplyOverrides(MCFirstInputs,
    Over(<<"radius", "control">> :> [form |-> "number", of |-> <<0>>],
         [m \in ThemeMode |-> IF m = "dark" THEN <<>> ELSE [p \in {<<"primary", "main">>} \union MCSchema.contained |-> Red]],
         <<"button", "softText">> :> [form |-> "name", path |-> <<"divider">>]))
MCExports == {MCFirstInputs, MCSecondInputs, Refused}

=============================================================================
