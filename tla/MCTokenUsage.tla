---------------------------- MODULE MCTokenUsage ----------------------------
(***************************************************************************)
(* Instances of TokenUsage for TLC: two components, the theme's entry and  *)
(* two helpers; every import graph in which the helpers import any two     *)
(* modules, each other and themselves included.                            *)
(***************************************************************************)
EXTENDS TokenUsage

CONSTANTS Tile, Card, entry, helper, styles

FewOf(S) == {T \in SUBSET S : Cardinality(T) <= 2}

MCGraphs ==
  {g \in [{Tile, Card, helper, styles} -> FewOf({Card, entry, helper, styles})] :
     /\ g[Tile] \in {{helper}, {Card, helper}} /\ g[Card] = {styles}}
  \union {g \in [{entry, helper, styles} -> FewOf({entry, helper, styles})] : helper \notin g[entry]}

Source(typed, bindings, reads, lines) ==
  [typed |-> typed, bindings |-> bindings, reads |-> reads, lines |-> lines]
\* const { group: alias } = of.path;
Const(group, alias, of, path) == [alias |-> alias, of |-> of, path |-> path, group |-> group]
Line(opens, paths) == [opens |-> opens, paths |-> paths]

MCSources ==
  [f \in Module |->
     CASE f = Tile -> Source({[alias |-> "button", prefix |-> <<"components", "button">>]}, {},
                               {[alias |-> "button", path |-> <<"gap">>]}, <<>>)
       \* A binding from a binding with a path between, and one without.
       [] f = helper -> Source({}, {Const("components", "components", "atlas.tokens", <<>>),
                                    Const("height", "tall", "components", <<"header">>),
                                    Const("icon", "icon", "components", <<>>)},
                               {[alias |-> "components", path |-> <<"button", "radius">>],
                                [alias |-> "icon", path |-> <<"sizeSm">>]},
                               <<Line("MuiButton", {}), Line(NoBlock, {<<"space", "md">>})>>)
       \* The second read goes past the token, as .replace on a font does.
       [] f = styles -> Source({}, {}, {[alias |-> "themeInputs", path |-> <<"space", "md">>],
                                        [alias |-> "themeInputs", path |-> <<"font", "mono", "replace">>]},
                               <<Line("MuiChip", {<<"space", "md">>, <<"space", "gone">>})>>)
       [] OTHER -> Source({}, {}, {}, <<>>)]

MCStyleRules ==
  {[component |-> Card, paths |-> {<<"space", "lg">>, <<"space", "gone">>}],
   [component |-> NoComponent, paths |-> {<<"space", "lg">>}]}
MCComponentOfMui == [MuiButton |-> Tile]
=============================================================================
