-------------------------- MODULE MCFigmaVariables --------------------------
EXTENDS FigmaVariables, TLC

CONSTANTS day, night
MCCollections == [atlas |-> <<day, night>>, brand |-> <<day>>]

Names == {<<"a">>, <<"a", "b">>, <<"a", "c">>, <<"a", "b", "c">>, <<"a", "b", "d">>}

Raw(l, d) == (day :> l) @@ (night :> d)
Kinds ==
  {[resolvedType |-> "COLOR", scopes |-> <<>>, raw |-> Raw([form |-> "colour", id |-> "red"], NoRaw)],
   [resolvedType |-> "FLOAT", scopes |-> <<"GAP">>, raw |-> Raw([form |-> "number", id |-> "4"], [form |-> "number", id |-> "8"])],
   [resolvedType |-> "FLOAT", scopes |-> <<"OPACITY", "FONT_WEIGHT">>, raw |-> Raw([form |-> "number", id |-> "4"], NoRaw)]}
Odd ==
  {[resolvedType |-> "COLOR", scopes |-> <<>>, raw |-> Raw([form |-> "number", id |-> "4"], NoRaw)],
   [resolvedType |-> "STRING", scopes |-> <<"FONT_FAMILY">>, raw |-> Raw(NoRaw, [form |-> "text", id |-> "x"])],
   [resolvedType |-> "COLOR", scopes |-> <<>>, raw |-> Raw([form |-> "alias", id |-> <<"a", "c">>], NoRaw)]}

Variables ==
  {[name |-> n, collection |-> "atlas", resolvedType |-> k.resolvedType, scopes |-> k.scopes, raw |-> k.raw]
     : n \in Names, k \in Kinds}
  \union {[name |-> <<"a", "b">>, collection |-> c, resolvedType |-> k.resolvedType, scopes |-> k.scopes, raw |-> k.raw]
     : c \in {"atlas", "brand", "gone"}, k \in Odd}

MCPayloads == UNION {[1 .. n -> Variables] : n \in 0 .. 3}
=============================================================================
