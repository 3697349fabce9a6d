---------------------------- MODULE MCTokenTheme ----------------------------
(***************************************************************************)
(* Instances of TokenTheme for TLC: one palette colour, a shade that only  *)
(* components may name, a colour path outside the palette, one component   *)
(* colour and a contained button of two tokens; modes light and dark, and  *)
(* one the theme does not know.                                            *)
(***************************************************************************)
EXTENDS TokenTheme, TLC

CONSTANTS main, soft, button, back, text, base, light, dark, sepia

Tok(type, alias, form, id) == [type |-> type, alias |-> alias, value |-> [form |-> form, id |-> id]]
Colour(id) == Tok("color", NoAlias, "colour", id)
To(path) == Tok("color", path, "colour", "none")

MCThemeModes == <<light, dark>>
MCPalette == <<[path |-> main, kind |-> "color"]>>
MCContained == <<[path |-> back, kind |-> "color"], [path |-> text, kind |-> "color"]>>
MCComponent == <<[path |-> button, kind |-> "colorToken"]>>

\* A partial function: the paths that are not NoToken.
TokensFrom(m, s, b, k, x) ==
  LET all == (main :> m) @@ (soft :> s) @@ (button :> b) @@ (back :> k) @@ (text :> x)
  IN  [p \in {q \in ThemePath : all[q] # NoToken} |-> all[p]]

Bases ==
  {TokensFrom(m, s, b, NoToken, NoToken) :
     m \in {NoToken, Colour("red"), To(soft), Tok("undefined", NoAlias, "colour", "red")},
     s \in {NoToken, Colour("pink"), To(main)},
     b \in {NoToken, To(main), To(soft), To(back), Colour("blue"), Tok("string", NoAlias, "text", "red")}}

Lights ==
  {TokensFrom(m, s, NoToken, k, x) :
     m \in {NoToken, Colour("green"), To(main), To(soft), To(back), Tok("color", NoAlias, "text", "reed")},
     s \in {NoToken, To(main), To(text)},
     k \in {NoToken, Colour("black"), To(soft)},
     x \in {NoToken, Tok("dimension", NoAlias, "px", "8"), Colour("white")}}

DarkOfBoth == TokensFrom(Colour("grey"), To(main), NoToken, NoToken, NoToken)
Darks == {TokensFrom(Colour("grey"), NoToken, NoToken, NoToken, NoToken), TokensFrom(NoToken, To(main), NoToken, NoToken, NoToken)}

MCTokenSets ==
  {(base :> b) @@ (light :> l) @@ (dark :> DarkOfBoth) : b \in Bases, l \in Lights}
  \union {(base :> b) @@ (dark :> d) : b \in Bases, d \in Darks}
  \union {(base :> b) @@ (light :> d) @@ (dark :> d) @@ (sepia :> e) : b \in Bases, d \in Darks, e \in Darks}
=============================================================================
