---------------------------- MODULE MCFigmaSync -----------------------------
(***************************************************************************)
(* Instances of FigmaSync for TLC: a base file every mode reads and two    *)
(* files of one mode.  The designs add, remove, retype and respell tokens, *)
(* move one to another file, define one twice, miss one the theme needs,   *)
(* and lose contrast (as an error and as a warning).                       *)
(***************************************************************************)
EXTENDS FigmaSync, TLC

CONSTANTS base, light, light2, baseMode, lightMode,
  bg, fg, soft, stack, color, font, white, black, grey, list, text, mara

MCModeOf == (base :> baseMode) @@ (light :> lightMode) @@ (light2 :> lightMode)
MCDisplay == [v \in {white, black, grey, list, text} |-> IF v = text THEN list ELSE v]

C(v) == [type |-> color, value |-> v]
MCBase(b, s) == (bg :> C(b)) @@ (stack :> [type |-> font, value |-> s])
MCFg(v) == (fg :> C(v))

MCFirst == (base :> MCBase(white, list)) @@ (light :> MCFg(black))

MCDesign ==
  {MCFirst,
   (base :> MCBase(black, list)) @@ (light :> MCFg(white)),
   (base :> MCBase(white, list)) @@ (light :> MCFg(white)),
   (base :> MCBase(white, text)) @@ (light :> MCFg(grey)),
   (base :> MCBase(white, list)) @@ (light :> (MCFg(black) @@ (soft :> C(black)))),
   (base :> MCBase(white, list)) @@ (light :> (MCFg(black) @@ (soft :> [type |-> NoType, value |-> black]))),
   (base :> MCBase(white, list)) @@ (light :> <<>>) @@ (light2 :> (MCFg(black) @@ (soft :> C(grey)))),
   (base :> MCBase(white, list)) @@ (light :> MCFg(black)) @@ (light2 :> MCFg(grey)),
   (base :> MCBase(white, list))}

\* A theme needs a background, a foreground and a font.
MCTransforms(tokens) ==
  /\ \E t \in At(tokens, baseMode, bg) : t.type = color
  /\ \E t \in At(tokens, lightMode, fg) : t.type = color
  /\ \E t \in At(tokens, baseMode, stack) : t.type = font

\* The foreground must differ from the background, the soft colour should.
MCContrast(tokens) ==
  LET same(p) == \E t \in At(tokens, lightMode, p), b \in At(tokens, baseMode, bg) : t.value = b.value
  IN  {s \in {"Error", "Warning"} : (s = "Error" /\ same(fg)) \/ (s = "Warning" /\ same(soft))}

MCOrder == <<base, light, light2>>
=============================================================================
