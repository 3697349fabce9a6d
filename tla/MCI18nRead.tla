----------------------------- MODULE MCI18nRead -----------------------------
(***************************************************************************)
(* Instances of I18nRead for TLC: every configuration of three locales for *)
(* the chain, and a few configurations beside running writes.              *)
(***************************************************************************)
EXTENDS I18nRead, TLC

CONSTANTS w1, p1, de, en, fr

OneWriter == w1 :> p1

\* Whatever a hand-made _config.json with this default may say of all locales,
\* or of one.
AnyConfigWithDefaultEn ==
  {c \in Config : c.default = en /\ DOMAIN c.settings \in {Locale, {de}}}

\* Configurations that PUT /config accepts: the default itself falls back to
\* another locale; de falls back to fr and fr to en.
DefaultFallsBack ==
  {[default |-> en, settings |-> [l \in {de, en, fr} |->
      [enabled |-> TRUE, fallback |-> IF l = en THEN fr ELSE en]]]}
OneAfterTheOther ==
  {[default |-> en, settings |-> [l \in {de, en, fr} |->
      [enabled |-> TRUE, fallback |-> CASE l = de -> fr [] l = fr -> en [] l = en -> NoLocale]]]}
NoConfigs == {}

\* Texts mean nothing to the store: exchanging them changes nothing.

ValuesAlike == Permutations(Value)
=============================================================================
