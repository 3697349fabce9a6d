-------------------------------- MODULE MCWeb --------------------------------
(***************************************************************************)
(* The parts of the web packages that do not interact while they run, each *)
(* checked on an instance of its own, in one run: a behaviour is one of    *)
(* the part that its first state picks, and the other parts stay idle.     *)
(***************************************************************************)
EXTENDS MCTokenTheme, MCFigmaVariables, MCTokenUsage, MCThemes, TokenStudio, I18nProvider

VARIABLE part

-----------------------------------------------------------------------------
(* Constants of the studio: a text on a paper, in one mode over the base.  *)

StudioFiles == {"base.tokens", "light.tokens"}
MCStudioModes == [f \in StudioFiles |-> IF f = "base.tokens" THEN "base" ELSE "light"]
Ink(v) == [type |-> "color", value |-> v]
MCCommitted ==
  ("base.tokens" :> ("paper" :> Ink("white"))) @@ ("light.tokens" :> ("text" :> Ink("black")))
\* "grey" misses 4.5 on white by less than the rounding; "reed" is no colour.
MCLuminance ==
  [white |-> 10000, black |-> 0, grey |-> 1835, glass |-> Translucent, reed |-> Translucent]
MCDisplayed == [v \in DOMAIN MCLuminance |-> v]
MCPairs == {[foreground |-> "text", background |-> "paper", minimum |-> 450]}
MCEdits ==
  [file : {"light.tokens"}, path : {"text"}, value : {"black", "white", "grey", "reed"}]
    \union [file : {"base.tokens"}, path : {"paper"}, value : {"black", "glass"}]
Colours == [type : {"color"}, value : DOMAIN MCLuminance \ {"reed"}]
MCTransforming ==
  {("base.tokens" :> ("paper" :> p)) @@ ("light.tokens" :> ("text" :> t)) : p \in Colours, t \in Colours}

(* Constants of the provider. *)
CONSTANTS en, it, api, nowhere
MCConfigFiles ==
  {[form |-> "missing"], [form |-> "malformed"],
   [form |-> "object", apiBaseUrl |-> api], [form |-> "object", apiBaseUrl |-> NoUrl]}

-----------------------------------------------------------------------------
(* The idle states; the studio idles where it begins.                      *)

ThemeIdle == set = <<>> /\ toRead = {} /\ jobs = <<>> /\ walk = NoWalk /\ theme = <<>> /\ outcome = "idle"
FigmaIdle == payload = <<>> /\ at = 0 /\ modes = <<>> /\ files = <<>> /\ result = "idle"
WalkIdle == imports = <<>> /\ module = Nobody /\ queue = <<>> /\ seen = {} /\ reached = {} /\ attributed = <<>>
PageIdle ==
  /\ storage = [works |-> FALSE, mode |-> NoMode] /\ mode = DefaultMode
  /\ host = [tokens |-> NoOverrides, theme |-> NoTheme] /\ scopes = <<>>
  /\ drawn = NotDrawn /\ root = <<>> /\ dataTheme = NoMode /\ changes = 0
\* An export without any token.
BareInputs == [shared |-> <<>>, palettes |-> [m \in ThemeMode |-> <<>>], components |-> <<>>]
BareTree == [inputs |-> BareInputs, version |-> 1, files |-> TargetsOf(BareInputs, 1)]
TargetsIdle ==
  /\ work = BareTree /\ onMain = BareTree /\ proposed = NoSnapshot /\ building = NotBuilding
  /\ deployed = BareTree.files["Tokens.g.cs"] /\ cached = NotCached
  /\ relabelled = FALSE /\ releases = 0 /\ handEdits = 0 /\ builds = 0
ProviderIdle ==
  /\ apiBaseUrl = NoUrl /\ catalogs = <<>> /\ locale = En /\ asked = En
  /\ locales = OfflineLocales /\ loaded = OfflineCatalog
  /\ requests = {} /\ switches = 0 /\ reloads = 0 /\ late = FALSE /\ failed = FALSE

vars == <<part, themeVars, figmaVars, walkVars, pageVars, targetVars, studioVars, providerVars>>

WebInit ==
  /\ StudioInit
  /\ part \in {"theme", "figma", "usage", "page", "targets", "studio", "provider"}
  /\ IF part = "theme" THEN ThemeInit ELSE ThemeIdle
  /\ IF part = "figma" THEN FigmaInit ELSE FigmaIdle
  /\ IF part = "usage" THEN WalkInit ELSE WalkIdle
  /\ IF part = "page" THEN PageInit ELSE PageIdle
  /\ IF part = "targets" THEN TargetsInit ELSE TargetsIdle
  /\ IF part = "provider" THEN ProviderInit ELSE ProviderIdle

ThemeStep ==
  /\ part = "theme" /\ ThemeNext
  /\ UNCHANGED <<part, figmaVars, walkVars, pageVars, targetVars, studioVars, providerVars>>
FigmaStep ==
  /\ part = "figma" /\ FigmaNext
  /\ UNCHANGED <<part, themeVars, walkVars, pageVars, targetVars, studioVars, providerVars>>
WalkStep ==
  /\ part = "usage" /\ WalkNext
  /\ UNCHANGED <<part, themeVars, figmaVars, pageVars, targetVars, studioVars, providerVars>>
PageStep ==
  /\ part = "page" /\ PageNext
  /\ UNCHANGED <<part, themeVars, figmaVars, walkVars, targetVars, studioVars, providerVars>>
TargetsStep ==
  /\ part = "targets" /\ TargetsNext
  /\ UNCHANGED <<part, themeVars, figmaVars, walkVars, pageVars, studioVars, providerVars>>
StudioStep ==
  /\ part = "studio" /\ StudioNext
  /\ UNCHANGED <<part, themeVars, figmaVars, walkVars, pageVars, targetVars, providerVars>>
OfProvider(action) ==
  /\ part = "provider" /\ action
  /\ UNCHANGED <<part, themeVars, figmaVars, walkVars, pageVars, targetVars, studioVars>>

WebNext ==
  \/ ThemeStep \/ FigmaStep \/ WalkStep \/ PageStep \/ TargetsStep \/ StudioStep
  \/ OfProvider(ProviderNext)

\* What the parts' own specifications are fair to; only one part moves.
Running == ThemeStep \/ WalkStep \/ OfProvider(Settling)

WebSpec == WebInit /\ [][WebNext]_vars /\ WF_vars(Running)

-----------------------------------------------------------------------------
\* The type invariants of the parts.
WebTypeOK ==
  CASE part = "theme" -> ThemeTypeOK
    [] part = "usage" -> WalkTypeOK
    [] part = "studio" -> StudioTypeOK
    [] part = "provider" -> ProviderTypeOK
    [] OTHER -> TRUE

=============================================================================
