----------------------------- MODULE WebProofs -----------------------------
(***************************************************************************)
(* Proofs about parts of the web packages, for any number of requests,     *)
(* answers, renders and releases: the provider of @atlas/i18n, the theme   *)
(* provider of @atlas/core, the clients of the API's design tokens, and    *)
(* the tool that lists the tokens each component uses.                     *)
(***************************************************************************)
EXTENDS MCWeb, TokenThemeProofs,
        FiniteSetTheorems, SequenceTheorems, WellFoundedInduction, TLAPS

-----------------------------------------------------------------------------
(* I18nProvider.                                                           *)

Live(r) == r.by = "effect" /\ ~ r.stale

\* The one request of the effect that counts is for the locale it ran for last;
\* and once it is answered, so is what is shown.
LoadedInv ==
  /\ \A r \in requests : Live(r) => r.code = asked
  /\ apiBaseUrl = NoUrl => asked = locale
  /\ apiBaseUrl # NoUrl /\ ~ failed /\ ~ late /\ (\A r \in requests : ~ Live(r)) => loaded.of = asked

ProviderInv == ProviderTypeOK /\ LoadedInv

LEMMA ProviderInitInv == ProviderInit => ProviderInv
<1> SUFFICES ASSUME ProviderInit PROVE ProviderInv
    OBVIOUS
<1>1. DOMAIN catalogs \subseteq Locale /\ catalogs \in [DOMAIN catalogs -> Nat]
      BY DEF ProviderInit
<1>2. OfflineCatalog \in [of : Locale, source : {"backend", "fallback"}, version : Nat]
      BY ProviderAssumption DEF OfflineCatalog
<1>3. 0 \in 0 .. MaxSwitches /\ 0 \in 0 .. MaxReloads
      BY ProviderAssumption
<1>4. ProviderTypeOK
      BY <1>1, <1>2, <1>3, ProviderAssumption DEF ProviderInit, ProviderTypeOK, OfflineLocales
<1>5. LoadedInv
      BY DEF ProviderInit, LoadedInv
<1> QED BY <1>4, <1>5 DEF ProviderInv

\* A new request is one, and so is a superseded one, and an answered one.
LEMMA RequestIsTyped ==
  ASSUME ProviderTypeOK, NEW by \in {"locales", "effect", "reload"}, NEW code \in Locale,
         NEW list \in ListAnswer, NEW catalog \in CatalogAnswer
  PROVE  /\ Request(by, code, list, catalog) \in Requested
         /\ Request(by, code, list, catalog).by = by
         /\ Request(by, code, list, catalog).code = code
         /\ Request(by, code, list, catalog).stale = FALSE
<1>1. reloads \in Nat
      BY ProviderAssumption DEF ProviderTypeOK
<1>2. (IF by = "reload" THEN reloads + 1 ELSE 0) \in Nat
      BY <1>1
<1> QED BY <1>2 DEF Request, Requested

LEMMA SupersededAreTyped ==
  ASSUME ProviderTypeOK, NEW s \in Superseded
  PROVE  /\ s \in Requested
         /\ \E r \in requests : s.by = r.by /\ s.code = r.code
         /\ ~ Live(s)
<1>1. PICK r \in requests : s = [r EXCEPT !.stale = @ \/ r.by = "effect"]
      BY DEF Superseded
<1>2. r \in Requested
      BY DEF ProviderTypeOK
<1>3. (r.stale \/ r.by = "effect") \in BOOLEAN
      BY <1>2 DEF Requested
<1>4. s.by = r.by /\ s.code = r.code /\ s.stale = (r.stale \/ r.by = "effect")
      BY <1>1, <1>2 DEF Requested
<1>5. s \in Requested
      BY <1>1, <1>2, <1>3 DEF Requested
<1> QED BY <1>4, <1>5 DEF Live

LEMMA AnswerIsTyped ==
  ASSUME ProviderTypeOK, NEW r \in requests, AnswerRequest(r)
  PROVE  \E s \in Requested : /\ requests' = (requests \ {r}) \union {s}
                              /\ s.by = r.by /\ s.code = r.code /\ s.stale = r.stale
<1>1. r \in Requested
      BY DEF ProviderTypeOK
<1>2. FetchLocales \subseteq ListAnswer /\ FetchCatalog(r.code) \subseteq CatalogAnswer
      BY DEF FetchLocales, FetchCatalog, ListAnswer, CatalogAnswer, ProviderTypeOK
<1>3. r.list \in ListAnswer /\ r.catalog \in CatalogAnswer
      BY <1>1 DEF Requested
<1>4. PICK list \in ListAnswer, catalog \in CatalogAnswer :
        requests' = (requests \ {r}) \union {[r EXCEPT !.list = list, !.catalog = catalog]}
      BY <1>2, <1>3 DEF AnswerRequest
<1>5. [r EXCEPT !.list = list, !.catalog = catalog] \in Requested
      BY <1>1 DEF Requested
<1>6. /\ [r EXCEPT !.list = list, !.catalog = catalog].by = r.by
      /\ [r EXCEPT !.list = list, !.catalog = catalog].code = r.code
      /\ [r EXCEPT !.list = list, !.catalog = catalog].stale = r.stale
      BY <1>1 DEF Requested
<1> QED BY <1>4, <1>5, <1>6

\* What is shown and listed keeps its type.
LEMMA AppliedIsTyped ==
  ASSUME ProviderTypeOK, NEW r \in requests, Arrived(r)
  PROVE  /\ ApplyCatalog(r.code, r.catalog) \in [of : Locale, source : {"backend", "fallback"}, version : Nat]
         /\ SetLocales(r.list) => locales' \subseteq Locale
<1>1. r \in Requested
      BY DEF ProviderTypeOK
<1>2. r.code \in Locale /\ r.list \in ListAnswer /\ r.catalog \in CatalogAnswer
      BY <1>1 DEF Requested
<1>3. r.list # Pending /\ r.catalog # Pending
      BY DEF Arrived
<1>4. loaded \in [of : Locale, source : {"backend", "fallback"}, version : Nat] /\ locales \subseteq Locale
      BY DEF ProviderTypeOK
<1> QED BY <1>2, <1>3, <1>4, ProviderAssumption DEF ApplyCatalog, SetLocales, OfflineCatalog, ListAnswer, CatalogAnswer

\* The types survive every step.
LEMMA ProviderTypeStep == ProviderTypeOK /\ [ProviderNext]_providerVars => ProviderTypeOK'
<1> SUFFICES ASSUME ProviderTypeOK, [ProviderNext]_providerVars PROVE ProviderTypeOK'
    OBVIOUS
<1>a. locale \in Locale /\ En \in Locale /\ requests \subseteq Requested
      BY ProviderAssumption DEF ProviderTypeOK
<1>0. /\ Failed \in ListAnswer /\ Pending \in ListAnswer
      /\ Failed \in CatalogAnswer /\ Pending \in CatalogAnswer
      BY DEF ListAnswer, CatalogAnswer
<1>b. /\ Request("locales", En, Pending, Failed) \in Requested
       /\ Request("effect", locale, Failed, Pending) \in Requested
       /\ Request("reload", locale, Pending, Pending) \in Requested
       /\ Superseded \subseteq Requested
      BY <1>a, <1>0, RequestIsTyped, SupersededAreTyped
<1> USE ProviderAssumption DEF ProviderTypeOK
<1>1. ASSUME NEW file \in ConfigFiles, Mount(file) PROVE ProviderTypeOK'
  <2>1. LoadRuntimeConfig(file) \in Url
        BY DEF LoadRuntimeConfig, ParseRuntimeConfig
  <2>2. requests' \subseteq Requested
        BY <1>1, <1>b DEF Mount
  <2> QED BY <1>1, <2>1, <2>2 DEF Mount
<1>2. ASSUME NEW code \in Locale, SetLocale(code) PROVE ProviderTypeOK'
      BY <1>2 DEF SetLocale
<1>3. CASE RunEffect
  <2>1. requests' \subseteq Requested
        BY <1>3, <1>b DEF RunEffect
  <2> QED BY <1>3, <2>1 DEF RunEffect
<1>4. CASE Reload
  <2>1. requests' \subseteq Requested
        BY <1>4, <1>a, <1>b DEF Reload
  <2> QED BY <1>4, <2>1 DEF Reload
<1>5. ASSUME NEW code \in DOMAIN catalogs, Save(code) PROVE ProviderTypeOK'
  <2>1. DOMAIN catalogs' = DOMAIN catalogs /\ catalogs' \in [DOMAIN catalogs -> Nat]
        BY <1>5 DEF Save
  <2> QED BY <1>5, <2>1 DEF Save
<1>6. ASSUME NEW r \in requests, AnswerRequest(r) PROVE ProviderTypeOK'
  <2>1. requests' \subseteq Requested
        BY <1>6, AnswerIsTyped
  <2> QED BY <1>6, <2>1 DEF AnswerRequest
<1>7. ASSUME NEW r \in requests, ApplyLocales(r) PROVE ProviderTypeOK'
  <2>1. locales' \subseteq Locale
        BY <1>7, AppliedIsTyped DEF ApplyLocales
  <2> QED BY <1>7, <2>1 DEF ApplyLocales
<1>8. ASSUME NEW r \in requests, ApplyEffect(r) PROVE ProviderTypeOK'
  <2>1. loaded' \in [of : Locale, source : {"backend", "fallback"}, version : Nat]
        BY <1>8, AppliedIsTyped DEF ApplyEffect
  <2>2. late' \in BOOLEAN /\ failed' \in BOOLEAN
        BY <1>8 DEF ApplyEffect
  <2> QED BY <1>8, <2>1, <2>2 DEF ApplyEffect
<1>9. ASSUME NEW r \in requests, ApplyReload(r) PROVE ProviderTypeOK'
  <2>1. /\ locales' \subseteq Locale
        /\ loaded' \in [of : Locale, source : {"backend", "fallback"}, version : Nat]
        BY <1>9, AppliedIsTyped DEF ApplyReload
  <2>2. late' \in BOOLEAN /\ failed' \in BOOLEAN
        BY <1>9 DEF ApplyReload
  <2> QED BY <1>9, <2>1, <2>2 DEF ApplyReload
<1>10. CASE UNCHANGED providerVars
      BY <1>10 DEF providerVars
<1> QED BY <1>1, <1>2, <1>3, <1>4, <1>5, <1>6, <1>7, <1>8, <1>9, <1>10
        DEF ProviderNext, Answering, Applying

\* What an answer makes of the texts: those of its locale, or nothing new.
LEMMA ApplyCatalogOf ==
  ASSUME NEW code, NEW catalog
  PROVE  /\ catalog # Failed \/ code = En => ApplyCatalog(code, catalog).of = code
         /\ ApplyCatalog(code, catalog) # loaded => ApplyCatalog(code, catalog).of = code
BY DEF ApplyCatalog, OfflineCatalog

LEMMA LoadedStep == ProviderTypeOK /\ LoadedInv /\ [ProviderNext]_providerVars => LoadedInv'
<1> SUFFICES ASSUME ProviderTypeOK, LoadedInv, [ProviderNext]_providerVars PROVE LoadedInv'
    OBVIOUS
<1> USE ProviderAssumption DEF LoadedInv, Live
<1>1. ASSUME NEW file \in ConfigFiles, Mount(file) PROVE LoadedInv'
      BY <1>1 DEF Mount, Request
<1>2. ASSUME NEW code \in Locale, SetLocale(code) PROVE LoadedInv'
      BY <1>2 DEF SetLocale
<1>3. CASE RunEffect
  <2> DEFINE new == Request("effect", locale, Failed, Pending)
  <2>1. new.by = "effect" /\ new.code = locale /\ new.stale = FALSE
        BY DEF Request
  <2> HIDE DEF new
  <2>2. requests' = Superseded \union {new}
        BY <1>3 DEF RunEffect, new
  <2>3. asked' = locale /\ UNCHANGED <<apiBaseUrl, locale>>
        BY <1>3 DEF RunEffect
  <2>4. \A r \in requests' : Live(r) => r.code = locale
        BY <2>1, <2>2, SupersededAreTyped DEF Live
  <2>5. \E r \in requests' : Live(r)
        BY <2>1, <2>2 DEF Live
  <2> QED BY <2>3, <2>4, <2>5
<1>4. CASE Reload
      BY <1>4 DEF Reload, Request
<1>5. ASSUME NEW code \in DOMAIN catalogs, Save(code) PROVE LoadedInv'
      BY <1>5 DEF Save
<1>6. ASSUME NEW r \in requests, AnswerRequest(r) PROVE LoadedInv'
  <2>1. PICK s \in Requested : /\ requests' = (requests \ {r}) \union {s}
                               /\ s.by = r.by /\ s.code = r.code /\ s.stale = r.stale
        BY <1>6, AnswerIsTyped
  <2> QED BY <1>6, <2>1 DEF AnswerRequest
<1>7. ASSUME NEW r \in requests, ApplyLocales(r) PROVE LoadedInv'
      BY <1>7 DEF ApplyLocales
<1>8. ASSUME NEW r \in requests, ApplyEffect(r) PROVE LoadedInv'
  <2>1. CASE r.stale
        BY <1>8, <2>1 DEF ApplyEffect
  <2>2. CASE ~ r.stale
    <3>1. r.code = asked
          BY <1>8, <2>2 DEF ApplyEffect
    <3>2. ASSUME ~ failed' PROVE loaded'.of = asked
      <4>1. r.catalog # Failed \/ r.code = En
            BY <1>8, <2>2, <3>2 DEF ApplyEffect
      <4>2. loaded' = ApplyCatalog(r.code, r.catalog)
            BY <1>8, <2>2 DEF ApplyEffect
      <4> QED BY <3>1, <4>1, <4>2, ApplyCatalogOf
    <3> QED BY <1>8, <3>1, <3>2 DEF ApplyEffect
  <2> QED BY <2>1, <2>2
<1>9. ASSUME NEW r \in requests, ApplyReload(r) PROVE LoadedInv'
  <2>1. /\ requests' = requests \ {r} /\ r.by = "reload"
        /\ loaded' = ApplyCatalog(r.code, r.catalog)
        /\ late' = IF loaded' = loaded THEN late ELSE r.code # asked
        /\ failed' = (failed /\ (r.code # asked \/ r.catalog = Failed))
        /\ UNCHANGED <<apiBaseUrl, locale, asked>>
        BY <1>9 DEF ApplyReload
  <2>2. /\ \A s \in requests' : Live(s) => s.code = asked
        /\ apiBaseUrl = NoUrl => asked = locale
        BY <2>1
  <2>3. ASSUME apiBaseUrl # NoUrl, ~ failed', ~ late', \A s \in requests' : ~ Live(s)
        PROVE  loaded'.of = asked
    <3>1. \A s \in requests : ~ Live(s)
          BY <2>1, <2>3
    <3>2. CASE loaded' # loaded
      <4>1. r.code = asked
            BY <2>1, <2>3, <3>2, Zenon
      <4> QED BY <2>1, <3>2, <4>1, ApplyCatalogOf, Zenon
    <3>3. CASE loaded' = loaded /\ ~ failed
      <4>1. ~ late
            BY <2>1, <2>3, <3>3, Zenon
      <4> QED BY <2>3, <3>1, <3>3, <4>1
    <3>4. CASE failed
      <4>1. r.code = asked /\ r.catalog # Failed
            BY <2>1, <2>3, <3>4, Zenon
      <4> QED BY <2>1, <4>1, ApplyCatalogOf, Zenon
    <3> QED BY <3>2, <3>3, <3>4
  <2> QED BY <2>1, <2>2, <2>3
<1>10. CASE UNCHANGED providerVars
      BY <1>10 DEF providerVars
<1> QED BY <1>1, <1>2, <1>3, <1>4, <1>5, <1>6, <1>7, <1>8, <1>9, <1>10
        DEF ProviderNext, Answering, Applying

\* I18nProvider.tsx L24-62: with any answers in any order, every request is of
\* a locale, and what is shown is a catalog that one of the sources can hold.
THEOREM ProviderTypesHold == ProviderSpec => []ProviderTypeOK
<1>1. ProviderInv => ProviderTypeOK
      BY DEF ProviderInv
<1>2. ProviderInv /\ [ProviderNext]_providerVars => ProviderInv'
      BY ProviderTypeStep, LoadedStep DEF ProviderInv
<1> QED BY ProviderInitInv, <1>1, <1>2, PTL DEF ProviderSpec

\* I18nProvider.tsx L46: whatever the order of the answers, and however often
\* the locale is switched meanwhile, a page at rest shows its own locale.
THEOREM ShownIsRight == ProviderSpec => []ShownIsOfTheLocale
<1>1. ProviderInv /\ [ProviderNext]_providerVars => ProviderInv'
      BY ProviderTypeStep, LoadedStep DEF ProviderInv
<1>2. ProviderInv => ShownIsOfTheLocale
      BY DEF ProviderInv, LoadedInv, ShownIsOfTheLocale, Quiet
<1> QED BY ProviderInitInv, <1>1, <1>2, PTL DEF ProviderSpec

-----------------------------------------------------------------------------
(* ThemeScopes.                                                            *)

\* What is on <html> is what the last commit wrote, and nothing else.
PageInv ==
  /\ storage \in [works : BOOLEAN, mode : ThemeMode \union {NoMode}] /\ mode \in ThemeMode
  /\ storage.works => ReadStoredMode = mode
  /\ drawn = NotDrawn => root = <<>>
  /\ drawn # NotDrawn => root = VariablesOf(drawn)

LEMMA PageInitInv == PageInit => PageInv
BY ModesAssumption DEF PageInit, PageInv, ReadStoredMode

LEMMA PageInvStep == PageInv /\ [PageNext]_pageVars => PageInv'
<1> SUFFICES ASSUME PageInv, [PageNext]_pageVars PROVE PageInv'
    OBVIOUS
<1> USE ModesAssumption DEF PageInv
<1>1. ASSUME NEW next \in ThemeMode, SetMode(next) PROVE PageInv'
      BY <1>1 DEF SetMode, ReadStoredMode, VariablesOf
<1>2. CASE Rerender \/ Rescope \/ Stamp
      BY <1>2 DEF Rerender, Rescope, Stamp, ReadStoredMode, VariablesOf
<1>3. CASE Commit
  <2>1. Kept = {}
        BY DEF Kept
  <2>2. VariablesOf(Now) = [n \in DOMAIN VariablesOf(Now) |-> VariablesOf(Now)[n]]
        BY DEF VariablesOf, CssVariables
  <2>3. SetOver({}, VariablesOf(Now)) = VariablesOf(Now)
    <3> DEFINE new == VariablesOf(Now)
    <3>1. new = [n \in DOMAIN new |-> new[n]]
          BY <2>2
    <3> HIDE DEF new
    <3>2. SetOver({}, new) = [n \in DOMAIN new |-> new[n]]
          BY DEF SetOver
    <3>3. SetOver({}, new) = new
          BY <3>1, <3>2
    <3> QED BY <3>3 DEF new
  <2>4. UNCHANGED <<storage, mode>> /\ drawn' = Now /\ root' = VariablesOf(Now)
    <3>1. root' = SetOver(Kept, VariablesOf(Now))
          BY <1>3, Zenon DEF Commit
    <3>2. UNCHANGED <<storage, mode>>
          BY <1>3 DEF Commit
    <3>3. drawn' = Now
          BY <1>3, Zenon DEF Commit
    <3> QED BY <2>1, <2>3, <3>1, <3>2, <3>3
  <2>5. Now # NotDrawn
    <3>1. Now.mode = mode /\ NotDrawn.mode = NoMode
          BY DEF Now, NotDrawn
    <3> QED BY <3>1
  <2>6. drawn' # NotDrawn' /\ root' = VariablesOf(drawn')
        BY <2>4, <2>5 DEF NotDrawn
  <2> QED BY <2>4, <2>6 DEF ReadStoredMode, VariablesOf
<1>4. CASE LoadAgain
      BY <1>4 DEF LoadAgain, ReadStoredMode
<1>5. CASE UNCHANGED pageVars
      BY <1>5 DEF pageVars, ReadStoredMode, VariablesOf
<1> QED BY <1>1, <1>2, <1>3, <1>4, <1>5 DEF PageNext

\* AtlasThemeProvider.tsx L60-90: after any renders, switches and reloads of
\* the page, stamp, custom properties, theme and storage agree on the mode.
THEOREM PageIsConsistent == PageSpec => []PageAgrees
<1>1. PageInv => PageAgrees
      BY DEF PageInv, PageAgrees, Settled, Now, Active, VariablesOf, CreateAtlasTheme
<1> QED BY PageInitInv, PageInvStep, <1>1, PTL DEF PageSpec

(* Nested scopes.  ThemesOf and Inherited are recursive functions: that     *)
(* they have a value, and what holds at every depth, is shown by taking the *)
(* least depth at which it would fail.                                      *)

LEMMA Least ==
  ASSUME NEW T, T \subseteq Nat, T # {}
  PROVE  \E n \in T : \A m \in T : n <= m
<1>1. IsWellFoundedOn({p \in Nat \X Nat : p[1] < p[2]}, Nat)
      BY NatLessThanWellFounded DEF OpToRel
<1>2. PICK n \in T : \A m \in T : ~ (<<m, n>> \in {p \in Nat \X Nat : p[1] < p[2]})
      BY <1>1, WFMin
<1>3. \A m \in T : <<m, n>> \in Nat \X Nat
      OBVIOUS
<1>4. \A m \in T : ~ (m < n)
      BY <1>2, <1>3
<1> QED BY <1>4, SMT

\* What a scope makes of the theme around it, and of the properties around it.
Inner(page, k, outer) == CreateAtlasTheme(outer.mode, page.scopes[k], outer.tokens)
Around(themes, k, outer) == Lay(Properties(themes[k - 1], themes[k]), outer)

NestOf(f, page, n) ==
  f = [k \in 0 .. n |-> IF k = 0 THEN page.active ELSE Inner(page, k, f[k - 1])]
LaidOf(f, themes, n) ==
  f = [k \in 0 .. n |-> IF k = 0 THEN root ELSE Around(themes, k, f[k - 1])]

LEMMA NestExists ==
  ASSUME NEW N \in Nat, NEW page
  PROVE  \E f : NestOf(f, page, N)
<1> DEFINE Failing == {m \in Nat : ~ \E f : NestOf(f, page, m)}
<1>1. SUFFICES ASSUME Failing # {} PROVE FALSE
      OBVIOUS
<1>2. Failing \subseteq Nat
      OBVIOUS
<1>3. PICK m \in Failing : \A k \in Failing : m <= k
  <2> HIDE DEF Failing
  <2> QED BY <1>1, <1>2, Least
<1>4. m # 0
  <2>1. NestOf([k \in 0 .. 0 |-> page.active], page, 0)
        BY DEF NestOf
  <2> QED BY <2>1
<1>5. m \in Nat /\ m - 1 \in Nat /\ m - 1 < m
      BY <1>4
<1>6. m - 1 \notin Failing
  <2> HIDE DEF Failing
  <2> QED BY <1>3, <1>5
<1>7. PICK f : NestOf(f, page, m - 1)
      BY <1>5, <1>6
<1> DEFINE g == [k \in 0 .. m |-> IF k = m THEN Inner(page, m, f[m - 1]) ELSE f[k]]
<1>8. \A k \in 0 .. m - 1 : f[k] = IF k = 0 THEN page.active ELSE Inner(page, k, f[k - 1])
      BY <1>7 DEF NestOf
<1>9. \A k \in 0 .. m : g[k] = IF k = 0 THEN page.active ELSE Inner(page, k, g[k - 1])
  <2> TAKE k \in 0 .. m
  <2>1. k \in Nat /\ g[k] = IF k = m THEN Inner(page, m, f[m - 1]) ELSE f[k]
        BY <1>5
  <2>2. k # 0 => k - 1 \in 0 .. m /\ k - 1 # m
        BY <1>5, <2>1
  <2>3. k # 0 => g[k - 1] = f[k - 1]
        BY <2>2
  <2>4. k # m => k \in 0 .. m - 1
        BY <1>5, <2>1
  <2> HIDE DEF g
  <2> QED BY <1>4, <1>8, <2>1, <2>3, <2>4
<1>10. NestOf(g, page, m)
  <2>1. g = [k \in 0 .. m |-> g[k]]
        OBVIOUS
  <2> HIDE DEF g
  <2> QED BY <1>9, <2>1 DEF NestOf
<1> HIDE DEF g
<1> QED BY <1>3, <1>10

LEMMA LaidExists ==
  ASSUME NEW N \in Nat, NEW themes
  PROVE  \E f : LaidOf(f, themes, N)
<1> DEFINE Failing == {m \in Nat : ~ \E f : LaidOf(f, themes, m)}
<1>1. SUFFICES ASSUME Failing # {} PROVE FALSE
      OBVIOUS
<1>2. Failing \subseteq Nat
      OBVIOUS
<1>3. PICK m \in Failing : \A k \in Failing : m <= k
  <2> HIDE DEF Failing
  <2> QED BY <1>1, <1>2, Least
<1>4. m # 0
  <2>1. LaidOf([k \in 0 .. 0 |-> root], themes, 0)
        BY DEF LaidOf
  <2> QED BY <2>1
<1>5. m \in Nat /\ m - 1 \in Nat /\ m - 1 < m
      BY <1>4
<1>6. m - 1 \notin Failing
  <2> HIDE DEF Failing
  <2> QED BY <1>3, <1>5
<1>7. PICK f : LaidOf(f, themes, m - 1)
      BY <1>5, <1>6
<1> DEFINE g == [k \in 0 .. m |-> IF k = m THEN Around(themes, m, f[m - 1]) ELSE f[k]]
<1>8. \A k \in 0 .. m - 1 : f[k] = IF k = 0 THEN root ELSE Around(themes, k, f[k - 1])
      BY <1>7 DEF LaidOf
<1>9. \A k \in 0 .. m : g[k] = IF k = 0 THEN root ELSE Around(themes, k, g[k - 1])
  <2> TAKE k \in 0 .. m
  <2>1. k \in Nat /\ g[k] = IF k = m THEN Around(themes, m, f[m - 1]) ELSE f[k]
        BY <1>5
  <2>2. k # 0 => k - 1 \in 0 .. m /\ k - 1 # m
        BY <1>5, <2>1
  <2>3. k # 0 => g[k - 1] = f[k - 1]
        BY <2>2
  <2>4. k # m => k \in 0 .. m - 1
        BY <1>5, <2>1
  <2> HIDE DEF g
  <2> QED BY <1>4, <1>8, <2>1, <2>3, <2>4
<1>10. LaidOf(g, themes, m)
  <2>1. g = [k \in 0 .. m |-> g[k]]
        OBVIOUS
  <2> HIDE DEF g
  <2> QED BY <1>9, <2>1 DEF LaidOf
<1> HIDE DEF g
<1> QED BY <1>3, <1>10

\* What the definitions of ThemesOf and Inherited say of their values.
LEMMA ThemesOfValues ==
  ASSUME NEW page, Len(page.scopes) \in Nat
  PROVE  NestOf(ThemesOf(page), page, Len(page.scopes))
<1> DEFINE n == Len(page.scopes)
<1>1. \E f : NestOf(f, page, n)
      BY NestExists
<1>2. ThemesOf(page) = CHOOSE f : NestOf(f, page, n)
      BY DEF ThemesOf, NestOf, Inner
<1> QED BY <1>1, <1>2

LEMMA InheritedValues ==
  ASSUME NEW page, Len(page.scopes) \in Nat
  PROVE  LaidOf(Inherited(page), ThemesOf(page), Len(page.scopes))
<1> DEFINE n == Len(page.scopes)
<1>1. \E f : LaidOf(f, ThemesOf(page), n)
      BY LaidExists
<1>2. Inherited(page) = CHOOSE f : LaidOf(f, ThemesOf(page), n)
      BY DEF Inherited, LaidOf, Around
<1> QED BY <1>1, <1>2

\* Laying over adds tokens and takes none away.
LEMMA LaidOverIsWhole ==
  ASSUME NEW inputs, NEW over, Whole(inputs), over # NoOverrides, Partial(over)
  PROVE  Whole(ApplyOverrides(inputs, over))
<1> DEFINE new == ApplyOverrides(inputs, over)
<1>1. /\ DOMAIN new.shared = DOMAIN over.shared \union DOMAIN inputs.shared
      /\ DOMAIN new.components = DOMAIN over.components \union DOMAIN inputs.components
      /\ \A m \in ThemeMode :
           DOMAIN new.palettes[m] = DOMAIN over.palettes[m] \union DOMAIN inputs.palettes[m]
      BY DEF ApplyOverrides, Lay
<1> HIDE DEF new
<1>2. Whole(new)
      BY <1>1 DEF Whole, Partial
<1> QED BY <1>2 DEF new

\* What a theme is flattened to.
NamedPaths(inputs) == {ComponentPath(q) : q \in DOMAIN inputs.components}
FlatValue(inputs, m, p) ==
  IF p \in NamedPaths(inputs) THEN ResolvePaletteToken(inputs.palettes[m], inputs.components[Tail(p)])
  ELSE IF p \in DOMAIN Flatten(inputs.palettes[m]) THEN Flatten(inputs.palettes[m])[p]
  ELSE inputs.shared[p]

LEMMA FlatTokens ==
  ASSUME NEW inputs, NEW m \in ThemeMode
  PROVE  LET flat == TokensFor(FlattenTheme(inputs), m)
         IN  /\ DOMAIN flat = NamedPaths(inputs) \union DOMAIN Flatten(inputs.palettes[m]) \union DOMAIN inputs.shared
             /\ \A p \in DOMAIN flat : flat[p] = FlatValue(inputs, m, p)
<1> DEFINE palette == inputs.palettes[m]
           plain == Flatten(palette)
           mode_ == ForMode(palette, inputs.components)
<1>1. TokensFor(FlattenTheme(inputs), m) = Lay(mode_, inputs.shared)
      BY DEF TokensFor, FlattenTheme
<1> HIDE DEF plain
<1>2. /\ DOMAIN mode_ = NamedPaths(inputs) \union DOMAIN plain
      /\ \A p \in DOMAIN mode_ : mode_[p] =
           IF p \in NamedPaths(inputs) THEN ResolvePaletteToken(palette, inputs.components[Tail(p)]) ELSE plain[p]
  <2>1. mode_ = Lay([p \in NamedPaths(inputs) |-> ResolvePaletteToken(palette, inputs.components[Tail(p)])], plain)
        BY DEF ForMode, NamedPaths, plain
  <2> QED BY <2>1 DEF Lay
<1> HIDE DEF mode_
<1>3. /\ DOMAIN Lay(mode_, inputs.shared) = DOMAIN mode_ \union DOMAIN inputs.shared
      /\ \A p \in DOMAIN Lay(mode_, inputs.shared) : Lay(mode_, inputs.shared)[p] =
           IF p \in DOMAIN mode_ THEN mode_[p] ELSE inputs.shared[p]
      BY DEF Lay
<1> QED BY <1>1, <1>2, <1>3 DEF FlatValue, plain

\* What the leaves of a palette are flattened to.
LEMMA FlatLeaves ==
  ASSUME NEW leaves
  PROVE  /\ DOMAIN Flatten(leaves) = (DOMAIN leaves \ ListPaths) \union ListItems(leaves)
         /\ \A p \in DOMAIN Flatten(leaves) : p \notin ListItems(leaves) => Flatten(leaves)[p] = leaves[p]
<1> DEFINE items == ListItems(leaves)
<1> HIDE DEF items
<1>1. Flatten(leaves) = [p \in (DOMAIN leaves \ ListPaths) \union items |->
                           IF p \in items THEN leaves[Front(p)].items[Last(p)] ELSE leaves[p]]
      BY DEF Flatten, items
<1> QED BY <1>1 DEF items

LEMMA ItemIs ==
  ASSUME NEW leaves, NEW p
  PROVE  p \in ListItems(leaves) <=> \E list \in DOMAIN leaves \cap ListPaths : p \in ItemsOf(leaves, list)
  BY DEF ListItems

\* A path below no list is no item.
LEMMA NoItem ==
  ASSUME NEW leaves, NEW p, Front(p) \notin ListPaths
  PROVE  p \notin ListItems(leaves)
<1> SUFFICES ASSUME p \in ListItems(leaves) PROVE FALSE
    OBVIOUS
<1>1. PICK list \in DOMAIN leaves \cap ListPaths : p \in ItemsOf(leaves, list)
      BY ItemIs
<1>2. PICK index : p = Append(list, index)
      BY <1>1 DEF ItemsOf
<1>3. Front(p) = list
  <2> DEFINE Key == STRING \union {index}
  <2>1. list \in Seq(Key) /\ p \in Seq(Key) /\ Len(p) = Len(list) + 1 /\ Len(list) \in Nat
        BY <1>1, <1>2, ListsAssumption
  <2>2. \A i \in 1 .. Len(list) : p[i] = list[i]
        BY <1>2, <2>1
  <2> HIDE DEF Key
  <2>3. Front(p) = SubSeq(p, 1, Len(list))
        BY <2>1 DEF Front
  <2>4. SubSeq(p, 1, Len(list)) \in Seq(Key) /\ Len(SubSeq(p, 1, Len(list))) = Len(list)
          /\ \A i \in 1 .. Len(list) : SubSeq(p, 1, Len(list))[i] = p[i]
        BY <2>1, SubSeqProperties
  <2> QED BY <2>1, <2>2, <2>3, <2>4, SeqEqual
<1> QED BY <1>1, <1>3

\* A whole theme has every token of the shipped one but the items of lists.
LEMMA WholeHasShipped ==
  ASSUME NEW inputs, Whole(inputs), NEW m \in ThemeMode
  PROVE  DOMAIN TokensFor(FlattenTheme(Shipped), m) \ ListItems(Shipped.palettes[m])
           \subseteq DOMAIN TokensFor(FlattenTheme(inputs), m)
<1>1. /\ NamedPaths(Shipped) = NamedPaths(inputs) /\ DOMAIN Shipped.shared = DOMAIN inputs.shared
      /\ DOMAIN Shipped.palettes[m] \subseteq DOMAIN inputs.palettes[m]
      BY DEF Whole, NamedPaths
<1>2. DOMAIN TokensFor(FlattenTheme(Shipped), m) =
        NamedPaths(Shipped) \union DOMAIN Flatten(Shipped.palettes[m]) \union DOMAIN Shipped.shared
      BY FlatTokens
<1>3. DOMAIN TokensFor(FlattenTheme(inputs), m) =
        NamedPaths(inputs) \union DOMAIN Flatten(inputs.palettes[m]) \union DOMAIN inputs.shared
      BY FlatTokens
<1>4. /\ DOMAIN Flatten(Shipped.palettes[m]) =
           (DOMAIN Shipped.palettes[m] \ ListPaths) \union ListItems(Shipped.palettes[m])
      /\ DOMAIN Flatten(inputs.palettes[m]) =
           (DOMAIN inputs.palettes[m] \ ListPaths) \union ListItems(inputs.palettes[m])
      BY FlatLeaves
<1> QED BY <1>1, <1>2, <1>3, <1>4

\* The lists of a palette that a scope replaces, as they were.
Replaced(leaves, over) == [list \in ListPaths \cap DOMAIN over |-> leaves[list]]

\* Laying over takes no token away but items of the lists it replaces.
LEMMA LaidOverKeeps ==
  ASSUME NEW inputs, NEW over, over # NoOverrides, NEW m \in ThemeMode,
         NEW p \in DOMAIN TokensFor(FlattenTheme(inputs), m),
         p \notin DOMAIN TokensFor(FlattenTheme(ApplyOverrides(inputs, over)), m)
  PROVE  p \in ListItems(Replaced(inputs.palettes[m], over.palettes[m]))
<1> DEFINE new == ApplyOverrides(inputs, over)
           was == inputs.palettes[m]
           is == new.palettes[m]
           laid == over.palettes[m]
           gone == Replaced(was, laid)
<1>1. /\ DOMAIN new.shared = DOMAIN over.shared \union DOMAIN inputs.shared
      /\ DOMAIN new.components = DOMAIN over.components \union DOMAIN inputs.components
      /\ DOMAIN is = DOMAIN laid \union DOMAIN was
      /\ \A x \in DOMAIN was \ DOMAIN laid : is[x] = was[x]
      BY DEF ApplyOverrides, Lay
<1> HIDE DEF new
<1>2. DOMAIN TokensFor(FlattenTheme(inputs), m) =
        NamedPaths(inputs) \union DOMAIN Flatten(was) \union DOMAIN inputs.shared
      BY FlatTokens
<1>3. DOMAIN TokensFor(FlattenTheme(new), m) = NamedPaths(new) \union DOMAIN Flatten(is) \union DOMAIN new.shared
      BY FlatTokens
<1>4. p \notin DOMAIN TokensFor(FlattenTheme(new), m)
      BY DEF new
<1>5. NamedPaths(inputs) \subseteq NamedPaths(new)
      BY <1>1 DEF NamedPaths
<1> HIDE DEF was, is, laid, gone
<1>6. p \in DOMAIN Flatten(was) /\ p \notin DOMAIN Flatten(is)
      BY <1>1, <1>2, <1>3, <1>4, <1>5
<1>7. p \in ListItems(was) /\ p \notin ListItems(is)
      BY <1>1, <1>6, FlatLeaves
<1>8. PICK list \in DOMAIN was \cap ListPaths : p \in ItemsOf(was, list)
      BY <1>7, ItemIs
<1>9. list \in DOMAIN laid
  <2> SUFFICES ASSUME list \notin DOMAIN laid PROVE FALSE
      OBVIOUS
  <2>1. list \in DOMAIN is \cap ListPaths /\ is[list] = was[list]
        BY <1>1, <1>8
  <2>2. p \in ItemsOf(is, list)
        BY <1>8, <2>1 DEF ItemsOf
  <2> QED BY <1>7, <2>1, <2>2, ItemIs
<1>10. list \in DOMAIN gone \cap ListPaths /\ gone[list] = was[list]
      BY <1>8, <1>9 DEF gone, Replaced
<1>11. p \in ItemsOf(gone, list)
      BY <1>8, <1>10 DEF ItemsOf
<1> QED BY <1>10, <1>11, ItemIs DEF gone, was, laid

\* Differences, over something that has the properties of what they differ
\* from, have those of what differs, and nothing new besides.
LEMMA DifferencesSuffice ==
  ASSUME NEW outer, NEW inner, NEW m, NEW inherited,
         DOMAIN CssVariables(outer, m) \subseteq DOMAIN inherited,
         \A n \in DOMAIN CssVariables(outer, m) : inherited[n] = CssVariables(outer, m)[n]
  PROVE  LET over == Lay(ChangedCssVariables(outer, inner, m), inherited)
         IN  /\ DOMAIN CssVariables(inner, m) \subseteq DOMAIN over
             /\ \A n \in DOMAIN CssVariables(inner, m) : over[n] = CssVariables(inner, m)[n]
             /\ DOMAIN over \ DOMAIN CssVariables(inner, m) \subseteq DOMAIN inherited
<1> DEFINE was == CssVariables(outer, m)
           is == CssVariables(inner, m)
           changed == {n \in DOMAIN is : n \notin DOMAIN was \/ was[n] # is[n]}
           over == Lay(ChangedCssVariables(outer, inner, m), inherited)
<1>1. ChangedCssVariables(outer, inner, m) = [n \in changed |-> is[n]]
      BY DEF ChangedCssVariables
<1> HIDE DEF was, is
<1>2. Lay([n \in changed |-> is[n]], inherited)
        = [n \in changed \union DOMAIN inherited |-> IF n \in changed THEN is[n] ELSE inherited[n]]
      BY DEF Lay
<1>3. over = [n \in changed \union DOMAIN inherited |-> IF n \in changed THEN is[n] ELSE inherited[n]]
      BY <1>1, <1>2
<1> HIDE DEF over
<1>4. \A n \in DOMAIN is \ changed : n \in DOMAIN inherited /\ inherited[n] = is[n]
      BY DEF was
<1>5. /\ DOMAIN is \subseteq DOMAIN over
      /\ \A n \in DOMAIN is : over[n] = is[n]
      /\ DOMAIN over \ DOMAIN is \subseteq DOMAIN inherited
      BY <1>3, <1>4
<1> QED BY <1>5 DEF over, is

\* Tokens make properties.
LEMMA PropertiesOfTokens ==
  ASSUME NEW inputs, NEW m, NEW paths, paths \subseteq DOMAIN TokensFor(FlattenTheme(inputs), m)
  PROVE  {CustomProperty[p] : p \in paths} \subseteq DOMAIN CssVariables(inputs, m)
  BY DEF CssVariables

LEMMA TokensOfProperties ==
  ASSUME NEW inputs, NEW m, NEW n \in DOMAIN CssVariables(inputs, m)
  PROVE  \E p \in DOMAIN TokensFor(FlattenTheme(inputs), m) : n = CustomProperty[p]
  BY DEF CssVariables

\* No two tokens have one property, so a property leads back to its token.
LEMMA PropertyLeadsBack ==
  ASSUME NEW p \in FlatPaths
  PROVE  PathOf[CustomProperty[p]] = p
<1>1. CustomProperty[p] \in {CustomProperty[q] : q \in FlatPaths}
      OBVIOUS
<1>2. PathOf[CustomProperty[p]] = CHOOSE q \in FlatPaths : CustomProperty[q] = CustomProperty[p]
      BY <1>1 DEF PathOf
<1> QED BY <1>2, PropertiesAreDistinct

\* What is drawn is a whole theme and a nest that the page may have.
DrawnInv ==
  /\ host \in [tokens : HostTokens, theme : HostThemes] /\ scopes \in ScopeTokens
  /\ drawn # NotDrawn =>
       drawn.mode \in ThemeMode /\ Whole(drawn.active.tokens) /\ drawn.scopes \in ScopeTokens

LEMMA ActiveIsWhole ==
  ASSUME host \in [tokens : HostTokens, theme : HostThemes]
  PROVE  Whole(Active.tokens)
<1>1. Whole(Shipped)
      BY DEF Whole
<1>2. CASE host.theme # NoTheme
      BY <1>2, ThemesAssumption DEF Active
<1>3. CASE host.theme = NoTheme
  <2>1. Active.tokens = ApplyOverrides(Shipped, host.tokens)
        BY <1>3 DEF Active, CreateAtlasTheme
  <2>2. CASE host.tokens = NoOverrides
        BY <1>1, <2>1, <2>2 DEF ApplyOverrides
  <2>3. CASE host.tokens # NoOverrides
        BY <1>1, <2>1, <2>3, LaidOverIsWhole, ThemesAssumption
  <2> QED BY <2>2, <2>3
<1> QED BY <1>2, <1>3

LEMMA DrawnStep == PageInv /\ DrawnInv /\ [PageNext]_pageVars => DrawnInv'
<1> SUFFICES ASSUME PageInv, DrawnInv, [PageNext]_pageVars PROVE DrawnInv'
    OBVIOUS
<1>1. CASE UNCHANGED drawn /\ host' \in [tokens : HostTokens, theme : HostThemes] /\ scopes' \in ScopeTokens
      BY <1>1 DEF DrawnInv, NotDrawn
<1>2. CASE drawn' = NotDrawn' /\ UNCHANGED <<host, scopes>>
      BY <1>2 DEF DrawnInv
<1>3. CASE (\E next \in ThemeMode : SetMode(next)) \/ Rerender \/ Rescope \/ Stamp \/ UNCHANGED pageVars
      BY <1>1, <1>3 DEF SetMode, Rerender, Rescope, Stamp, pageVars, DrawnInv
<1>4. CASE LoadAgain
  <2>1. drawn' = NotDrawn /\ NotDrawn' = NotDrawn
        BY <1>4 DEF LoadAgain, NotDrawn
  <2> QED BY <1>2, <1>4, <2>1 DEF LoadAgain
<1>5. CASE Commit
  <2>1. drawn' = Now /\ UNCHANGED <<host, scopes>>
        BY <1>5, Zenon DEF Commit
  <2>2. Now.mode = mode /\ Now.active = Active /\ Now.scopes = scopes
        BY DEF Now
  <2>3. Whole(Active.tokens)
        BY ActiveIsWhole DEF DrawnInv
  <2> DEFINE now == Now
  <2>4. now.mode \in ThemeMode /\ Whole(now.active.tokens) /\ now.scopes \in ScopeTokens
        BY <2>2, <2>3 DEF DrawnInv, PageInv
  <2> HIDE DEF now
  <2>5. drawn' = now
        BY <2>1 DEF now
  <2> QED BY <2>1, <2>4, <2>5 DEF DrawnInv, Whole
<1> QED BY <1>3, <1>4, <1>5 DEF PageNext

\* At every depth there is a whole theme of the page's mode, and the properties
\* inherited there are all of its properties, and what lists left over.
Composes(page, k) ==
  LET themes == ThemesOf(page)
      inherited == Inherited(page)[k]
      given == CssVariables(themes[k].tokens, page.mode)
  IN  /\ Whole(themes[k].tokens) /\ themes[k].mode = page.mode
      /\ DOMAIN given \subseteq DOMAIN inherited
      /\ \A name \in DOMAIN given : inherited[name] = given[name]
      /\ DOMAIN inherited \ DOMAIN given \subseteq {CustomProperty[p] : p \in LeftOver(page, k)}

\* What a scope leaves over it adds to what those around it left.
LEMMA LeftOverGrows ==
  ASSUME NEW page, NEW k \in Nat \ {0}
  PROVE  /\ LeftOver(page, k - 1) \subseteq LeftOver(page, k)
         /\ ListItems(Replaced(ThemesOf(page)[k - 1].tokens.palettes[page.mode], page.scopes[k].palettes[page.mode]))
              \subseteq LeftOver(page, k)
<1> DEFINE gone(i) == ListItems(Replaced(ThemesOf(page)[i - 1].tokens.palettes[page.mode],
                                         page.scopes[i].palettes[page.mode]))
<1>1. \A i : LeftOver(page, i) = UNION {gone(j) : j \in 1 .. i}
      BY DEF LeftOver, Replaced
<1>2. 1 .. k - 1 \subseteq 1 .. k /\ k \in 1 .. k
      OBVIOUS
<1> HIDE DEF gone
<1>3. UNION {gone(j) : j \in 1 .. k - 1} \subseteq UNION {gone(j) : j \in 1 .. k}
      BY <1>2
<1>4. gone(k) \subseteq UNION {gone(j) : j \in 1 .. k}
      BY <1>2
<1> QED BY <1>1, <1>3, <1>4 DEF gone

LEMMA EveryDepthComposes ==
  ASSUME NEW page, page.mode \in ThemeMode, Whole(page.active.tokens), page.scopes \in ScopeTokens,
         page.active.mode = page.mode, root = VariablesOf(page)
  PROVE  \A k \in 0 .. Len(page.scopes) : Composes(page, k)
<1> DEFINE n == Len(page.scopes)
           themes == ThemesOf(page)
           below == Inherited(page)
           Failing == {k \in 0 .. n : ~ Composes(page, k)}
<1>1. n \in Nat
      BY ThemesAssumption
<1>2. /\ \A k \in 0 .. n : themes[k] = IF k = 0 THEN page.active ELSE Inner(page, k, themes[k - 1])
      /\ \A k \in 0 .. n : below[k] = IF k = 0 THEN root ELSE Around(themes, k, below[k - 1])
  <2>1. NestOf(themes, page, n) /\ LaidOf(below, themes, n)
        BY <1>1, ThemesOfValues, InheritedValues
  <2> HIDE DEF themes, below, n
  <2> QED BY <2>1 DEF NestOf, LaidOf
<1>3. SUFFICES ASSUME Failing # {} PROVE FALSE
      OBVIOUS
<1>4. PICK k \in Failing : \A j \in Failing : k <= j
  <2>1. Failing \subseteq Nat
        BY <1>1
  <2> HIDE DEF Failing
  <2> QED BY <1>3, <2>1, Least
<1>5. k \in 0 .. n /\ ~ Composes(page, k)
      OBVIOUS
<1>6. k # 0
  <2>1. themes[0] = page.active /\ below[0] = root
        BY <1>1, <1>2
  <2>2. Composes(page, 0)
        BY <2>1 DEF VariablesOf, Composes
  <2> QED BY <1>5, <2>2
<1>7. k \in 1 .. n /\ k - 1 \in 0 .. n /\ k - 1 < k /\ k \in Nat \ {0}
      BY <1>1, <1>5, <1>6
<1>8. Composes(page, k - 1)
  <2>1. k - 1 \notin Failing
    <3> HIDE DEF Failing
    <3> QED BY <1>4, <1>7
  <2> QED BY <1>7, <2>1
<1> DEFINE outer == themes[k - 1]
           over == page.scopes[k]
           around == below[k - 1]
           inherited == below[k]
           was == CssVariables(outer.tokens, page.mode)
           given == CssVariables(themes[k].tokens, page.mode)
<1>9. themes[k].mode = outer.mode /\ themes[k].tokens = ApplyOverrides(outer.tokens, over)
  <2>1. themes[k] = Inner(page, k, outer)
    <3> HIDE DEF n, themes
    <3> QED BY <1>2, <1>5, <1>6
  <2> QED BY <2>1 DEF Inner, CreateAtlasTheme
<1>10. over # NoOverrides /\ Partial(over)
      BY <1>7, ThemesAssumption
<1>11. Whole(themes[k].tokens) /\ themes[k].mode = page.mode
  <2>1. Whole(outer.tokens) /\ outer.mode = page.mode
        BY <1>8 DEF Composes
  <2> HIDE DEF outer, over, themes
  <2> QED BY <1>9, <1>10, <2>1, LaidOverIsWhole
<1>12. /\ DOMAIN was \subseteq DOMAIN around
       /\ \A name \in DOMAIN was : around[name] = was[name]
       /\ DOMAIN around \ DOMAIN was \subseteq {CustomProperty[p] : p \in LeftOver(page, k - 1)}
      BY <1>8 DEF Composes
<1>13. inherited = Lay(ChangedCssVariables(outer.tokens, themes[k].tokens, page.mode), around)
  <2>1. inherited = Around(themes, k, around)
    <3> HIDE DEF n, themes, below
    <3> QED BY <1>2, <1>5, <1>6
  <2> QED BY <1>11, <2>1 DEF Around, Properties
<1>14. /\ DOMAIN given \subseteq DOMAIN inherited
       /\ \A name \in DOMAIN given : inherited[name] = given[name]
       /\ DOMAIN inherited \ DOMAIN given \subseteq DOMAIN around
  <2> HIDE DEF outer, around, inherited, themes
  <2> QED BY <1>12, <1>13, DifferencesSuffice
<1>15. ASSUME NEW name \in DOMAIN inherited \ DOMAIN given
       PROVE  \E p \in LeftOver(page, k) : name = CustomProperty[p]
  <2>1. name \in DOMAIN around
        BY <1>14
  <2>2. CASE name \notin DOMAIN was
    <3> HIDE DEF outer, around, was, inherited, given
    <3>1. PICK p \in LeftOver(page, k - 1) : name = CustomProperty[p]
          BY <1>12, <2>1, <2>2
    <3> QED BY <1>7, <3>1, LeftOverGrows
  <2>3. CASE name \in DOMAIN was
    <3>1. PICK p \in DOMAIN TokensFor(FlattenTheme(outer.tokens), page.mode) : name = CustomProperty[p]
      <4> HIDE DEF outer
      <4> QED BY <2>3, TokensOfProperties
    <3>2. p \notin DOMAIN TokensFor(FlattenTheme(themes[k].tokens), page.mode)
      <4> HIDE DEF themes
      <4>1. p \in DOMAIN TokensFor(FlattenTheme(themes[k].tokens), page.mode) => CustomProperty[p] \in DOMAIN given
            BY DEF CssVariables
      <4> QED BY <1>15, <3>1, <4>1
    <3>3. p \in ListItems(Replaced(outer.tokens.palettes[page.mode], over.palettes[page.mode]))
      <4> HIDE DEF outer, over, themes
      <4> QED BY <1>9, <1>10, <3>1, <3>2, LaidOverKeeps
    <3>4. p \in LeftOver(page, k)
          BY <1>7, <3>3, LeftOverGrows
    <3> QED BY <3>1, <3>4
  <2> QED BY <2>2, <2>3
<1>16. Composes(page, k)
      BY <1>11, <1>14, <1>15 DEF Composes
<1> QED BY <1>5, <1>16

\* A token that a scope leaves alone keeps its property, if it leaves the
\* palette of the mode alone: what a component colour names is still the same.
LEMMA LeftAloneIsKept ==
  ASSUME NEW inputs, NEW over, NEW m \in ThemeMode, NEW p \in FlatPaths,
         Whole(inputs), over # NoOverrides, Partial(over), over.palettes[m] = <<>>,
         Front(p) \notin ListPaths, p \in DOMAIN TokensFor(FlattenTheme(Shipped), m),
         p \notin DOMAIN over.shared \union {ComponentPath(q) : q \in DOMAIN over.components}
  PROVE  CssVariables(ApplyOverrides(inputs, over), m)[CustomProperty[p]] =
           CssVariables(inputs, m)[CustomProperty[p]]
<1> DEFINE new == ApplyOverrides(inputs, over)
           was == TokensFor(FlattenTheme(inputs), m)
           is == TokensFor(FlattenTheme(new), m)
<1>1. /\ new.shared = Lay(over.shared, inputs.shared)
      /\ new.components = Lay(over.components, inputs.components)
      /\ new.palettes[m] = Lay(<<>>, inputs.palettes[m])
      BY DEF ApplyOverrides
<1>2. Whole(new)
      BY LaidOverIsWhole
<1> HIDE DEF new
<1>3. p \in DOMAIN was /\ p \in DOMAIN is
      BY <1>2, WholeHasShipped, NoItem
<1>4. /\ DOMAIN new.palettes[m] = DOMAIN inputs.palettes[m]
      /\ \A q \in DOMAIN inputs.palettes[m] : new.palettes[m][q] = inputs.palettes[m][q]
      BY <1>1 DEF Lay
<1>5. \A value : ResolvePaletteToken(new.palettes[m], value) = ResolvePaletteToken(inputs.palettes[m], value)
      BY <1>4 DEF ResolvePaletteToken
<1>6. DOMAIN new.components = DOMAIN inputs.components /\ DOMAIN new.shared = DOMAIN inputs.shared
      BY <1>2 DEF Whole
<1>7. ASSUME NEW q \in DOMAIN inputs.components, p = ComponentPath(q)
      PROVE  Tail(p) = q /\ new.components[q] = inputs.components[q]
  <2>1. q \in Seq(STRING)
        BY ThemesAssumption DEF Whole
  <2>2. Tail(p) = q
        BY <1>7, <2>1 DEF ComponentPath
  <2>3. q \notin DOMAIN over.components
        BY <1>7
  <2> QED BY <1>1, <2>2, <2>3 DEF Lay
<1>a. /\ p \in DOMAIN Flatten(new.palettes[m]) <=> p \in DOMAIN Flatten(inputs.palettes[m])
      /\ p \in DOMAIN Flatten(inputs.palettes[m]) =>
           Flatten(new.palettes[m])[p] = Flatten(inputs.palettes[m])[p]
      BY <1>4, FlatLeaves, NoItem
<1>8. p \in DOMAIN inputs.shared => new.shared[p] = inputs.shared[p]
      BY <1>1 DEF Lay
<1>9. is[p] = was[p]
  <2>1. was[p] = FlatValue(inputs, m, p) /\ is[p] = FlatValue(new, m, p)
    <3>1. was[p] = FlatValue(inputs, m, p)
          BY <1>3, FlatTokens, Zenon
    <3>2. is[p] = FlatValue(new, m, p)
          BY <1>3, FlatTokens, Zenon
    <3> QED BY <3>1, <3>2
  <2>2. NamedPaths(new) = NamedPaths(inputs)
        BY <1>6 DEF NamedPaths
  <2>3. p \in NamedPaths(inputs) => new.components[Tail(p)] = inputs.components[Tail(p)]
        BY <1>7 DEF NamedPaths
  <2>4. p \notin NamedPaths(inputs) /\ p \notin DOMAIN Flatten(inputs.palettes[m]) => p \in DOMAIN inputs.shared
    <3>1. DOMAIN was = NamedPaths(inputs) \union DOMAIN Flatten(inputs.palettes[m]) \union DOMAIN inputs.shared
          BY FlatTokens
    <3> QED BY <1>3, <3>1
  <2> HIDE DEF was, is
  <2> QED BY <1>5, <1>a, <1>8, <2>1, <2>2, <2>3, <2>4 DEF FlatValue
<1>10. ASSUME NEW given, p \in DOMAIN TokensFor(FlattenTheme(given), m)
       PROVE  CssVariables(given, m)[CustomProperty[p]] = CssValue(p, TokensFor(FlattenTheme(given), m)[p])
  <2> DEFINE flat == TokensFor(FlattenTheme(given), m)
  <2>1. CustomProperty[p] \in {CustomProperty[q] : q \in DOMAIN flat}
        BY <1>10
  <2>2. CssVariables(given, m) =
          [name \in {CustomProperty[q] : q \in DOMAIN flat} |-> CssValue(PathOf[name], flat[PathOf[name]])]
        BY DEF CssVariables
  <2>3. PathOf[CustomProperty[p]] = p
        BY PropertyLeadsBack
  <2> HIDE DEF flat
  <2>4. CssVariables(given, m)[CustomProperty[p]] = CssValue(p, flat[p])
        BY <2>1, <2>2, <2>3
  <2> QED BY <2>4 DEF flat
<1> QED BY <1>3, <1>9, <1>10 DEF new

\* AtlasTokenScope.tsx: for any theme of the page's mode and any nest of scopes,
\* however deep: the properties inherited at every depth have all those of the
\* theme that is given there, though each scope writes only differences, and
\* besides them only items of lists that a scope replaced; and a scope without
\* colours restyles what it lays over and nothing else.
THEOREM NestedScopesCompose == PageSpec => []ScopesCompose
<1>1. PageInit => DrawnInv
      BY DEF PageInit, DrawnInv
<1>2. PageInv /\ DrawnInv => ScopesCompose
  <2> SUFFICES ASSUME PageInv, DrawnInv, drawn # NotDrawn, drawn.active.mode = drawn.mode
               PROVE  ScopesCompose
      BY DEF ScopesCompose
  <2> DEFINE n == Len(drawn.scopes)
             themes == ThemesOf(drawn)
  <2>1. /\ drawn.mode \in ThemeMode /\ Whole(drawn.active.tokens) /\ drawn.scopes \in ScopeTokens
        /\ root = VariablesOf(drawn)
        BY DEF DrawnInv, PageInv
  <2>2. \A k \in 0 .. n : Composes(drawn, k)
        BY <2>1, EveryDepthComposes
  <2>3. n \in Nat /\ DOMAIN drawn.scopes = 1 .. n
        BY <2>1, ThemesAssumption
  <2>4. ASSUME NEW k \in 0 .. n, NEW drawing \in Parts
        PROVE  {CustomProperty[p] : p \in drawing.reads} \subseteq DOMAIN CssVariables(themes[k].tokens, drawn.mode)
    <3>1. Whole(themes[k].tokens)
          BY <2>2 DEF Composes
    <3> HIDE DEF themes, n
    <3>2. \A p \in drawing.reads : p \in DOMAIN TokensFor(FlattenTheme(themes[k].tokens), drawn.mode)
          BY <2>1, <3>1, WholeHasShipped, PartsAssumption, NoItem
    <3>3. drawing.reads \subseteq DOMAIN TokensFor(FlattenTheme(themes[k].tokens), drawn.mode)
          BY <3>2
    <3> QED BY <3>3, PropertiesOfTokens
  <2>5. ASSUME NEW k \in 1 .. n, drawn.scopes[k].palettes[drawn.mode] = <<>>,
               NEW drawing \in Parts, NEW p \in drawing.reads \cap Restyled(themes[k - 1], themes[k], drawn.mode)
        PROVE  LET over == drawn.scopes[k]
               IN  /\ <<UsagePath(p), drawing.by>> \in UsageMap
                   /\ p \in DOMAIN over.shared \union {ComponentPath(q) : q \in DOMAIN over.components}
    <3> DEFINE over == drawn.scopes[k]
               inputs == themes[k - 1].tokens
    <3>1. k - 1 \in 0 .. n /\ k \in 0 .. n /\ k # 0
          BY <2>3
    <3>2. themes[k].tokens = ApplyOverrides(inputs, over)
      <4>1. NestOf(themes, drawn, n)
            BY <2>3, ThemesOfValues
      <4> HIDE DEF themes, n
      <4>2. themes[k] = Inner(drawn, k, themes[k - 1])
            BY <3>1, <4>1 DEF NestOf
      <4> QED BY <4>2 DEF Inner, CreateAtlasTheme
    <3>3. Whole(inputs) /\ over # NoOverrides /\ Partial(over)
          BY <2>1, <2>2, <2>3, <3>1, ThemesAssumption DEF Composes
    <3>4. /\ p \in FlatPaths /\ Front(p) \notin ListPaths /\ p \in DOMAIN TokensFor(FlattenTheme(Shipped), drawn.mode)
          /\ p \in DOMAIN Shipped.shared \union {ComponentPath(q) : q \in DOMAIN Shipped.components} =>
               <<UsagePath(p), drawing.by>> \in UsageMap
          BY <2>1, PartsAssumption
    <3>5. CssVariables(themes[k].tokens, drawn.mode)[CustomProperty[p]] #
            CssVariables(inputs, drawn.mode)[CustomProperty[p]]
          BY DEF Restyled
    <3> HIDE DEF themes, n, inputs, over
    <3>6. p \in DOMAIN over.shared \union {ComponentPath(q) : q \in DOMAIN over.components}
          BY <2>1, <2>5, <3>2, <3>3, <3>4, <3>5, LeftAloneIsKept DEF over
    <3>7. p \in DOMAIN Shipped.shared \union {ComponentPath(q) : q \in DOMAIN Shipped.components}
          BY <3>3, <3>6 DEF Partial
    <3> QED BY <3>4, <3>6, <3>7 DEF over
  <2>6. \A k \in 0 .. n :
          LET inherited == Inherited(drawn)[k]
              given == CssVariables(themes[k].tokens, drawn.mode)
          IN  /\ DOMAIN given \subseteq DOMAIN inherited
              /\ \A name \in DOMAIN given : inherited[name] = given[name]
              /\ DOMAIN inherited \ DOMAIN given \subseteq {CustomProperty[p] : p \in LeftOver(drawn, k)}
        BY <2>2 DEF Composes
  <2> QED BY <2>4, <2>5, <2>6 DEF ScopesCompose
<1> QED BY PageInitInv, PageInvStep, DrawnStep, <1>1, <1>2, PTL DEF PageSpec

-----------------------------------------------------------------------------
(* TokenTargets.                                                           *)

IsTree(tree) == DOMAIN tree = {"inputs", "version", "files"} /\ tree.version \in Nat

\* Versions only grow on their way from the working copy to the client, and
\* one that is still the same stands for the same tokens.
TargetsInv ==
  /\ IsTree(work) /\ IsTree(onMain) /\ onMain.version <= work.version
  /\ proposed # NoSnapshot =>
       IsTree(proposed) /\ onMain.version <= proposed.version /\ proposed.version <= work.version
  /\ onMain.files["Tokens.g.cs"] = EmitCSharp(onMain.inputs, onMain.version)
  /\ deployed.version \in Nat /\ deployed.version <= onMain.version
  /\ ~ relabelled /\ deployed.version = onMain.version => deployed = onMain.files["Tokens.g.cs"]
  /\ cached # NotCached =>
       /\ cached.version \in Nat /\ cached.version <= deployed.version
       /\ ~ relabelled /\ cached.version = deployed.version => cached = deployed

LEMMA CSharpOfTargets ==
  ASSUME NEW inputs, NEW version
  PROVE  /\ "Tokens.g.cs" \in Target
         /\ TargetsOf(inputs, version)["Tokens.g.cs"] = EmitCSharp(inputs, version)
         /\ EmitCSharp(inputs, version).version = version
<1>1. "Tokens.g.cs" = Order[4] /\ 4 \in DOMAIN Order
      BY DEF Order
<1>2. "Tokens.g.cs" \in Target
      BY <1>1 DEF Target
<1> QED BY <1>2 DEF TargetsOf, EmitCSharp

LEMMA TargetsInitInv == TargetsInit => TargetsInv
<1> SUFFICES ASSUME TargetsInit PROVE TargetsInv
    OBVIOUS
<1>1. /\ IsTree(FirstTree) /\ FirstTree.version = 1 /\ FirstTree.inputs = FirstExport
      /\ FirstTree.files = TargetsOf(FirstExport, 1)
      BY DEF FirstTree, IsTree
<1>2. FirstTree.files["Tokens.g.cs"] = EmitCSharp(FirstExport, 1) /\ EmitCSharp(FirstExport, 1).version = 1
      BY <1>1, CSharpOfTargets
<1> QED BY <1>1, <1>2 DEF TargetsInit, TargetsInv

LEMMA TargetsInvStep == TargetsInv /\ [TargetsNext]_targetVars => TargetsInv'
<1> SUFFICES ASSUME TargetsInv, [TargetsNext]_targetVars PROVE TargetsInv'
    OBVIOUS
<1> USE DEF TargetsInv
<1>1. ASSUME NEW inputs \in Exports, SyncExport(inputs) \/ EditExport(inputs) PROVE TargetsInv'
  <2>1. /\ DOMAIN work' = DOMAIN work
        /\ work'.version = work.version \/ work'.version = work.version + 1
        BY <1>1 DEF SyncExport, EditExport, IsTree
  <2>2. UNCHANGED <<proposed, onMain, deployed, cached, relabelled>>
        BY <1>1 DEF SyncExport, EditExport
  <2> QED BY <2>1, <2>2 DEF IsTree
<1>2. ASSUME NEW t \in Target, NEW content \in {Absent, Edited}, EditTarget(t, content) PROVE TargetsInv'
      BY <1>2 DEF EditTarget, IsTree
<1>3. CASE BuildTargets \/ WriteTarget \/ Interrupt
      BY <1>3 DEF BuildTargets, WriteTarget, Interrupt, IsTree
<1>4. CASE Propose
      BY <1>4 DEF Propose, IsTree
<1>5. CASE Gate
  <2>1. CASE Check(proposed) # 0
        BY <1>5, <2>1 DEF Gate, IsTree
  <2>2. CASE Check(proposed) = 0
    <3>1. Stale(proposed) = {}
          BY <2>2 DEF Check
    <3>2. proposed.files["Tokens.g.cs"] = EmitCSharp(proposed.inputs, proposed.version)
          BY <3>1, CSharpOfTargets DEF Stale
    <3>3. /\ onMain' = proposed /\ proposed' = NoSnapshot /\ proposed # NoSnapshot
          /\ UNCHANGED <<work, deployed, cached>>
          /\ relabelled' = (relabelled \/ (proposed.version = onMain.version /\ proposed.inputs # onMain.inputs))
          BY <1>5, <2>2 DEF Gate
    <3>4. ASSUME ~ relabelled', deployed.version = proposed.version
          PROVE  deployed = proposed.files["Tokens.g.cs"]
      <4>1. onMain.version = proposed.version
            BY <3>3, <3>4 DEF IsTree
      <4>2. ~ relabelled /\ proposed.inputs = onMain.inputs
            BY <3>3, <3>4, <4>1
      <4> QED BY <3>2, <3>4, <4>1, <4>2
    <3>5. IsTree(work') /\ IsTree(onMain') /\ onMain'.version <= work'.version
          BY <3>3 DEF IsTree
    <3>6. deployed'.version \in Nat /\ deployed'.version <= onMain'.version
          BY <3>3 DEF IsTree
    <3>7. ~ relabelled' => ~ relabelled
          BY <3>3
    <3> QED BY <3>2, <3>3, <3>4, <3>5, <3>6, <3>7
  <2> QED BY <2>1, <2>2
<1>6. CASE Deploy
  <2>1. deployed'.version = onMain.version
        BY <1>6, CSharpOfTargets DEF Deploy
  <2> QED BY <1>6, <2>1 DEF Deploy, IsTree
<1>7. CASE Get
      BY <1>7 DEF Get, NotModified, IsTree
<1>8. CASE UNCHANGED targetVars
      BY <1>8 DEF targetVars, IsTree
<1> QED BY <1>1, <1>2, <1>3, <1>4, <1>5, <1>6, <1>7, <1>8 DEF TargetsNext

\* DesignTokenEndpoints.cs L30: with any number of releases, hand edits,
\* merges and deployments, what a client keeps on a 304 is what is served.
THEOREM CachesAreRight == TargetsSpec => []CachesHoldTheRelease
<1>1. TargetsInv => CachesHoldTheRelease
      BY DEF TargetsInv, CachesHoldTheRelease, NotModified
<1> QED BY TargetsInitInv, TargetsInvStep, <1>1, PTL DEF TargetsSpec

-----------------------------------------------------------------------------
(* TokenStudio.                                                            *)

IsExport(export) == export = [f \in File |-> export[f]]
IsPost(post) == DOMAIN post = {"id", "files", "answered", "heard"} /\ post.files \in posted

\* Whatever is posted may be saved, and what a write has come past is its post.
\* Nothing is left half written unless `torn` says so.
StudioInv ==
  /\ IsExport(edited) /\ IsExport(exports)
  /\ \A files_ \in posted : IsExport(files_) /\ Savable(files_)
  /\ \A p \in posts : IsPost(p)
  /\ writing # Nothing =>
       /\ DOMAIN writing = {"id", "files", "left"} /\ writing.files \in posted
       /\ \A f \in File \ writing.left : exports[f] = writing.files[f]
  /\ \A f \in File : exports[f] # Unwritten => \E files_ \in posted : exports[f] = files_[f]
  /\ ~ torn => (\A f \in File : exports[f] = Unwritten) \/ exports \in posted

LEMMA EditedIsExport ==
  ASSUME NEW export, IsExport(export), NEW edit
  PROVE  IsExport(WithValue(export, edit))
  BY DEF IsExport, WithValue

LEMMA StudioInitInv == StudioInit => StudioInv
  BY StudioAssumption DEF StudioInit, StudioInv, IsExport

LEMMA StudioInvStep == StudioInv /\ [StudioNext]_studioVars => StudioInv'
<1> SUFFICES ASSUME StudioInv, [StudioNext]_studioVars PROVE StudioInv'
    OBVIOUS
<1> USE DEF StudioInv
<1>1. CASE Toggle
  <2>1. \A p \in posts : IsPost([p EXCEPT !.heard = FALSE])'
        BY <1>1 DEF Toggle, IsPost
  <2> QED BY <1>1, <2>1, StudioAssumption DEF Toggle, IsExport
<1>2. CASE Reset
      BY <1>2, StudioAssumption DEF Reset, IsExport, IsPost
<1>3. CASE SaveStudio
      BY <1>3 DEF SaveStudio, IsPost, IsExport
<1>4. CASE Respond
  <2>1. /\ posts' = {WithAnswer(p) : p \in posts} /\ posted' = posted
        /\ \A p \in posts : DOMAIN WithAnswer(p) = DOMAIN p /\ WithAnswer(p).files = p.files
        BY <1>4 DEF Respond, IsPost, WithAnswer
  <2>2. \A p \in posts' : DOMAIN p = {"id", "files", "answered", "heard"} /\ p.files \in posted'
        BY <2>1 DEF IsPost
  <2>3. exports = writing.files
        BY <1>4 DEF Respond, IsExport
  <2> QED BY <1>4, <2>2, <2>3 DEF Respond, IsPost
<1>5. CASE Stopped
      BY <1>5 DEF Stopped, IsPost
<1>6. ASSUME NEW edit \in Edits, Edit(edit) PROVE StudioInv'
      BY <1>6, EditedIsExport DEF Edit, IsPost
<1>7. ASSUME NEW post \in posts, Receive(post) \/ Answered(post) PROVE StudioInv'
      BY <1>7 DEF Receive, Answered, IsPost
<1>8. ASSUME NEW f \in File, Write(f) PROVE StudioInv'
      BY <1>8 DEF Write, IsExport, IsPost
<1>9. CASE UNCHANGED studioVars
      BY <1>9 DEF studioVars, IsPost
<1> QED BY <1>1, <1>2, <1>3, <1>4, <1>5, <1>6, <1>7, <1>8, <1>9 DEF StudioNext

\* A write is of a post that has not been answered, and so is still under way.
StudioTypeInv == StudioTypeOK /\ saves \in Nat

LEMMA StudioTypeInit == StudioInit => StudioTypeInv
<1> SUFFICES ASSUME StudioInit PROVE StudioTypeInv
    OBVIOUS
<1>1. studio \in BOOLEAN /\ torn \in BOOLEAN
      BY Zenon DEF StudioInit
<1>2. saved \in (1 .. saves) \union {Nothing} /\ saves \in Nat
      BY DEF StudioInit
<1>3. posts = {} /\ writing = Nothing
      BY DEF StudioInit
<1> QED BY <1>1, <1>2, <1>3, Zenon DEF StudioTypeInv, StudioTypeOK

LEMMA StudioTypeStep == StudioInv /\ StudioTypeInv /\ [StudioNext]_studioVars => StudioTypeInv'
<1> SUFFICES ASSUME StudioInv, StudioTypeInv, [StudioNext]_studioVars PROVE StudioTypeInv'
    OBVIOUS
<1> USE DEF StudioTypeInv, StudioTypeOK
<1>1. CASE Toggle
  <2>1. \A p \in posts : LET q == [p EXCEPT !.heard = FALSE]
                        IN  q.id = p.id /\ q.files = p.files /\ q.answered = p.answered /\ q.heard = FALSE
        BY DEF StudioInv, IsPost
  <2> DEFINE deaf(p) == [p EXCEPT !.heard = FALSE]
  <2>2. /\ posts' = {deaf(p) : p \in posts} /\ saved' = Nothing /\ studio' = ~ studio
        /\ UNCHANGED <<posted, writing, torn, saves>>
        BY <1>1 DEF Toggle
  <2>3. \A p \in posts : /\ deaf(p).id = p.id /\ deaf(p).files = p.files
                         /\ deaf(p).answered = p.answered /\ deaf(p).heard = FALSE
        BY <2>1
  <2> HIDE DEF deaf
  <2>4. \A q \in posts' : q.id \in 1 .. saves /\ q.answered \in BOOLEAN /\ q.heard \in BOOLEAN /\ q.files \in posted
        BY <2>2, <2>3, Zenon
  <2>5. writing # Nothing => \E q \in posts' : q.id = writing.id /\ q.files = writing.files /\ ~ q.answered
    <3>1. SUFFICES ASSUME writing # Nothing
                   PROVE  \E q \in posts' : q.id = writing.id /\ q.files = writing.files /\ ~ q.answered
          OBVIOUS
    <3>2. PICK p \in posts : p.id = writing.id /\ p.files = writing.files /\ ~ p.answered
          BY <3>1
    <3>3. deaf(p) \in posts'
          BY <2>2
    <3> QED BY <2>3, <3>2, <3>3
  <2> QED BY <2>2, <2>4, <2>5
<1>2. CASE SaveStudio
  <2> DEFINE new == [id |-> saves + 1, files |-> edited, answered |-> FALSE, heard |-> TRUE]
  <2>1. new.id \in 1 .. saves + 1 /\ new.answered \in BOOLEAN /\ new.heard \in BOOLEAN /\ new.files = edited
        OBVIOUS
  <2>2. (1 .. saves) \subseteq 1 .. saves + 1 /\ saves + 1 \in Nat
        OBVIOUS
  <2>3. /\ saves' = saves + 1 /\ posts' = posts \union {new} /\ posted' = posted \union {edited}
        /\ UNCHANGED <<studio, saved, writing, torn>>
        BY <1>2 DEF SaveStudio
  <2> HIDE DEF new
  <2> QED BY <2>1, <2>2, <2>3, Zenon
<1>3. CASE Respond
  <2>1. \A p \in posts : LET q == WithAnswer(p)
                        IN  q.id = p.id /\ q.files = p.files /\ q.answered \in BOOLEAN /\ q.heard = p.heard
        BY DEF StudioInv, IsPost, WithAnswer
  <2> QED BY <1>3, <2>1 DEF Respond
<1>0. CASE Reset
      BY <1>0 DEF Reset
<1>4. CASE Stopped
      BY <1>4 DEF Stopped
<1>5. ASSUME NEW edit \in Edits, Edit(edit) PROVE StudioTypeInv'
      BY <1>5 DEF Edit
<1>6. ASSUME NEW post \in posts, Receive(post) PROVE StudioTypeInv'
      BY <1>6 DEF Receive
<1>7. ASSUME NEW post \in posts, Answered(post) PROVE StudioTypeInv'
      BY <1>7 DEF Answered
<1>8. ASSUME NEW f \in File, Write(f) PROVE StudioTypeInv'
      BY <1>8 DEF Write
<1>9. CASE UNCHANGED studioVars
      BY <1>9 DEF studioVars
<1> QED BY <1>0, <1>1, <1>2, <1>3, <1>4, <1>5, <1>6, <1>7, <1>8, <1>9 DEF StudioNext

\* vite.config.ts L17-33: however the requests overtake each other, what the
\* server writes belongs to a request that still waits for its answer, and the
\* page is told of no save it did not send.
THEOREM StudioTypesHold == StudioSpec => []StudioTypeOK
<1>1. StudioTypeInv => StudioTypeOK
      BY DEF StudioTypeInv
<1> QED BY StudioInitInv, StudioInvStep, StudioTypeInit, StudioTypeStep, <1>1, PTL DEF StudioSpec

\* A ratio of l over d that is at least r, in hundredths and rounded to the
\* nearest, is below r by half a hundredth at most.
LEMMA RatioBound ==
  ASSUME NEW l \in Nat, NEW d \in Nat, d > 0, NEW r \in Nat, ~ ((200 * l + d) \div (2 * d) < r)
  PROVE  200 * l >= (2 * r - 1) * d
<1> DEFINE q == (200 * l + d) \div (2 * d)
<1>1. q \in Int /\ (2 * d) * q <= 200 * l + d
  <2>1. 200 * l + d \in Int /\ 2 * d \in Nat \ {0}
        OBVIOUS
  <2>2. \A a \in Int, b \in Nat \ {0} : a \div b \in Int /\ b * (a \div b) <= a
        BY SMTT(30)
  <2> QED BY <2>1, <2>2
<1>2. q >= r
      BY <1>1
<1> HIDE DEF q
<1>3. (2 * d) * q >= (2 * d) * r
      BY <1>1, <1>2, SMTT(30)
<1>4. (2 * d) * r <= 200 * l + d
      BY <1>1, <1>3, SMTT(30)
<1> QED BY <1>4, SMTT(30)

\* A pair that is not found to lack contrast has it, but for the rounding.
LEMMA ContrastIsThere ==
  ASSUME NEW palette, NEW pair \in Pairs,
         {palette[pair.foreground], palette[pair.background]} \subseteq Value,
         Opaque(palette, pair), pair \notin CheckContrast(palette)
  PROVE  LET frontLum == Luminance[palette[pair.foreground]] + 500
             backLum == Luminance[palette[pair.background]] + 500
         IN  200 * frontLum >= (2 * pair.minimum - 1) * backLum \/ 200 * backLum >= (2 * pair.minimum - 1) * frontLum
<1> DEFINE frontLum == Luminance[palette[pair.foreground]] + 500
           backLum == Luminance[palette[pair.background]] + 500
<1>1. /\ Luminance[palette[pair.foreground]] \in Nat /\ Luminance[palette[pair.background]] \in Nat
      /\ pair.minimum \in Nat
      BY StudioAssumption DEF Opaque
<1>2. ~ (ContrastRatio(palette[pair.foreground], palette[pair.background]) < pair.minimum)
      BY DEF CheckContrast
<1>3. CASE Luminance[palette[pair.foreground]] + 500 >= Luminance[palette[pair.background]] + 500
  <2>1. ~ ((200 * frontLum + backLum) \div (2 * backLum) < pair.minimum)
        BY <1>2, <1>3 DEF ContrastRatio
  <2>2. frontLum \in Nat /\ backLum \in Nat /\ backLum > 0
        BY <1>1
  <2> HIDE DEF frontLum, backLum
  <2>3. 200 * frontLum >= (2 * pair.minimum - 1) * backLum
        BY <1>1, <2>1, <2>2, RatioBound
  <2> QED BY <2>3 DEF frontLum, backLum
<1>4. CASE ~ (Luminance[palette[pair.foreground]] + 500 >= Luminance[palette[pair.background]] + 500)
  <2>1. ~ ((200 * backLum + frontLum) \div (2 * frontLum) < pair.minimum)
        BY <1>2, <1>4 DEF ContrastRatio
  <2>2. frontLum \in Nat /\ backLum \in Nat /\ frontLum > 0
        BY <1>1
  <2> HIDE DEF frontLum, backLum
  <2>3. 200 * backLum >= (2 * pair.minimum - 1) * frontLum
        BY <1>1, <2>1, <2>2, RatioBound
  <2> QED BY <2>3 DEF frontLum, backLum
<1> QED BY <1>3, <1>4

\* TokenStudio.tsx L91: with any number of edits, saves under way and stops,
\* what lies in exports/studio is one of the exports that were sent, passed the
\* gates of the page, and file by file it is of some that was sent even after
\* a stop.
THEOREM StudioIsGated == StudioSpec => []ExportsAreGated
<1>1. StudioInv => ExportsAreGated
  <2> SUFFICES ASSUME StudioInv, ~ torn, \E f \in File : exports[f] # Unwritten
               PROVE  ExportsAreGated
      BY DEF ExportsAreGated, StudioInv
  <2>1. exports \in posted /\ Savable(exports)
        BY DEF StudioInv
  <2>2. Build(exports) /\ exports \in Transforms /\ Diff(Committed, exports) # {} /\ Findings(exports) = {}
        BY <2>1 DEF Savable, Build
  <2>3. ASSUME NEW m \in Mode \ {"base"}, NEW pair \in Pairs, Opaque(PaletteOf(exports, m), pair)
        PROVE  LET palette == PaletteOf(exports, m)
                   frontLum == Luminance[palette[pair.foreground]] + 500
                   backLum == Luminance[palette[pair.background]] + 500
               IN  200 * frontLum >= (2 * pair.minimum - 1) * backLum
                     \/ 200 * backLum >= (2 * pair.minimum - 1) * frontLum
    <3>1. pair \notin CheckContrast(PaletteOf(exports, m))
          BY <2>2 DEF Findings
    <3>2. {PaletteOf(exports, m)[pair.foreground], PaletteOf(exports, m)[pair.background]} \subseteq Value
          BY <2>2, TransformsAssumption
    <3> HIDE DEF PaletteOf
    <3> QED BY <2>3, <3>1, <3>2, ContrastIsThere
  <2>4. \A f \in File : exports[f] # Unwritten => \E files_ \in posted : exports[f] = files_[f]
        BY DEF StudioInv
  <2> QED BY <2>1, <2>2, <2>3, <2>4 DEF ExportsAreGated
<1> QED BY StudioInitInv, StudioInvStep, <1>1, PTL DEF StudioSpec

-----------------------------------------------------------------------------
(* TokenTargets, what is on main.                                          *)

\* What is on main passed the gate, and no other version or export can be there.
DriftInv ==
  /\ releases \in Nat /\ releases <= MaxReleases
  /\ work.inputs \in Exports /\ work.version \in 1 .. releases + 1
  /\ proposed # NoSnapshot => proposed.inputs \in Exports /\ proposed.version \in 1 .. releases + 1
  /\ onMain.inputs \in Exports \ {Refused} /\ onMain.version \in 1 .. releases + 1 /\ Stale(onMain) = {}

LEMMA TheTargets ==
  Target = {"theme-inputs.ts", "tokens.css", "tokens.json", "Tokens.g.cs"}
<1>1. DOMAIN Order = {1, 2, 3, 4}
      BY DEF Order
<1> QED BY <1>1 DEF Target, Order

LEMMA TextOfTargets ==
  ASSUME NEW inputs, NEW version
  PROVE  /\ TargetsOf(inputs, version)["theme-inputs.ts"] = Emit(inputs)
         /\ TargetsOf(inputs, version)["tokens.css"] = EmitCss(inputs)
         /\ TargetsOf(inputs, version)["tokens.json"] = EmitJson(inputs, version)
         /\ TargetsOf(inputs, version)["Tokens.g.cs"] = EmitCSharp(inputs, version)
  BY TheTargets DEF TargetsOf

LEMMA DriftInitInv == TargetsInit => DriftInv
<1> SUFFICES ASSUME TargetsInit PROVE DriftInv
    OBVIOUS
<1>1. Stale(FirstTree) = {}
      BY DEF Stale, FirstTree
<1> HIDE DEF Stale
<1> QED BY <1>1, TargetsAssumption DEF TargetsInit, DriftInv, FirstTree

LEMMA DriftStep == TargetsInv /\ DriftInv /\ [TargetsNext]_targetVars => DriftInv'
<1> SUFFICES ASSUME TargetsInv, DriftInv, [TargetsNext]_targetVars PROVE DriftInv'
    OBVIOUS
<1>0. IsTree(work)
      BY DEF TargetsInv
<1> USE DEF DriftInv
<1>1. ASSUME NEW inputs \in Exports, SyncExport(inputs) PROVE DriftInv'
      BY <1>0, <1>1, TargetsAssumption DEF SyncExport, IsTree, Stale
<1>2. ASSUME NEW inputs \in Exports, EditExport(inputs) PROVE DriftInv'
      BY <1>0, <1>2 DEF EditExport, IsTree, Stale
<1>3. ASSUME NEW t \in Target, NEW content \in {Absent, Edited}, EditTarget(t, content) PROVE DriftInv'
      BY <1>0, <1>3 DEF EditTarget, IsTree, Stale
<1>4. CASE BuildTargets \/ WriteTarget \/ Interrupt
      BY <1>0, <1>4 DEF BuildTargets, WriteTarget, Interrupt, IsTree, Stale
<1>5. CASE Propose
      BY <1>0, <1>5 DEF Propose, Stale
<1>6. CASE Gate
  <2>1. CASE Check(proposed) # 0
        BY <1>6, <2>1 DEF Gate, Stale
  <2>2. CASE Check(proposed) = 0
    <3>1. Stale(proposed) = {} /\ proposed.inputs # Refused
          BY <2>2 DEF Check
    <3>2. onMain' = proposed /\ proposed # NoSnapshot /\ proposed' = NoSnapshot /\ UNCHANGED <<work, releases>>
          BY <1>6, <2>2 DEF Gate
    <3> QED BY <3>1, <3>2 DEF Stale
  <2> QED BY <2>1, <2>2
<1>7. CASE Deploy \/ Get
      BY <1>7 DEF Deploy, Get, Stale
<1>8. CASE UNCHANGED targetVars
      BY <1>8 DEF targetVars, Stale
<1> QED BY <1>1, <1>2, <1>3, <1>4, <1>5, <1>6, <1>7, <1>8 DEF TargetsNext

\* theme-inputs.ts spells the whole of its export.
LEMMA EmittedIsWhole ==
  ASSUME NEW inputs \in Exports \ {Refused}, NEW m \in ThemeMode
  PROVE  TokensFor(FlattenTheme(Emit(inputs)), m) = TokensFor(FlattenTheme(inputs), m)
<1>1. Emit(inputs).shared = inputs.shared /\ Emit(inputs).components = inputs.components
      BY ExportsAssumption DEF Emit
<1>2. \A n \in ThemeMode : Emit(inputs).palettes[n] = inputs.palettes[n]
      BY ExportsAssumption DEF Emit
<1>3. FlattenTheme(Emit(inputs)).shared = FlattenTheme(inputs).shared
      BY <1>1 DEF FlattenTheme
<1>4. FlattenTheme(Emit(inputs)).modes[m] = FlattenTheme(inputs).modes[m]
      BY <1>1, <1>2 DEF FlattenTheme
<1> QED BY <1>3, <1>4 DEF TokensFor

LEMMA CssOfTokens ==
  ASSUME NEW inputs \in Exports \ {Refused}, NEW m \in ThemeMode
  PROVE  LET tokens == TokensFor(FlattenTheme(inputs), m)
         IN  /\ DOMAIN EmitCss(inputs)[m] = {CustomProperty[p] : p \in DOMAIN tokens}
             /\ \A p \in DOMAIN tokens : EmitCss(inputs)[m][CustomProperty[p]] = CssValue(p, tokens[p])
<1> DEFINE tokens == TokensFor(FlattenTheme(inputs), m)
<1>1. DOMAIN tokens \subseteq FlatPaths
      BY ExportsAssumption
<1>2. EmitCss(inputs)[m] =
        [name \in {CustomProperty[p] : p \in DOMAIN tokens} |-> CssValue(PathOf[name], tokens[PathOf[name]])]
      BY DEF EmitCss, CssVariables
<1> HIDE DEF tokens
<1>3. ASSUME NEW p \in DOMAIN tokens PROVE EmitCss(inputs)[m][CustomProperty[p]] = CssValue(p, tokens[p])
      BY <1>1, <1>2, PropertyLeadsBack
<1>4. DOMAIN EmitCss(inputs)[m] = {CustomProperty[p] : p \in DOMAIN tokens}
      BY <1>2
<1> QED BY <1>3, <1>4 DEF tokens

\* build-tokens.ts L3-4: with any number of builds, interrupted or not, hand
\* edits, syncs and pull requests, the four files on main are of one export.
THEOREM MainIsOfOneExport == TargetsSpec => []MainHasNoDrift
<1>1. DriftInv => MainHasNoDrift
  <2> SUFFICES ASSUME DriftInv PROVE MainHasNoDrift
      OBVIOUS
  <2> DEFINE made == onMain.files
             inputs == onMain.inputs
             version == onMain.version
  <2>1. inputs \in Exports \ {Refused} /\ version \in 1 .. MaxReleases + 1
        BY TargetsAssumption DEF DriftInv
  <2>2. \A t \in Target : made[t] = TargetsOf(inputs, version)[t]
        BY DEF DriftInv, Stale
  <2>3. \A t \in Target : made[t] \notin {Absent, Edited}
        BY <2>1, <2>2, ExportsAssumption
  <2>4. /\ made["theme-inputs.ts"] = Emit(inputs) /\ made["tokens.css"] = EmitCss(inputs)
        /\ made["tokens.json"] = EmitJson(inputs, version)
        /\ made["Tokens.g.cs"] = EmitCSharp(inputs, version)
        BY <2>2, TheTargets, TextOfTargets
  <2>5. {made["tokens.json"].version, made["Tokens.g.cs"].version} = {version}
        BY <2>4 DEF EmitJson, EmitCSharp
  <2>6. ASSUME NEW m \in ThemeMode
        PROVE  LET tokens == TokensFor(FlattenTheme(inputs), m)
                   ts == TokensFor(FlattenTheme(made["theme-inputs.ts"]), m)
               IN  /\ ts = tokens
                   /\ DOMAIN made["tokens.css"][m] = {CustomProperty[p] : p \in DOMAIN tokens}
                   /\ DOMAIN made["tokens.json"].tokens[m] = DOMAIN tokens
                   /\ DOMAIN made["Tokens.g.cs"].sets[m] = DOMAIN tokens
                   /\ \A p \in DOMAIN tokens :
                        /\ made["tokens.json"].tokens[m][p] = tokens[p]
                        /\ made["Tokens.g.cs"].sets[m][p] = Quoted(tokens[p])
                        /\ made["tokens.css"][m][CustomProperty[p]] = CssValue(p, tokens[p])
    <3> DEFINE tokens == TokensFor(FlattenTheme(inputs), m)
    <3>1. TokensFor(FlattenTheme(made["theme-inputs.ts"]), m) = tokens
          BY <2>1, <2>4, EmittedIsWhole
    <3>2. made["tokens.json"].tokens[m] = tokens
          BY <2>4 DEF EmitJson
    <3>3. made["Tokens.g.cs"].sets[m] = [p \in DOMAIN tokens |-> Quoted(tokens[p])]
          BY <2>4 DEF EmitCSharp
    <3>4. /\ DOMAIN made["tokens.css"][m] = {CustomProperty[p] : p \in DOMAIN tokens}
          /\ \A p \in DOMAIN tokens : made["tokens.css"][m][CustomProperty[p]] = CssValue(p, tokens[p])
          BY <2>1, <2>4, CssOfTokens
    <3> HIDE DEF tokens
    <3>5. \A p \in DOMAIN tokens : made["Tokens.g.cs"].sets[m][p] = Quoted(tokens[p])
          BY <3>3
    <3>6. DOMAIN made["Tokens.g.cs"].sets[m] = DOMAIN tokens
          BY <3>3
    <3> QED BY <3>1, <3>2, <3>4, <3>5, <3>6 DEF tokens
  <2>7. Absent \notin {made[t] : t \in Target} /\ Edited \notin {made[t] : t \in Target}
        BY <2>3
  <2> QED BY <2>5, <2>6, <2>7 DEF MainHasNoDrift
<1> QED BY TargetsInitInv, TargetsInvStep, DriftInitInv, DriftStep, <1>1, PTL DEF TargetsSpec

-----------------------------------------------------------------------------
(* ImportAttribution and TokenUsage, for any modules and any import        *)
(* graphs, cyclic ones included: the work list computes reachability, and  *)
(* what a source reads through its names is listed under every component   *)
(* that answers for it, whatever the scans find.                           *)

\* Seen or still to be seen.
Found == seen \union Elements(queue)

\* While a module is attributed: nothing is found that is not above it, and
\* what was seen and is no component has its importers found.
AttributionInv ==
  module # Nobody =>
    /\ module \in Found /\ Found \subseteq Above(module)
    /\ \A m \in seen \ Terminals : Importers(m) \subseteq Found
    /\ reached = seen \intersect Terminals

UsageInv == WalkTypeOK /\ AttributionInv /\ AttributionIsReachability

-----------------------------------------------------------------------------
(* Lists.                                                                  *)

\* Appending a list adds its elements.
LEMMA ElementsOfConcat ==
  ASSUME NEW s \in Seq(Module), NEW t \in Seq(Module)
  PROVE  s \o t \in Seq(Module) /\ Elements(s \o t) = Elements(s) \union Elements(t)
<1>1. s \o t \in Seq(Module) /\ Len(s \o t) = Len(s) + Len(t)
      OBVIOUS
<1>2. ASSUME NEW x \in Elements(s \o t) PROVE x \in Elements(s) \union Elements(t)
  <2>1. PICK i \in 1 .. Len(s) + Len(t) : x = (s \o t)[i]
        BY <1>1, <1>2 DEF Elements
  <2>2. CASE i <= Len(s)
        BY <2>1, <2>2 DEF Elements
  <2>3. CASE i > Len(s)
    <3>1. i - Len(s) \in 1 .. Len(t) /\ (s \o t)[i] = t[i - Len(s)]
          BY <2>1, <2>3
    <3> QED BY <2>1, <3>1 DEF Elements
  <2> QED BY <2>1, <2>2, <2>3
<1>3. ASSUME NEW x \in Elements(s) PROVE x \in Elements(s \o t)
  <2>1. PICK i \in 1 .. Len(s) : x = s[i]
        BY <1>3 DEF Elements
  <2>2. i \in 1 .. Len(s \o t) /\ (s \o t)[i] = s[i]
        BY <1>1, <2>1
  <2> QED BY <1>1, <2>1, <2>2 DEF Elements
<1>4. ASSUME NEW x \in Elements(t) PROVE x \in Elements(s \o t)
  <2>1. PICK i \in 1 .. Len(t) : x = t[i]
        BY <1>4 DEF Elements
  <2>2. i + Len(s) \in 1 .. Len(s \o t) /\ (s \o t)[i + Len(s)] = t[i]
        BY <1>1, <2>1
  <2> QED BY <1>1, <2>1, <2>2 DEF Elements
<1> QED BY <1>1, <1>2, <1>3, <1>4

\* Taking the head leaves the other elements.
LEMMA ElementsOfTail ==
  ASSUME NEW s \in Seq(Module), s # <<>>
  PROVE  /\ Head(s) \in Module /\ Tail(s) \in Seq(Module)
         /\ Elements(s) = {Head(s)} \union Elements(Tail(s))
<1>1. /\ Head(s) = s[1] /\ Head(s) \in Module /\ Tail(s) \in Seq(Module) /\ Len(s) \in Nat \ {0}
      /\ Len(Tail(s)) = Len(s) - 1 /\ \A i \in 1 .. Len(s) - 1 : Tail(s)[i] = s[i + 1]
      OBVIOUS
<1>2. ASSUME NEW x \in Elements(s) PROVE x \in {Head(s)} \union Elements(Tail(s))
  <2>1. PICK i \in 1 .. Len(s) : x = s[i]
        BY <1>2 DEF Elements
  <2>2. CASE i > 1
    <3>1. i - 1 \in 1 .. Len(Tail(s)) /\ Tail(s)[i - 1] = s[i]
          BY <1>1, <2>1, <2>2
    <3>2. DOMAIN Tail(s) = 1 .. Len(Tail(s))
          BY <1>1
    <3>3. Tail(s)[i - 1] \in Elements(Tail(s))
          BY <3>1, <3>2 DEF Elements
    <3> QED BY <2>1, <3>1, <3>3
  <2> QED BY <1>1, <2>1, <2>2
<1>3. ASSUME NEW x \in Elements(Tail(s)) PROVE x \in Elements(s)
  <2>1. PICK i \in 1 .. Len(s) - 1 : x = Tail(s)[i]
        BY <1>1, <1>3 DEF Elements
  <2> QED BY <1>1, <2>1 DEF Elements
<1>4. Head(s) \in Elements(s)
      BY <1>1 DEF Elements
<1> QED BY <1>1, <1>2, <1>3, <1>4

\* The importers of a module, listed, are a list of modules.
LEMMA ListsOfImporters ==
  ASSUME WalkTypeOK, NEW m, NEW more \in Lists(Importers(m))
  PROVE  more \in Seq(Module) /\ Elements(more) = Importers(m)
<1>1. Importers(m) \subseteq Module
      BY GraphsAssumption DEF WalkTypeOK, Importers, Files
<1>2. Cardinality(Importers(m)) \in Nat
      BY <1>1, GraphsAssumption, FS_Subset, FS_CardinalityType
<1> QED BY <1>1, <1>2 DEF Lists

-----------------------------------------------------------------------------
(* Above is the smallest closed set.                                       *)

LEMMA AboveIsClosed ==
  ASSUME WalkTypeOK, NEW f \in Module, NEW m \in Above(f) \ Terminals
  PROVE  Importers(m) \subseteq Above(f)
<1>1. Importers(m) \subseteq Module
      BY GraphsAssumption DEF WalkTypeOK, Importers, Files
<1> QED BY <1>1 DEF Above, Closed

LEMMA AboveIsLeast ==
  ASSUME NEW f \in Module, NEW S \in SUBSET Module, f \in S, Closed(S)
  PROVE  f \in Above(f) /\ Above(f) \subseteq S
BY DEF Above

\* What is above a module depends on the import graph alone.
LEMMA OwnersStay ==
  ASSUME imports' = imports
  PROVE  /\ \A m : Importers(m)' = Importers(m)
         /\ \A f : Above(f)' = Above(f)
         /\ \A f : Owners(f)' = Owners(f)
BY DEF Owners, Above, Closed, Importers, Files

-----------------------------------------------------------------------------

LEMMA WalkInitInv == WalkInit => UsageInv
BY DEF WalkInit, UsageInv, WalkTypeOK, AttributionInv, AttributionIsReachability

\* The types survive every step.
LEMMA WalkTypeStep == WalkTypeOK /\ AttributionInv /\ [WalkNext]_walkVars => WalkTypeOK'
<1> SUFFICES ASSUME WalkTypeOK, AttributionInv, [WalkNext]_walkVars PROVE WalkTypeOK'
    OBVIOUS
<1>1. ASSUME NEW f \in Files, Ask(f) PROVE WalkTypeOK'
  <2>1. f \in Module
        BY GraphsAssumption DEF WalkTypeOK, Files
  <2>2. <<f>> \in Seq(Module)
        BY <2>1
  <2> QED BY <1>1, <2>1, <2>2, GraphsAssumption DEF Ask, WalkTypeOK, Files
<1>2. CASE Skip
  <2>1. Tail(queue) \in Seq(Module)
        BY <1>2, ElementsOfTail DEF Skip, WalkTypeOK
  <2> QED BY <1>2, <2>1 DEF Skip, WalkTypeOK, Files
<1>3. CASE Stop
  <2>1. Tail(queue) \in Seq(Module) /\ Head(queue) \in Module
        BY <1>3, ElementsOfTail DEF Stop, WalkTypeOK
  <2> QED BY <1>3, <2>1 DEF Stop, WalkTypeOK, Files
<1>4. CASE Climb
  <2>1. Tail(queue) \in Seq(Module) /\ Head(queue) \in Module
        BY <1>4, ElementsOfTail DEF Climb, WalkTypeOK
  <2>2. queue' \in Seq(Module)
        BY <1>4, <2>1, ListsOfImporters, ElementsOfConcat DEF Climb
  <2> QED BY <1>4, <2>1, <2>2 DEF Climb, WalkTypeOK, Files
<1>5. CASE Answer
      BY <1>5 DEF Answer, WalkTypeOK, Files
<1>6. CASE UNCHANGED walkVars
      BY <1>6 DEF walkVars, WalkTypeOK, Files
<1> QED BY <1>1, <1>2, <1>3, <1>4, <1>5, <1>6 DEF WalkNext

\* What was found stays true of the walk.
LEMMA AttributionStep == WalkTypeOK /\ AttributionInv /\ [WalkNext]_walkVars => AttributionInv'
<1> SUFFICES ASSUME WalkTypeOK, AttributionInv, [WalkNext]_walkVars PROVE AttributionInv'
    OBVIOUS
<1>1. ASSUME NEW f \in Files, Ask(f) PROVE AttributionInv'
  <2>1. f \in Module
        BY GraphsAssumption DEF WalkTypeOK, Files
  <2>2. f \in Above(f)
        BY <2>1 DEF Above
  <2>3. Elements(<<f>>) = {f}
        BY DEF Elements
  <2> QED BY <1>1, <2>2, <2>3, OwnersStay DEF Ask, AttributionInv, Found, Elements
<1>2. CASE Skip
  <2>1. Found' = Found
        BY <1>2, ElementsOfTail DEF Skip, WalkTypeOK, Found, Elements
  <2> QED BY <1>2, <2>1, OwnersStay DEF Skip, AttributionInv
<1>3. CASE Stop
  <2>0. Elements(queue) = {Head(queue)} \union Elements(Tail(queue))
        BY <1>3, ElementsOfTail DEF Stop, WalkTypeOK
  <2>1. Found' = Found
        BY <1>3, <2>0 DEF Stop, Found, Elements
  <2> QED BY <1>3, <2>1, OwnersStay DEF Stop, AttributionInv
<1>4. CASE Climb
  <2> DEFINE m == Head(queue)
  <2>1. /\ Tail(queue) \in Seq(Module) /\ m \in Module
        /\ Elements(queue) = {m} \union Elements(Tail(queue))
        BY <1>4, ElementsOfTail DEF Climb, WalkTypeOK
  <2>2. PICK more \in Lists(Importers(m)) : queue' = Tail(queue) \o more
        BY <1>4 DEF Climb
  <2>3. more \in Seq(Module) /\ Elements(more) = Importers(m)
        BY <2>2, ListsOfImporters
  <2>4. Elements(Tail(queue) \o more) = Elements(Tail(queue)) \union Importers(m)
        BY <2>1, <2>3, ElementsOfConcat
  <2>a. Found' = seen' \union Elements(queue')
        BY DEF Found, Elements
  <2>b. Found' = Found \union Importers(m)
        BY <1>4, <2>1, <2>2, <2>4, <2>a DEF Climb, Found
  <2>5. module # Nobody => Importers(m) \subseteq Above(module)
    <3> SUFFICES ASSUME module # Nobody PROVE Importers(m) \subseteq Above(module)
        OBVIOUS
    <3>1. module \in Module
          BY GraphsAssumption DEF WalkTypeOK, Files
    <3>2. m \in Above(module) \ Terminals
          BY <1>4, <2>1 DEF Climb, AttributionInv, Found
    <3> QED BY <3>1, <3>2, AboveIsClosed
  <2> QED BY <1>4, <2>b, <2>5, OwnersStay DEF Climb, AttributionInv
<1>5. CASE Answer
      BY <1>5 DEF Answer, AttributionInv
<1>6. CASE UNCHANGED walkVars
      BY <1>6, OwnersStay DEF walkVars, AttributionInv, Found, Elements
<1> QED BY <1>1, <1>2, <1>3, <1>4, <1>5, <1>6 DEF WalkNext

\* When the work list is empty, what was seen is closed, and so all there is.
LEMMA AnswerIsReachability ==
  ASSUME WalkTypeOK, AttributionInv, module # Nobody, queue = <<>>
  PROVE  (IF reached # {} THEN reached ELSE {module}) = Owners(module)
<1>1. module \in Module /\ seen \in SUBSET Module
      BY GraphsAssumption DEF WalkTypeOK, Files
<1>2. Elements(queue) = {}
      BY DEF Elements
<1>3. module \in seen /\ Closed(seen) /\ seen \subseteq Above(module)
      BY <1>2 DEF AttributionInv, Found, Closed
<1>4. seen = Above(module)
      BY <1>1, <1>3, AboveIsLeast
<1> QED BY <1>4 DEF AttributionInv, Owners

LEMMA ReachabilityStep == UsageInv /\ [WalkNext]_walkVars => AttributionIsReachability'
<1> SUFFICES ASSUME UsageInv, [WalkNext]_walkVars PROVE AttributionIsReachability'
    OBVIOUS
<1> USE DEF UsageInv
<1>1. imports' = imports
      BY DEF WalkNext, Ask, Skip, Stop, Climb, Answer, walkVars
<1>2. CASE Answer
      BY <1>1, <1>2, OwnersStay, AnswerIsReachability DEF Answer, AttributionIsReachability
<1>3. CASE attributed' = attributed
      BY <1>1, <1>3, OwnersStay DEF AttributionIsReachability
<1> QED BY <1>2, <1>3 DEF WalkNext, Ask, Skip, Stop, Climb, walkVars

LEMMA WalkInvHolds == WalkSpec => []UsageInv
<1>1. UsageInv /\ [WalkNext]_walkVars => UsageInv'
      BY WalkTypeStep, AttributionStep, ReachabilityStep DEF UsageInv
<1> QED BY WalkInitInv, <1>1, PTL DEF WalkSpec

\* importGraph.ts L43-63: for every import graph, whatever its cycles, and any
\* order in which importers are listed, the types hold ...
THEOREM WalkTypesHold == WalkSpec => []WalkTypeOK
BY WalkInvHolds, PTL DEF UsageInv

\* ... and every answer is the set of the components from which the module is
\* reached through modules that are none, or the module itself.
THEOREM AttributionIsRight == WalkSpec => []AttributionIsReachability
BY WalkInvHolds, PTL DEF UsageInv

-----------------------------------------------------------------------------
(* What the scans find.                                                    *)

LEMMA BoundIs ==
  ASSUME NEW source, NEW found, NEW b \in source.bindings, NEW r \in found, b.of = r.alias
  PROVE  [alias |-> b.alias, prefix |-> Joined(Joined(r.prefix, b.path), <<b.group>>)] \in Bound(source, found)
<1> DEFINE of(g) == {[alias |-> c.alias, prefix |-> Joined(Joined(g.prefix, c.path), <<c.group>>)]
                       : c \in {d \in source.bindings : d.of = g.alias}}
<1>1. [alias |-> b.alias, prefix |-> Joined(Joined(r.prefix, b.path), <<b.group>>)] \in of(r)
      OBVIOUS
<1>2. Bound(source, found) = UNION {of(g) : g \in found}
      BY DEF Bound
<1> HIDE DEF of
<1> QED BY <1>1, <1>2

\* A binding that is followed is taken for what it means.
LEMMA FollowedIsMeant ==
  ASSUME NEW source, NEW found, NEW b \in source.bindings, NEW r \in found, b.of = r.alias,
         b.path \in Seq(STRING), b.group \in STRING, r.prefix \in Seq(STRING), Followed(r.prefix, b)
  PROVE  [alias |-> b.alias, prefix |-> Meant(r.prefix, b)] \in Bound(source, found)
<1>1. Joined(Joined(r.prefix, b.path), <<b.group>>) = Meant(r.prefix, b)
  <2> DEFINE key == <<b.group>>
  <2>1. /\ key \in Seq(STRING) /\ key # <<>>
        /\ \A path \in Seq(STRING) : <<>> \o path = path
        OBVIOUS
  <2>2. CASE r.prefix = <<>>
        BY <2>1, <2>2 DEF Joined, Meant
  <2>3. CASE r.prefix # <<>>
    <3>1. b.path # <<>>
          BY <2>3 DEF Followed
    <3>2. r.prefix \o b.path # <<>>
      <4>1. Len(r.prefix \o b.path) = Len(r.prefix) + Len(b.path) /\ Len(b.path) > 0 /\ Len(r.prefix) > 0
            BY <2>3, <3>1
      <4> QED BY <4>1
    <3> QED BY <2>1, <2>3, <3>1, <3>2 DEF Joined, Meant
  <2> QED BY <2>2, <2>3
<1> QED BY <1>1, BoundIs

\* A name that stands for a token path through two bindings at most is found.
LEMMA MeaningsAreFound ==
  ASSUME NEW f \in Module, NEW alias, NEW prefix \in Meanings(Sources[f], alias)
  PROVE  \E group \in AliasesIn(Sources[f]) : group.alias = alias /\ group.prefix = prefix
<1> DEFINE source == Sources[f]
           given == Roots \union source.typed
           once == given \union Bound(source, given)
           link(g, b) == [alias |-> b.alias, prefix |-> Meant(g.prefix, b)]
<1>1. AliasesIn(source) = once \union Bound(source, once)
      BY DEF AliasesIn
<1>2. \/ \E g \in given : g.alias = alias /\ prefix = g.prefix
      \/ \E g \in given, b \in source.bindings :
           b.of = g.alias /\ b.alias = alias /\ Followed(g.prefix, b) /\ prefix = Meant(g.prefix, b)
      \/ \E g \in given, b \in source.bindings, c \in source.bindings :
           /\ b.of = g.alias /\ c.of = b.alias /\ c.alias = alias
           /\ Followed(g.prefix, b) /\ Followed(Meant(g.prefix, b), c)
           /\ prefix = Meant(Meant(g.prefix, b), c)
      BY DEF Meanings
<1>3. /\ \A g \in given : g.prefix \in Seq(STRING)
      /\ \A b \in source.bindings : b.path \in Seq(STRING) /\ b.group \in STRING
  <2>1. \A g \in Roots : g.prefix = <<>>
        BY DEF Roots
  <2>2. <<>> \in Seq(STRING)
        OBVIOUS
  <2>3. \A g \in given : g.prefix \in Seq(STRING)
        BY <2>1, <2>2, UsageAssumption
  <2>4. \A b \in source.bindings : b.path \in Seq(STRING) /\ b.group \in STRING
        BY UsageAssumption
  <2> QED BY <2>3, <2>4
<1> HIDE DEF given, source
<1>4. \A g \in given, b \in source.bindings : Meant(g.prefix, b) \in Seq(STRING)
      BY <1>3 DEF Meant
<1>5. \A g \in given, b \in source.bindings : b.of = g.alias /\ Followed(g.prefix, b) => link(g, b) \in once
      BY <1>3, FollowedIsMeant
<1>6. ASSUME NEW g \in given, NEW b \in source.bindings, NEW c \in source.bindings,
             b.of = g.alias, c.of = b.alias, Followed(g.prefix, b), Followed(Meant(g.prefix, b), c)
      PROVE  [alias |-> c.alias, prefix |-> Meant(Meant(g.prefix, b), c)] \in AliasesIn(source)
  <2>1. link(g, b) \in once /\ c.of = link(g, b).alias
        BY <1>5, <1>6
  <2>2. link(g, b).prefix = Meant(g.prefix, b)
        OBVIOUS
  <2> HIDE DEF once, link
  <2>3. [alias |-> c.alias, prefix |-> Meant(link(g, b).prefix, c)] \in Bound(source, once)
        BY <1>3, <1>4, <1>6, <2>1, <2>2, FollowedIsMeant
  <2> QED BY <1>1, <2>2, <2>3
<1> HIDE DEF once
<1>7. given \subseteq once /\ once \subseteq AliasesIn(source)
      BY <1>1 DEF once
<1>8. \E group \in AliasesIn(source) : group.alias = alias /\ group.prefix = prefix
      BY <1>2, <1>5, <1>6, <1>7
<1> QED BY <1>8 DEF source

LEMMA ReadsAreReferences ==
  ASSUME NEW f \in Module, NEW read \in Sources[f].reads, NEW prefix \in Meanings(Sources[f], read.alias)
  PROVE  KnownPathsOf(Joined(prefix, read.path)) \subseteq TokenPathsIn(Sources[f])
<1>1. PICK group \in AliasesIn(Sources[f]) : group.alias = read.alias /\ group.prefix = prefix
      BY MeaningsAreFound
<1>2. Joined(group.prefix, read.path) \in ReferencesOf(Sources[f], group)
      BY <1>1 DEF ReferencesOf
<1> QED BY <1>1, <1>2 DEF TokenPathsIn

LEMMA LeavesAreReferences ==
  ASSUME NEW f \in Module, NEW b \in Sources[f].bindings, NEW path \in Meanings(Sources[f], b.alias) \cap TokenPaths
  PROVE  KnownPathsOf(path) \subseteq TokenPathsIn(Sources[f])
<1>1. PICK group \in AliasesIn(Sources[f]) : group.alias = b.alias /\ group.prefix = path
      BY MeaningsAreFound
<1>2. path \in ReferencesOf(Sources[f], group)
      BY <1>1 DEF ReferencesOf
<1> QED BY <1>1, <1>2 DEF TokenPathsIn

\* Only tokens are listed, and only under somebody.
LEMMA UsageIsOfTokens ==
  ASSUME UsageInv, DOMAIN attributed = Files
  PROVE  \A use \in Usage : use[1] \in TokenPaths /\ use[2] # NoComponent
<1>1. Files \subseteq Module
      BY GraphsAssumption DEF UsageInv, WalkTypeOK, Files
<1>2. ASSUME NEW use \in ImportUsage PROVE use[1] \in TokenPaths /\ use[2] # NoComponent
  <2>1. PICK f \in Files : use \in TokenPathsIn(Sources[f]) \X attributed[f]
        BY <1>2 DEF ImportUsage
  <2>2. TokenPathsIn(Sources[f]) \subseteq TokenPaths
        BY DEF TokenPathsIn, KnownPathsOf
  <2>3. attributed[f] \subseteq Module
        BY <1>1, <2>1 DEF UsageInv, AttributionIsReachability, Owners, Above
  <2> QED BY <2>1, <2>2, <2>3, UsageAssumption
<1>3. ASSUME NEW use \in CssUsage PROVE use[1] \in TokenPaths /\ use[2] # NoComponent
      BY <1>3 DEF CssUsage
<1>4. ASSUME NEW use \in TsUsage PROVE use[1] \in TokenPaths /\ use[2] # NoComponent
      BY <1>1, <1>4, UsageAssumption DEF TsUsage, ComponentOf
<1> QED BY <1>2, <1>3, <1>4 DEF Usage

\* build.ts L26-49, scan.ts L65-104: whatever imports what, a token that a
\* source reads through at most two bindings is listed under every component
\* that answers for the source, but for a binding made from a name of a group
\* with no path behind it, which joined (L43) loses.
THEOREM ReadTokensAreKept == WalkSpec => []NoReadTokenIsLost
<1>1. UsageInv => NoReadTokenIsLost
  <2> SUFFICES ASSUME UsageInv, Built PROVE NoReadTokenIsLost
      BY DEF NoReadTokenIsLost
  <2>1. DOMAIN attributed = Files
        BY DEF Built
  <2>2. ASSUME NEW f \in Files, NEW paths, paths \subseteq TokenPathsIn(Sources[f])
        PROVE  paths \X Owners(f) \subseteq Usage
    <3>1. attributed[f] = Owners(f)
          BY <2>1 DEF UsageInv, AttributionIsReachability
    <3>2. paths \X Owners(f) \subseteq TokenPathsIn(Sources[f]) \X attributed[f]
          BY <2>2, <3>1
    <3>3. TokenPathsIn(Sources[f]) \X attributed[f] \subseteq ImportUsage
          BY DEF ImportUsage
    <3> QED BY <3>2, <3>3 DEF Usage
  <2>3. Files \subseteq Module
        BY GraphsAssumption DEF UsageInv, WalkTypeOK, Files
  <2>4. ASSUME NEW f \in Files, NEW read \in Sources[f].reads, NEW prefix \in Meanings(Sources[f], read.alias)
        PROVE  KnownPathsOf(Joined(prefix, read.path)) \X Owners(f) \subseteq Usage
        BY <2>2, <2>3, ReadsAreReferences
  <2>5. ASSUME NEW f \in Files, NEW b \in Sources[f].bindings,
               NEW path \in Meanings(Sources[f], b.alias) \cap TokenPaths
        PROVE  KnownPathsOf(path) \X Owners(f) \subseteq Usage
        BY <2>2, <2>3, LeavesAreReferences
  <2> QED BY <2>1, <2>4, <2>5, UsageIsOfTokens DEF NoReadTokenIsLost
<1> QED BY <1>1, WalkInvHolds, PTL

-----------------------------------------------------------------------------
(* MCWeb, the sum of the parts.                                            *)

\* A part keeps its invariant while it is the one that moves.
WebInv ==
  /\ part \in {"theme", "figma", "usage", "page", "targets", "studio", "provider"}
  /\ part = "theme" => ThemeInv /\ ThemeTypeOK
  /\ part = "usage" => UsageInv
  /\ part = "studio" => StudioInv /\ StudioTypeInv
  /\ part = "provider" => ProviderInv

LEMMA WebInitInv == WebInit => WebInv
BY ThemeStarts, ThemeTypeInit, WalkInitInv, StudioInitInv, StudioTypeInit, ProviderInitInv DEF WebInit, WebInv

LEMMA WebInvStep == WebInv /\ [WebNext]_vars => WebInv'
<1> SUFFICES ASSUME WebInv, [WebNext]_vars PROVE WebInv'
    OBVIOUS
<1>1. part' = part
      BY DEF WebNext, ThemeStep, FigmaStep, WalkStep, PageStep, TargetsStep, StudioStep, OfProvider, vars
<1>2. CASE part = "theme"
  <2>1. [ThemeNext]_themeVars
        BY <1>2 DEF WebNext, ThemeStep, FigmaStep, WalkStep, PageStep, TargetsStep, StudioStep, OfProvider, vars
  <2>2. (ThemeInv /\ ThemeTypeOK)'
        BY <1>2, <2>1, ThemeInvIsInductive, ThemeTypeStep DEF WebInv
  <2> QED BY <1>1, <1>2, <2>2 DEF WebInv
<1>3. CASE part = "usage"
  <2>1. [WalkNext]_walkVars
        BY <1>3 DEF WebNext, ThemeStep, FigmaStep, WalkStep, PageStep, TargetsStep, StudioStep, OfProvider, vars
  <2>2. UsageInv'
        BY <1>3, <2>1, WalkTypeStep, AttributionStep, ReachabilityStep DEF WebInv, UsageInv
  <2> QED BY <1>1, <1>3, <2>2 DEF WebInv
<1>4. CASE part = "studio"
  <2>1. [StudioNext]_studioVars
        BY <1>4 DEF WebNext, ThemeStep, FigmaStep, WalkStep, PageStep, TargetsStep, StudioStep, OfProvider, vars
  <2>2. (StudioInv /\ StudioTypeInv)'
        BY <1>4, <2>1, StudioInvStep, StudioTypeStep DEF WebInv
  <2> QED BY <1>1, <1>4, <2>2 DEF WebInv
<1>5. CASE part = "provider"
  <2>1. [ProviderNext]_providerVars
        BY <1>5 DEF WebNext, ThemeStep, FigmaStep, WalkStep, PageStep, TargetsStep, StudioStep, OfProvider, vars
  <2>2. ProviderInv'
        BY <1>5, <2>1, ProviderTypeStep, LoadedStep DEF WebInv, ProviderInv
  <2> QED BY <1>1, <1>5, <2>2 DEF WebInv
<1>6. CASE part \notin {"theme", "usage", "studio", "provider"}
      BY <1>1, <1>6 DEF WebInv
<1> QED BY <1>2, <1>3, <1>4, <1>5, <1>6

\* The sum is in each of its states in one that the part it picked may be in.
THEOREM WebTypesHold == WebSpec => []WebTypeOK
<1>1. WebInv => WebTypeOK
      BY DEF WebInv, WebTypeOK, UsageInv, StudioTypeInv, ProviderInv
<1> QED BY WebInitInv, WebInvStep, <1>1, PTL DEF WebSpec

=============================================================================
