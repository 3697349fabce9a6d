---------------------------- MODULE I18nProvider -----------------------------
(***************************************************************************)
(* The React provider of @atlas/i18n: the locale of the page, the locales  *)
(* and the catalog it has loaded, and the requests under way for them.     *)
(* The browser answers requests in any order; an effect's request that a   *)
(* newer locale supersedes is marked stale, a reload's is not.             *)
(***************************************************************************)
EXTENDS Naturals

CONSTANTS
  Locale,       \* locales a page may ask for
  En,           \* fallbackEn.code
  Url,          \* API base URLs
  DefaultUrl,   \* defaultRuntimeConfig.apiBaseUrl
  Serving,      \* the URLs that the API answers at
  ConfigFiles,  \* what /config.json may be
  NoUrl, Pending, Failed,
  MaxSaves, MaxSwitches, MaxReloads  \* bounds

ASSUME ProviderAssumption ==
  /\ En \in Locale /\ DefaultUrl \in Url /\ Serving \subseteq Url
  /\ NoUrl \notin Url
  /\ MaxSwitches \in Nat /\ MaxReloads \in Nat
  /\ \A file \in ConfigFiles : file.form = "object" => file.apiBaseUrl \in Url \union {NoUrl}

\* A list of locales is their codes: the versions it carries are only shown.
VARIABLES
  apiBaseUrl,  \* the prop, NoUrl until the page has its configuration
  catalogs,    \* at the API: locale -> version, for the locales it serves
  locale,      \* of the page
  asked,       \* the locale the catalog effect ran for last
  locales, loaded,
  requests,    \* under way: [id, by, code, stale, list, catalog]
  switches, reloads, \* how many there were
  late,        \* a reload for another locale was applied since the effect ran
  failed       \* the effect's request was answered by nothing

providerVars ==
  <<apiBaseUrl, catalogs, locale, asked, locales, loaded, requests, switches, reloads, late, failed>>

\* parseRuntimeConfig, as far as the API's address; NoUrl stands for undefined.
ParseRuntimeConfig(file) == IF file.form = "object" THEN file.apiBaseUrl ELSE NoUrl

\* loadRuntimeConfig never throws: what is missing or malformed is the default.
LoadRuntimeConfig(file) ==
  IF file.form = "missing" \/ ParseRuntimeConfig(file) = NoUrl THEN DefaultUrl ELSE ParseRuntimeConfig(file)

OfflineLocales == {En}
OfflineCatalog == [of |-> En, source |-> "fallback", version |-> 0]

\* A reload is told by its number; superseded requests of the effect are alike.
\* What a request does not ask for counts as failed, and is not applied.
Request(by, code, list, catalog) ==
  [id |-> IF by = "reload" THEN reloads + 1 ELSE 0, by |-> by, code |-> code, stale |-> FALSE, list |-> list, catalog |-> catalog]

ProviderInit ==
  /\ apiBaseUrl = NoUrl
  /\ catalogs \in UNION {[served -> {1}] : served \in {S \in SUBSET Locale : En \in S}}
  /\ locale = En /\ asked = En
  /\ locales = OfflineLocales /\ loaded = OfflineCatalog
  /\ requests = {} /\ switches = 0 /\ reloads = 0
  /\ late = FALSE /\ failed = FALSE

\* The host renders the provider; both effects run.
Mount(file) ==
  /\ apiBaseUrl = NoUrl
  /\ apiBaseUrl' = LoadRuntimeConfig(file)
  /\ requests' = {Request("locales", En, Pending, Failed),
                  Request("effect", locale, Failed, Pending)}
  /\ asked' = locale
  /\ UNCHANGED <<catalogs, locale, locales, loaded, switches, reloads, late, failed>>

SetLocale(code) ==
  /\ apiBaseUrl # NoUrl /\ switches < MaxSwitches /\ code # locale
  /\ locale' = code /\ switches' = switches + 1
  /\ UNCHANGED <<apiBaseUrl, catalogs, asked, locales, loaded, requests, reloads, late, failed>>

Superseded == {[r EXCEPT !.stale = @ \/ r.by = "effect"] : r \in requests}

\* Mutant: the cleanup of the effect does nothing.
RunEffectNoCleanup ==
  /\ asked # locale
  /\ requests' = requests \union {Request("effect", locale, Failed, Pending)}
  /\ asked' = locale
  /\ late' = FALSE /\ failed' = FALSE
  /\ UNCHANGED <<apiBaseUrl, catalogs, locale, locales, loaded, switches, reloads>>

\* Mutant: what is loaded is not asked for again.
RunEffectUnlessLoaded ==
  /\ asked # locale /\ loaded.source = "fallback"
  /\ requests' = Superseded \union {Request("effect", locale, Failed, Pending)}
  /\ asked' = locale
  /\ late' = FALSE /\ failed' = FALSE
  /\ UNCHANGED <<apiBaseUrl, catalogs, locale, locales, loaded, switches, reloads>>

\* The catalog effect after a render with another locale: cleanup, then fetch.
RunEffect ==
  /\ asked # locale
  /\ requests' = Superseded \union {Request("effect", locale, Failed, Pending)}
  /\ asked' = locale
  /\ late' = FALSE /\ failed' = FALSE
  /\ UNCHANGED <<apiBaseUrl, catalogs, locale, locales, loaded, switches, reloads>>

\* reload keeps the locale of the render it was made in.
Reload ==
  /\ apiBaseUrl # NoUrl /\ reloads < MaxReloads
  /\ requests' = requests \union {Request("reload", locale, Pending, Pending)}
  /\ reloads' = reloads + 1
  /\ UNCHANGED <<apiBaseUrl, catalogs, locale, asked, locales, loaded, switches, late, failed>>

\* A translator saves a catalog at the API.
Save(code) ==
  /\ \A c \in DOMAIN catalogs : catalogs[c] <= MaxSaves
  /\ catalogs' = [catalogs EXCEPT ![code] = @ + 1]
  /\ UNCHANGED <<apiBaseUrl, locale, asked, locales, loaded, requests, switches, reloads, late, failed>>

\* fetchLocales and fetchCatalog give null for whatever goes wrong.
FetchLocales == {Failed} \union (IF apiBaseUrl \in Serving THEN {DOMAIN catalogs} ELSE {})
FetchCatalog(code) ==
  {Failed} \union (IF apiBaseUrl \in Serving /\ code \in DOMAIN catalogs THEN {catalogs[code]} ELSE {})

\* The two fetches of a reload are waited for together, and nothing that is
\* kept relates their answers: one step answers both.
AnswerRequest(r) ==
  /\ Pending \in {r.list, r.catalog}
  /\ \E list \in IF r.list = Pending THEN FetchLocales ELSE {r.list},
        catalog \in IF r.catalog = Pending THEN FetchCatalog(r.code) ELSE {r.catalog} :
       requests' = (requests \ {r}) \union {[r EXCEPT !.list = list, !.catalog = catalog]}
  /\ UNCHANGED <<apiBaseUrl, catalogs, locale, asked, locales, loaded, switches, reloads, late, failed>>

\* applyCatalog
ApplyCatalog(code, catalog) ==
  IF catalog # Failed THEN [of |-> code, source |-> "backend", version |-> catalog]
  ELSE IF code = En THEN OfflineCatalog ELSE loaded

Arrived(r) == r \in requests /\ r.list # Pending /\ r.catalog # Pending

SetLocales(list) == locales' = IF list # Failed THEN list ELSE locales

ApplyLocales(r) ==
  /\ Arrived(r) /\ r.by = "locales"
  /\ SetLocales(r.list)
  /\ requests' = requests \ {r}
  /\ UNCHANGED <<apiBaseUrl, catalogs, locale, asked, loaded, switches, reloads, late, failed>>

ApplyEffect(r) ==
  /\ Arrived(r) /\ r.by = "effect"
  /\ IF r.stale THEN UNCHANGED <<loaded, late, failed>>
     ELSE /\ loaded' = ApplyCatalog(r.code, r.catalog)
          /\ failed' = (r.catalog = Failed /\ r.code # En)
          /\ late' = (late /\ failed')
  /\ requests' = requests \ {r}
  /\ UNCHANGED <<apiBaseUrl, catalogs, locale, asked, locales, switches, reloads>>

\* Whether the locale has changed since is not looked at.
ApplyReload(r) ==
  /\ Arrived(r) /\ r.by = "reload"
  /\ SetLocales(r.list)
  /\ loaded' = ApplyCatalog(r.code, r.catalog)
  /\ late' = IF loaded' = loaded THEN late ELSE r.code # asked
  /\ failed' = (failed /\ (r.code # asked \/ r.catalog = Failed))
  /\ requests' = requests \ {r}
  /\ UNCHANGED <<apiBaseUrl, catalogs, locale, asked, switches, reloads>>

Answering == \E r \in requests : AnswerRequest(r)
Applying == \E r \in requests : ApplyLocales(r) \/ ApplyEffect(r) \/ ApplyReload(r)

ProviderNext ==
  \/ \E file \in ConfigFiles : Mount(file)
  \/ \E code \in Locale : SetLocale(code)
  \/ RunEffect \/ Reload
  \/ \E code \in DOMAIN catalogs : Save(code)
  \/ Answering \/ Applying

\* React runs its effects, and the browser settles the requests it was given.
Settling == RunEffect \/ Answering \/ Applying

ProviderSpec == ProviderInit /\ [][ProviderNext]_providerVars /\ WF_providerVars(Settling)

-----------------------------------------------------------------------------

ListAnswer == {Pending, Failed} \union SUBSET Locale
CatalogAnswer == {Pending, Failed} \union Nat
Requested ==
  [id : Nat, by : {"locales", "effect", "reload"}, code : Locale, stale : BOOLEAN,
   list : ListAnswer, catalog : CatalogAnswer]

ProviderTypeOK ==
  /\ apiBaseUrl \in Url \union {NoUrl}
  /\ DOMAIN catalogs \subseteq Locale /\ catalogs \in [DOMAIN catalogs -> Nat]
  /\ locale \in Locale /\ asked \in Locale /\ locales \subseteq Locale
  /\ loaded \in [of : Locale, source : {"backend", "fallback"}, version : Nat]
  /\ requests \subseteq Requested
  /\ switches \in 0 .. MaxSwitches /\ reloads \in 0 .. MaxReloads
  /\ late \in BOOLEAN /\ failed \in BOOLEAN

Quiet == apiBaseUrl # NoUrl /\ asked = locale /\ requests = {}

\* I18nProvider.tsx L46: "A response superseded by a newer locale change is
\* dropped."  Once nothing is under way, the texts on the page are those of
\* its locale, in whatever order the answers came, unless the API had none
\* (L34-38) or a reload that was begun in another locale was answered last
\* (L57-61 drops nothing).
ShownIsOfTheLocale == Quiet /\ ~ failed /\ ~ late => loaded.of = locale

\* Whatever is switched and reloaded, the page comes to rest in its locale.
PageComesToRest == <>(apiBaseUrl # NoUrl) => <>[]Quiet

=============================================================================
