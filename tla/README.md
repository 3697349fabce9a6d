# A verification of Atlas

Atlas is a small capital-markets demo: an ASP.NET Core API (`src/src`), a
React front end (`src/web`), design-token tooling, decks and infrastructure.
This project models its stateful core and the algorithms its releases depend
on in TLA+, checks them with TLC on small instances and proves what matters
most with TLAPS for every instance.

Paths below are relative to the repository; `I18nStore.cs` stands for
`src/Atlas.Api/I18nStore.cs`, and L206 for its line 206. Paths of the front end
are below `web/`: `figma-sync.ts`, `ledger.ts`, `diff.ts` and `variables.ts` are
in `packages/figma-sync`, `theme.ts`, `cascade.ts`, `flatten.ts` and
`build-tokens.ts` in `packages/design-tokens`, `I18nProvider.tsx` in
`packages/i18n`, `AtlasThemeProvider.tsx` and `AtlasTokenScope.tsx` in
`packages/core`, `importGraph.ts` and `scan.ts` in `build/token-usage`.

Contents: 1 the system; 2 the plan; 3 the models; 4 what the runs show; 5 what
is proved; 6 findings; 7 what is left out; 8 how to run it.

## 1. The system

| Part | State it keeps | Operations | Talks to | What is hard |
|---|---|---|---|---|
| **Translations store**: `I18nStore`, `I18nCatalog`, `I18nModels`, `I18nEndpoints` | a folder: `{code}.json`, `_history/{code}/N.json`, `_audit.jsonl`, `_config.json`; one semaphore per process | set, delete, rollback, save config; reads | every replica of the API mounts the same share (`infra/` sets up to 5); people edit the files; the i18n provider calls it over HTTP | several processes without a common lock, crashes and disk faults between four files, hand-made edits, cancelled requests |
| **Seeding**: `I18nSeed` | the same folder | copy the shipped catalogs at start | the store | two replicas starting at once; a crash half way |
| **figma-sync** | the committed export (a folder of token files), a ledger of releases with a digest | read, let five rules decide, write the export file by file, the ledger, the pull request; convert Figma's variables | Figma or the token studio, the pipelines, people who edit and restore files | a crash between two writes; a digest and a diff that see different things; an answer that comes after the files changed |
| **commands (TypeScript)** | a trace per command | run all rules, collect, execute | gates what figma-sync writes | rules that throw |
| **design-tokens** | none while it runs; four generated files | parse, follow aliases, cascade, lay overrides over, emit, compare | figma-sync's export, core, the API | alias cycles and dangling aliases; names bound late; builds that are interrupted |
| **Design token endpoints** | none: a generated constant | answer with an ETag | clients that cache | two sets of values under one tag |
| **i18n provider (React)** | locale, list of locales, catalog | load, switch, reload | the store over HTTP, the runtime configuration of *platform* | answers that arrive out of order |
| **core: theme and scopes (React)** | mode, stored mode, what was written on `<html>` | switch, rerender, nest scopes | design-tokens | properties an older theme wrote; differences taken against the wrong base |
| **core: components** | none; each draws with tokens, and a generated map says with which | draw | the theme and the scopes around them | a component that a scope does not reach; a map that misses a use |
| **token-usage** | none (a batch program) | walk the import graph, scan sources | the governance gate | import cycles; names bound from names |
| **designer-poc: token studio** | the edited export, saves under way | edit, reset, save through the development server | figma-sync reads what it saved | saves that overtake each other, a stop between two files |
| **Command pipeline, commands (C#)**: `Atlas.Functional.Commands` | the answers a request has had so far | run all rules concurrently, combine their errors, execute | the fund, deal, node, appetite and exposure services behind `IUpstream` | services that change or fail between two calls of one request; exceptions inside rules |
| **Upstream contracts**: `MemoizedUpstream` | the calls of one request | answer a call once and keep it, a failure too | the same services | one reading of a source for all rules, or one each |
| **Classic styles (C#)**: DataAnnotations, ValidatorFactory, NTier, AdapterChaining | the answers a request has had so far | ask all sources first, or one after the other; stop early or collect | the same services; `appetite.config.json` | four more spellings of the same rules, each with its own order and its own early returns |
| **decks; stories; infra; pipelines** | - | - | - | presentation and declarative configuration |

What makes each part correct:

- *Translations store.* An accepted write is one atomic, conditional
  replacement of a locale's catalog, across all processes. A version number is
  answered to a client once and versions only grow. What went live, and what it
  replaced, is in history; its audit line precedes it. The gate never leaks a
  permit; every request ends.
- *Seeding.* Once the replicas are up, every shipped locale is there, and none
  that was edited is overwritten.
- *figma-sync.* The ledger is a history without gaps; a version keeps what its
  number promises; nothing that a gate would have refused is taken for a
  release; a run that reports success left what it reports.
- *commands.* A command is executed only if every rule passed; a rule that
  throws has failed.
- *Command pipeline.* A command is judged by one reading of each source, though
  rules ask on their own: what is approved has no finding, and a rule that throws
  hides none of the others' findings. The deal of a receipt is the one that was
  validated.
- *Classic styles.* They refuse what the functional rules refuse, and report
  nothing else.
- *design-tokens.* The theme is what the aliases of a mode mean, whatever loops
  compute it; it ends on every input. The four generated files on main have the
  same tokens with the same values.
- *Design token endpoints.* Who is told "not modified" has what is served.
- *i18n provider.* Once nothing is under way, the texts shown are of the locale
  chosen last.
- *core.* A settled page is of one mode; scopes compose; a scope that changes a
  token reaches every component that the generated map names for it.
- *token-usage.* A module's tokens are credited to the components that reach
  it; no token that is read counts as unused.
- *Token studio.* What it leaves for the sync is one save, and went through the
  gates.

## 2. The plan

The store comes first: it is the only part with durable state that several
processes share, and the one whose comments promise most. figma-sync is second:
durable too, and what its ledger says decides which version clients are given.
Then what turns an export into what is shipped, and the parts with callbacks.

| | Module | Contents | State |
|---|---|---|---|
| 1 | `AtomicCatalog`, `I18nStore`, `I18nStoreInv`, two proof modules | the write path, what it promises, refinement | done, all safety proved |
| 2 | `I18nRead`, `I18nReadProofs` | the merged read of a locale beside the write path | done, proved |
| 3 | `I18nSeed`, `HostProofs` | replicas starting over one share, crashes, people | done, proved |
| 4 | `TokenExport`, `Commands`, `FigmaSync`, `FigmaSyncProofs` | exports, diffs and bumps; the rules; a sync write by write | done, proved |
| 5 | `FigmaVariables`, `FigmaVariablesProofs` | a payload becomes token files | done, proved |
| 6 | `TokenTheme`, `TokenThemeProofs` | `transform()`: cascade, aliases, kinds | done, proved |
| 7 | `TokenFlatten`, `ThemeSchema`, `TokenTargets` | overrides, flattening, custom properties; generated files, gate, deployment, clients | done, proved |
| 8 | `ThemeScopes`, `CoreComponents` | the theme of a page and its scopes; what the components draw with | done, proved |
| 9 | `I18nProvider` | effects, requests, reloads | done, proved |
| 10 | `ImportAttribution`, `TokenUsage` | the import graph and what the scans credit | done, proved |
| 11 | `TokenStudio` | edits, saves, contrast | done, proved |
| 12 | `WebProofs` | proofs about 7 to 11 | done |
| 13 | `CommitRules`, `CommandPipeline`, `HostProofs` | the rules of both C# commands in five styles; a command beside an upstream that changes and fails | done, proved |
| | `AuditLog` | appends of several processes with explicit offsets | open |

`FigmaSync` composes `TokenExport` and `Commands`; `TokenStudio` stands on the
same `TokenExport`, `ThemeScopes` and `TokenTargets` on the same
`TokenFlatten`; `CoreComponents` says what `ThemeScopes`' page is made of;
`TokenUsage` extends `ImportAttribution`; `I18nRead` extends
`I18nStore`; `CommandPipeline` extends `CommitRules`.

## 3. The models

### The store: state

| Code | Model |
|---|---|
| `{code}.json` | `current[l]`, a catalog or `NoFile` (missing, malformed) |
| `_history/{code}/N.json` | the set `history` of snapshots; `Recorded(l, v)` looks one up |
| complete lines of `_audit.jsonl` | the sequence `audit`; `text = "garbled"` for a line that does not parse |
| an unterminated end of `_audit.jsonl` | `torn` |
| `_config.json` | `config` |
| `_gate` of each process | `permits[p]` |
| where a request is in `MutateAsync` / `SaveConfigAsync` | `pc[w]` |
| its local variables | `job[w]`: request, the catalog read, the seed and the next version planned |
| - | `applied`, what went live with what it replaced (an observer) |
| - | `spent`, the counters behind the bounds |

### The store: actions

`Writer` is a set of requests in flight; `Host[w]` is the process that serves
`w`. Every disk access is a step, so everything may happen between two of them.

| Action | Code |
|---|---|
| `Submit`, `Cancel`, `Enter` | a request reaches the endpoint; `_gate.WaitAsync(token)` (L152, L184) throws on cancellation *before* the `try` |
| `RefuseUnknown`, `ReadCurrent` | `ReadCurrent` (L187-189) |
| `Admit`, `RefuseStale` | `EnsureHistoryNotAhead` and If-Match (L190-193) |
| `ReconcileAndApply` | `Reconcile` and the `apply` delegate (L194-200): reading the snapshot of the current version, planning a seed for a file that is unrecorded or was edited, computing the next catalog |
| `ReconcileUnreadable` | the same with a snapshot file that cannot be opened: `ReadJson` answers null (L348) |
| `WriteSeed`, `AuditSeed` | L201-205 |
| `WriteSnapshot`, `AuditChange`, `WriteCurrent` | L206-208; `CreateJson` refuses an existing target, and the `finally` releases |
| `ValidateConfig`, `WriteConfig`, `AuditConfig` | `SaveConfigAsync`; `ValidConfig` is `I18nCatalog.ValidateConfig` in full: the listed locales are those on disk, fallbacks are other listed locales, the default is listed and enabled |
| `AuditBusy` | the log is opened with `FileShare.Read`; a second process gets an `IOException` |
| `DiskFault`, `TearAppend` | a disk access throws before, or in the middle of, what it writes |
| `Crash(p)` | a process dies with the requests it serves and starts again |
| `HandEdit`, `HandDrop` | a person saves, drops, replaces or removes a catalog file |
| `RemoveOrphan`, `RestoreLatest` | the message of `EnsureHistoryNotAhead` asks somebody to "reconcile the folder": the two ways to do it |

`AtomicCatalog` is what a client is promised: `live` and `applied`, and one
action, `Write`, that reads, checks and replaces indivisibly. `I18nStore`
implements it with `live <- current` (property `WritesAreAtomic`).

### The store: abstractions

- Texts, names, actors, reasons and time stamps are dropped. Entries are
  functions from keys to values or `NoValue`.
- `Reconcile`'s read of the current snapshot and the read of a rollback's
  target are one step. Between them only another process can create a snapshot,
  and a write that reads the one but not the other then collides anyway.
- A read that fails answers 404 or throws; both leave the folder alone and
  release the gate: `DiskFault`.
- A torn fragment is never a complete JSON line, so it hides the line after it.
- Two processes never hold the log open at once (`AuditBusy` models what the
  sharing mode does to the second). On a share without such locks the lines
  could land on top of each other: not modelled.
- `File.Move(overwrite: false)`, which `CreateJson` relies on, is atomic on the
  share. All proofs about several processes rest on it.
- Versions are unbounded naturals.
- Whoever reconciles the folder knows which versions were answered to a client
  and does not remove those, and leaves a locale alone while a request is
  working on it.
- People do not edit a locale's file between a write's read and its end, unless
  `EditsRaceWrites` is TRUE. With it, `WritesAreAtomic` is false by nature:
  `WriteJson` overwrites the edit, which is listed as a hazard (L208). Every
  other theorem about the write path covers racing edits too, and `store_single`
  checks with them.

### The store: fairness

`FairSpec` adds weak fairness of `Step(w)`: a server goes on with what it has
started, and every step of a request inside the gate is always enabled. `Enter(w)`
is strongly fair: a waiter's permit is free again and again but not all the
time, and `SemaphoreSlim` queues asynchronous waiters, so none is overtaken for
ever. Nothing obliges a client to send or cancel, a fault to happen or a person
to act.

### The reads (`I18nRead`)

`I18nRead` extends `I18nStore`: its `StoreStep` is the whole of the store's
`Next`, and it adds one `GET /api/i18n/{code}`, with or without `?version=N`,
that takes no lock. `read` holds the request's local variables; `since[l]` and
`known` observe what the file of a locale has held since the read began, and
which versions had been answered to writers before it.

| Action | Code |
|---|---|
| `Get` | the endpoint (`I18nEndpoints.cs` L62) |
| `ReadFile(l)` | one file of `ReadCatalogs` (`I18nStore.cs` L269), in any order |
| `PickOwn` | `SnapshotOrCurrent`, or 404 (L61-66, L299) |
| `ReadConfigFile` | `EffectiveConfig` (L329): defaults for unlisted locales, lines without a catalog dropped |
| `Follow`, `EndWalk` | the loop of `FallbackChain` and what follows it (`I18nCatalog.cs` L95-114) |
| `MergeFallback`, `Answer` | the loops of `WithFallback` (L78-92) |

`ReadsFail` lets any file be unreadable at the moment it is read: `ReadJson`
then answers null. A file replaced by a rename is read whole, old or new.
A listing of the folder is taken to show each file that exists all along. A
read changes nothing, so the death of the process that serves it needs no
action, and reads do not see each other, so one is enough. A read may go on for
ever only if it is never scheduled: `FairReadSpec` adds weak fairness of
`ReadStep`, and nothing else.

### Seeding (`I18nSeed`)

Each replica runs `EnsureSeeded` once per start, before it serves requests.
`at[p]` is where it is in it, `todo[p]` and `target[p]` are its loop;
`files[f]` says whether a file is missing, torn or still being copied, as
shipped, or edited. `upset` observes whether anything but replicas and requests
has had a hand in the start over an empty folder.

| Action | Code |
|---|---|
| `Start` | `HasCatalog` (`I18nSeed.cs` L11, L29), once |
| `Look` | `File.Exists`, `continue` (L19-20) |
| `Copy`, `Fill` | `File.Copy` (L21): it creates the target, or throws, and then fills it |
| `Finish`, `CopyFails` | L25; the `catch` of `Program.cs` L127: the replica starts all the same |
| `Crash` | a replica dies in its start, or is replaced while it serves |
| `Edit`, `DropFile`, `RemoveFile` | a write through the API of another replica; a person on the share |

People leave a file alone while it is being copied; a file's contents are not
looked into further than that. A seed folder that is missing, or that is the
folder itself, copies nothing and is left out. Nothing here is fair: the claims
are about what is on the share when the replicas are up.

### A command (`CommitRules`, `CommandPipeline`)

`CommitRules` has the rules as functions of the command and of an answer of
each source (`RuleFindings`), and what each style makes of their findings
(`Report`). What a rule compares is kept as the outcome of the comparison (a
fund permits the currency, a deal differs in its region), except for amounts.
`CommandPipeline` is one command on its way: `answers` says for every call
(`<<reader, source>>`) how it ended, `upstream` what the sources hold now, `held`
observes what they have held since the command arrived.

| Action | Code |
|---|---|
| `Answered`, `CallThrows` | a call of `IUpstream`: the answer is what the source holds then. `Due` says which calls are waited for: all rules' at once in `Validator.ValidateAsync`, the sources one after the other in the services and gateways of the classic styles |
| `Change` | another client of a source changes what it holds |
| `Combine` | `Task.WhenAll` and `Result.Combine`; `RunAsync` makes an exception of a rule one of its errors (`RuleErrors`) |
| `Execute` | `ExecuteAsync`; the handler of `AdvanceDealStage` fetches the deal once more (`AdvanceDealStageHandler.cs` L19) |
| `Judge` | the verdict of a classic style, which lets exceptions through |

`ReaderOf` is the memo: with it all rules are one reader, and so is what
executes; without it each rule keeps its own answers. The four classic styles are
one reader each, in `CommitRules` as in their code: DataAnnotations collects
everything, the validator factory and the N-tier service stop at a bad fund and
at a deal that is not investable, adapter chaining reports at most one finding.
The N-tier service reads its limits from the configuration whatever the fund.

The services behind `IUpstream` are external; nothing is assumed of them but
that they answer with what they hold. Amounts are integers in the smallest
decimal, unbounded: the overflow of `decimal` is left out, as is a currency of
three blanks, which some styles take for a missing one. The seed data
(`InMemoryUpstream`) and what `GetChildren` would return, which nobody calls, are
left out too. Nothing here is fair; that a request ends is up to the services.

### A sync (`FigmaSync`, `TokenExport`, `Commands`)

| Code | Model |
|---|---|
| `figma/*.tokens.json` | `export`, a function from file names to tokens by path |
| `figma/tokens.lock.json` | `ledger` |
| a file that holds half a write | in `torn` |
| `sync.json`, `pull-request.md`, `token-preview.html` in the out folder | `published` |
| the last commit | `head` |
| `main`'s local variables and how far it is | `run`; `run.calm` observes that nobody touched the files meanwhile |

| Action | Code |
|---|---|
| `ReadCommitted` | `main` up to `readSource` (`figma-sync.ts` L167-181): export and ledger are read *before* Figma is asked |
| `Decide` | the answer: `SYNC_TOKENS` of `handler.ts` with its five rules, run by `validate` and `handle` of the commands package; diff, bump and draft of the release; no change is a success too |
| `WriteNext` | `writeExport` and the ledger, one file a step: `run.todo` is the set of steps left, `IsNext` the one that is due (removals first, each file at its place in the order of names, the ledger last); a file in which no diff shows is never in it |
| `WriteRequest`, `Publish` | the pull request and the preview page, then `sync.json` |
| `Stop` | the fetch fails, a write throws half-way, the process dies |
| `HandEdit`, `Commit`, `Restore` | people and git |

A token is a type and a value; `Display` maps a value to what a diff shows of it
(`diff.ts` L71: a list and the text of its items are alike). The digest of the
ledger is the token set itself: sha-256 of one line per token tells two sets
apart, and nothing else. What a diff knows of a type is that a token had one and
has another: `SameMajorIsCompatible` keeps the types of the tokens that had one,
and not of one without a type, which may gain one in a patch (section 6).
`Transforms` and `Contrast` are parameters here; what
they stand for is `TokenTheme` and the first half of `TokenStudio`. `Preview` is
the table of colours of the preview page (`report.ts` L147-190): what each mode
shows at each path of `Swatch` before and after, its own colour or that of
`BaseMode`. The mock-up below the table, the layout and the wording of the request
are left out.

Three assumptions on the constants, which TLC evaluates and the proofs use.
`SyncAssumption`: the designs are exports over the files and paths of the schema,
and the ledger is no token file (`readExport` takes `*.tokens.json` only).
`FirstAssumption`: the export of the first release has passed the rules itself.
`SwatchAssumption`: two colours of a swatch that are displayed alike are alike;
`diff.ts` L71 shows a text as it is, and only lists and what is not a text lose
anything.

### From variables to a theme (`FigmaVariables`, `TokenTheme`)

`FigmaVariables` is `toDtcgFiles` of `variables.ts`: `NextVariable` and
`PlaceNext` are its two loops, over the variables and over the modes of their
collections; `PlaceNext` puts one value into the tree of its file or throws,
`Finish` hoists shared types. A tree is a function of its paths, so that nothing
walks it recursively: `place` adds a path with its prefixes; `hoistTypes` finds
the topmost groups whose tokens share a type (`Shared`), `hoist` goes on down
while there is only one child and it is a group (`Lands`), and `HoistTypes`
moves the types there at once. `TokensIn` is the reader of `dtcg.ts`, which
gives a token the type of the nearest group that has one (`TypeAt`). `TokenTheme` is `transform()`:
`ReadMode` takes the next mode (`toRead`: unknown ones first, in any order, then
the theme's, then the components of base) and sets `jobs`, the leaves left to
read of it; `LookUp`, `Follow` and
`Resolve` are `valueAt`, one turn of the loop of `followAliases`, and the checks
at its end; `CheckComponents` is the last pass. Each of them may throw
(`Refuse`). A value is its form and an identity. `palette.mode` (a fixed word per
mode) is not among the leaves. Semantic colours that `transform` reads are
colours of the palette like the others.

### What is shipped of a theme (`TokenFlatten`, `TokenTargets`)

`TokenFlatten` has `applyOverrides`, `flattenTheme`, `customProperty` and
`cssVariables`; paths are sequences of keys, and a value keeps whether it is a
number, a text or the name of a palette colour, because units and quotes depend
on it. A list (`semantic.series` is the only one of the schema) is one leaf with
items of its own: `applyOverrides` replaces it whole, whatever its length, as
`design-vocabulary.test.ts` L87 asks, and `Flatten` makes a token of each item.
In `TokenTargets`, `work` is a working copy with its four generated
files; `BuildTargets`, `WriteTarget` and `Interrupt` are `build-tokens.ts`
without `--check`, `Gate` is `--check` on a pull request (`validate-tokens.yml`)
and the merge, `Deploy` and `Get` are the API with its ETag and one client.
`EditExport` and `EditTarget` are people; `SyncExport` is a release, seen from
here. `relabelled` observes that main has had two exports under one version.

### A page (`ThemeScopes`, `ThemeSchema`)

`SetMode`, `Rerender` and `Rescope` are what user and host do; `Commit` is a
render with its layout effect (cleanup, then write), `Stamp` the later effect
that sets `data-theme`, `LoadAgain` a new document over the same storage, which
may refuse to work. `Inherited` computes what a component sees below any
number of scopes, from what each scope writes. `ThemeSchema` lists the paths of
`schema/*.ts`, what the styles of `createAtlasTheme.ts` read, and the
proposal of the proof of concept: data of the instance, in full. Effects of one
page run on one thread; the model interleaves them where React may: between
commit and passive effects.

`CoreComponents` lists what each component of `packages/core` draws with: the
custom properties its styles name, what it takes from MUI's theme instead, and
the component that answers for it in `generated/token-usage.ts`. `ScopesCompose`
is about these parts: at every depth, they inherit every property of the theme
they are given with its value, and what their styles read is among them; and a
scope that lays over no colours restyles only what the map says it does. What
else they inherit is `LeftOver`: a scope writes what changed and unsets nothing,
so when its list is shorter than the one outside, the items past its end are
still seen below it. The instance has a brand whose series has two colours
inside a page with eight, and a series of nine laid over that. Two assumptions of
`MCThemes` compare data that the repository keeps twice: the generated map is
exactly what the styles of the components come to (`MapIsOfTheReads`), and the preview of the proposal draws with every token that
the proposal changes (`PreviewShowsTheProposal`). What `Text` takes from MUI's
theme (`typography.*`, the tones) is not in the map, whose header calls it the
blast radius of a token: a use through MUI's theme is not a use of a property.

### The provider (`I18nProvider`)

`Mount` (with `loadRuntimeConfig`), `SetLocale`, `RunEffect` (cleanup marks the
old request stale, then fetch), `Reload`; `AnswerRequest` and the three
`Apply...` actions, in any order among the requests under way. `Save` is a
translator at the API. `late` and `failed` observe that a reload begun in another locale
was applied last, and that the effect's own request came back empty. A catalog is
its locale and version; the two fetches of a reload are answered in one step,
because nothing that is kept relates their answers.

### Who reads a token (`ImportAttribution`, `TokenUsage`)

`ImportAttribution` is `attributionOf`: `Ask`, and one action for each branch of
the work list's loop. `TokenUsage` is the rest of `build.ts`: names bound to the
theme (`aliasesIn`, two rounds), references, `token('...')` calls in MUI blocks
and rules of stylesheets. The regular expressions are taken as what they find
in a source. A binding is `const { group: alias } = of.path;`; `Joined` is
`joined` (L43) with its prefix that ends in a dot when no path follows. So a
binding made from a name of a group itself, as in `const { header } =
components;`, gets a prefix that no token path has, and what is read through it
is lost. `NoReadTokenIsLost` says what a name stands for without the scan's prefixes
(`Meanings`) and excepts exactly these bindings (`Followed`), and third bindings
in a row; a token that a followed binding names is listed as well as one that is
read with a dot. `helper` of the instance has a binding of either kind.

### The studio (`TokenStudio`)

`Edit`, `Reset`, `Toggle`, `SaveStudio` in the page (`Toggle` takes the component
away: the answers to what it posted are then not `heard`); `Receive`, `Write`,
`Respond`, `Stopped` in the development server (`vite.config.ts` L17-33), which
writes one save in one turn of its event loop; `Answered` in the page again.
`posted` is a history variable: every export that was ever sent. `ExportsAreGated`
needs it to say that what lies in `exports/studio` is one of them as a whole, and
not a mixture that happens to pass the gates. A stop in the middle of a save does
leave a mixture (`torn`), and the gates may not hold of it; the property then says of
each file that some save sent it as it is. The contrast of `contrast.ts` is computed in integers: luminances x 10000, ratios
x 100, rounded as the code rounds.

### Fairness of these parts

A transform (`ThemeSpec`) and an attribution (`WalkSpec`) are one synchronous
call each: weak fairness of their next step says no more than that the call is
executed. `ProviderSpec` has weak fairness of `Settling`: React runs an effect
whose dependencies changed, the browser settles every request (a failure is an
answer), and a settled promise's callback runs. Users, hosts, translators,
people, crashes and syncs are not fair.

## 4. The runs

| Run | Instance | Shows |
|---|---|---|
| `store_shared` | two processes, one request each, three submissions, one fault, one hand edit; one locale, key and value | `AppliedIsRecorded`, `AppliedIsAudited`, `RollbackRestores`, `GateIsMutex`, `IInv` (the inductive invariant of the proofs), `WritesAreAtomic` |
| `store_single` | one process, two requests, catalog and config writes, one fault, two edits that may race a write | `LockoutNeedsAFault`, `GateAvoidsCollisions`, `VersionsGrow`, `EveryRequestEnds` |
| `read_chain` | every configuration of three locales with one default (all lines or one line, disabled, self-referring and cyclic ones included), any of the files missing or unreadable | `ChainIsReference`, `ReadEnds` |
| `read_beside_writes` | one read of three locales with a chain of two fallbacks, one write, two texts, versions 1 and 2 | `NearestFirst`, `ReadsAreLive`, `VersionsMeanOneThing`, `ReadsSeeAnsweredWrites` |
| `host` | two parts, see below | `FreshShareIsPopulated`, `SeedsNeverOverwrite`, `VerdictIsOfOneReading`, `ReceiptIsOfTheVerdict` |
| `sync` | a base file and two files of one mode, nine designs (and a payload that does not convert), up to three releases, one hand edit, one stop | `SyncTypeOK`, `LedgerReplays`, `SameMajorIsCompatible`, `CheckedIsSound`, `SuccessTellsTheTruth` |
| `web` | seven parts, see below | `WebTypeOK`, `TransformIsReference`, `ComponentsFollowTheMode`, `TypesSurviveHoisting`, `AttributionIsReachability`, `NoReadTokenIsLost`, `ShownIsOfTheLocale`, `PageAgrees`, `ScopesCompose`, `MainHasNoDrift`, `CachesHoldTheRelease`, `ExportsAreGated`, `TransformEnds`, `EveryFileIsAttributed`, `PageComesToRest` |
| `torn_line`, `default_last`, `seed_crash`, `sync_drift`, `palette_shade` | one process and one fault (`default_last`: one accepted configuration; `seed_crash`: two replicas; `sync_drift`: as `sync`; `palette_shade`: one component colour) | the findings of section 6 |

Bounds. Locales share nothing but the gate and the log, so one locale with two
writers has every conflict two locales have. One key and one value make two
catalogs, present and absent: enough to tell an edit, a delete and a restore
from nothing. The two processes of `store_shared` are alike: its symmetry exchanges them
together with their requests, and it checks safety only. Three submissions give two writes and a third one after them,
which is what a rollback, a write after a lockout or a write after a hand edit
needs. The named versions {1, 2} and {1, 3} include the version that files start
with, one the writes mint, and one that is ahead of history, so a stale and a
current If-Match, a rollback to a known and an unknown version and a file put
ahead or behind all occur. Every action fires in one of the runs.
A chain of fallbacks over three locales can go on, cycle through the locale
that was asked for or through another one, pass through a disabled one, leave
the listed ones, and meet the default early, late or never; the configurations
with another default are the same up to names. `read_chain` has no keys: a
chain does not depend on texts. `read_beside_writes` has one write and no
faults: `ReadsAreLive`, `NearestFirst` and `ReadsSeeAnsweredWrites` are proved for
any number of both, and
`VersionsMeanOneThing` is false once a half-done write has been reconciled,
which is listed as a hazard (what an answered number promises all the same is the
theorem `AnsweredVersionsAreForGood`). Two texts are needed to tell a nearer one from a
farther one. Two replicas and three bundled files let a replica give up at a
file, with one done and one still to do.

The runs of the store bound what they submit, so the system does stop: deadlock is not
checked, and `EveryRequestEnds` says that no request is left behind.

`sync` checks deadlock: somebody can always restore the files from git. Three
files are what the rules can tell apart: one every mode reads, and two of one
mode, so that a token can move between files and be defined twice. The designs
add, remove, retype and respell a token, give a type to one that had none, move one, define one twice, miss one
the theme needs, and lose contrast as an error and as a warning. A first
release is there at the start; two more are enough to relate a release to the
one before it and to an older one of the same major version. One edit and one
stop fall between any two steps, also of a run after the one they disturbed.

`host` has two parts that do not touch: `seed` is two replicas, with two catalogs
and the configuration in the image and one catalog more on the share; crashes,
faults and edits are without bound. `command` is two commitments (one in order,
one malformed and above the limit) in each of the five styles, with and without
a memo, and two moves of a deal. A source has the answers null, good, and bad in
every way at once, except that a node without a commitment left is told from one
without headroom. One change and one failure fall between any two calls: one
change is enough to give two rules two readings of a source, and to move the
deal between validation and execution. Requests end, so deadlock is not checked.

`web` checks parts that do not interact while they run, as one sum: the first
state picks a `part` (`theme`, `figma`, `usage`, `page`, `targets`, `studio` or
`provider`), only that part moves, and every property speaks of the variables
of one part. It is one state space the size of the sum of seven, not of their
product. Its fairness (`Running`) is the parts' own. Parts stop when they are
done or at a bound, so deadlock is not checked; that nothing is left behind is
what the three liveness properties say.

| Part | Instance | Why it is enough |
|---|---|---|
| `theme` | two modes the theme needs and one it does not know; five paths: a palette colour, a shade, a colour outside the palette, a component colour, a contained button of two; every mix of missing, plain, wrongly typed, malformed and alias tokens in base and one mode | aliases chain over three paths, cycle inside a layer and through both layers, dangle, and cross kinds |
| `figma` | all payloads of up to three variables over five nested names, three types with and without scopes, a variable without a value in a mode, wrong values, dangling aliases, two collections and one unknown | three tokens make a group whose tokens share a type, one that does not, and both nested |
| `usage` | all import graphs of five modules with two components and the theme's entry, at most two imports each, self-imports and cycles included; every path of `TOKEN_PATHS` (`UsagePaths` of `ThemeSchema`) | a cycle of two modules beside and through a component; with and without an entry; bindings of bindings, a leaf bound in the second round, and one that the scan loses |
| `page` | all tokens of the schema, a brand, the proposal, four nests of scopes (the deepest: the brand, the proposal, a longer list), two changes | a list that gets shorter and longer again; a change and its undoing; the storage works or does not, and holds a mode or none |
| `targets` | two exports and one that `transform` refuses, one release, one hand edit, two builds | a build interrupted after another, over an edited export, file or ledger |
| `studio` | one text on one paper; black, white, a grey that misses 4.5 by less than the rounding, a translucent colour and no colour; two edits, two saves, one stop | two saves under way at once, and a stop between two files |
| `provider` | two locales, of which the API may serve one; two switches, one reload, one save; API and configuration reachable or not | leaving a locale and coming back with all requests under way |

## 5. What is proved

Every theorem is about all values of the constants, under the named
assumptions of the modules. The bounds (`MaxFaults`, `MaxEdits`, `MaxReleases`
...) are any naturals: a theorem speaks of every finite number of faults, edits
or releases. Some theorems have a hypothesis of their own, and each is needed.

The store:

| Theorem | Says | Argument |
|---|---|---|
| `TypeCorrect` | `Spec => []TypeOK` | with `JobOK`: a request's local variables hold what its step needs |
| `LiveVersionsAreAudited` | `Spec => []AppliedIsAudited` | a writer at `WriteCurrent` has its line; lines are only added |
| `LiveVersionsAreRecorded` | `Spec => []AppliedIsRecorded` | `RecordInv`: what was planned follows from what was read, and what has been written so far is in history and is never overwritten |
| `GateNeverLeaks` | `Spec => []GateIsMutex` | `GateInv`: either the permit is free, or one writer holds it |
| `StoreInvariant` | `Spec => []IInv` | `IInv` is the inductive invariant, whole |
| `LiveVersionsGrow` | `Spec => VersionsGrow` | from `AboveApplied` |
| `RollbacksRestore` | `Spec => []RollbackRestores` | `RollbackInv`, below |
| `StoreImplementsAtomicCatalog` | `Spec => WritesAreAtomic` if edits do not race writes | every step maps to `Write`, `ReplaceFile` or a stutter |
| `LockoutsComeFromFaults` | `Spec => []LockoutNeedsAFault` for one process | `UnhurtInv`, below |
| `GatePreventsCollisions` | `Spec => GateAvoidsCollisions` for one process | the same |

*Several processes.* No lock is shared, so the invariant cannot be about holding
one. It is about a *file*: a write that read version n has to create the
snapshot n + 1 before it touches the current file, and only one process can.
Whoever did it owns the locale (`Owns`), there is one owner (`OneOwner`),
everybody else who read n will collide with the snapshot (`Fresh`), everybody
who reads n from now on finds history ahead, and the file an owner replaces is
still of the version it read (`AsRead`). None of it holds by itself:
`VersionsGrow` is inductive only with `AboveApplied`, that only with `OneOwner`,
that only with `WrittenSoFar` and `PlanOK`. A person who saves a file during a
write may change its entries but not its version, so `AsRead` speaks of the
version where edits may race, and of the whole catalog otherwise. That is why
the refinement alone has the hypothesis `~EditsRaceWrites`.

*Rollbacks.* What a rollback makes live has to be the snapshot of the version it
names when it goes live, not only when it was read. Somebody may remove a
snapshot above the file in between (`RemoveOrphan`), or another process may mint
its number anew. `NoGap` says that snapshots above the version a writer read
start right above it; so either the named version lies below the one minted,
where nobody removes or creates anything, or the write will collide
(`RollbackAt`).

*One process.* `UnhurtInv`: as long as nothing has failed, what is latest in the
history of a locale at rest was live once, and a writer inside the gate has
nothing above the version it works on except the snapshots it has created. Two
processes break it without any fault, when their appends to the log meet
(`AuditBusy`), so the hypothesis `OneProcess` is needed.

Reads and seeding:

| Theorem | Says | Argument |
|---|---|---|
| `ReadTypeCorrect` | `ReadSpec => []ReadTypeOK` | through both loops |
| `ChainNeverRepeats` | `ReadSpec => []ChainHasNoRepeats` | `ChainInv`: what is in the chain has been visited |
| `ChainIsAsDefined` | `ReadSpec => []ChainIsReference` | `ReferenceInv`, below |
| `MergeIsNearestFirst` | `ReadSpec => []NearestFirst` | `MergeInv`, the loop invariant: `NearestFrom(left + 1)`; one more source extends it by one |
| `ReadsShowLiveCatalogs` | `ReadSpec => []ReadsAreLive` | `LiveInv`: what has been read is in `since`; without `?version`, the locale's own part is what was read |
| `ReadsKeepUp` | `ReadSpec => []ReadsSeeAnsweredWrites` if nobody edits | `UpToDate`: a live file is not below anything applied (from `AboveApplied` and `OneOwner`); `KnownInv`: so is every file the read may still find |
| `NumbersMeanOneThing` | `ReadSpec => []VersionsMeanOneThing` if `Undisturbed` | `StandsInv`: the entries of a file are those of the snapshot of its version, or there is none and the file is still current; `MeansInv`: so for everything a read has found |
| `AnsweredVersionsAreForGood` | `ReadSpec => []AnsweredVersionsStand`: a number answered before the read began shows what its write made live, with faults, hand edits, other processes and orphans removed meanwhile | `AnsweredInv`: the only candidate for such a number is its one snapshot (`AppliedIsRecorded`), and a later write under that number would have made the same entries live (`OneMeaning`) |
| `SeedTypeCorrect` | `SeedSpec => []SeedTypeOK` | - |
| `EditsSurviveSeeding` | `SeedSpec => SeedsNeverOverwrite` | `FillInv`: one replica at a time fills a file, and it is torn until then |
| `FreshSharesFill` | `SeedSpec => []FreshShareIsPopulated` | `PopulationInv`: while a file is missing, some replica (`Good`) is not about to give up: the one that made the last file |

*The chain.* `Path` is the recursive definition: one fallback after the other,
without a memory. The loop remembers what it visited, skips what is disabled and
stops at the first repeat. `ReferenceInv` says where on the path it is: there is
an index n such that everything visited so far is what the path has up to n, each
at a different index (`WalkAt`), and the chain has the eligible ones of them in
that order. When the walk stops it has been everywhere: what it stands on has
been visited, so the path repeats from there (`WalkReachesAll`). The facts about `Path` itself need an induction, which is stated
here as a minimal counterexample: the least number at which the claim fails
(`Least`, from the well-foundedness of the naturals) cannot be 0 and cannot be a
successor. The only assumption is that there are finitely many locales
(`LocalesAssumption`).

The hypotheses: a person who saves a file may give it any version, which undoes
what a reader can be promised (`MaxEdits = 0`). And `?version=N` shows the
snapshot of a write that may still fail: after a fault, or a collision of two
processes, its number is minted again for other entries, so
`VersionsMeanOneThing` asks for one process, no faults and no edits
(`Undisturbed`). `AnsweredVersionsStand` is what remains without that hypothesis,
of the numbers that were answered before the read began; it excepts a snapshot
that cannot be opened, where `SnapshotOrCurrent` falls through to the current
file, which may have been edited under the same number. It is not among the
properties of a run: the bounds of `read_beside_writes` (one write, no edit) hold
nothing that could disturb it. `StoreBesideReads` lets the proofs about reads use those of the
store: a step of the composition is a step of the store or leaves it alone.

A sync:

| Theorem | Says | Argument |
|---|---|---|
| `SyncInvHolds` | `SyncSpec => []SyncInv` | the conjunction of what follows |
| `SyncTypeCorrect` | `SyncSpec => []SyncTypeOK` | `Fields`, `FilesInv`, `RunInv` |
| `LedgerAlwaysReplays` | `SyncSpec => []LedgerReplays` | `LedgerInv`: every release went through the rules (`Approved`) and follows from the one before it (`Follows`); that applying a diff gives its target is `DiffReplays` |
| `SameMajorStaysCompatible` | `SyncSpec => []SameMajorIsCompatible` | `Compatible` is transitive along the ledger: a token that has a type keeps it, so it has one in every later release |
| `CheckIsSound` | `SyncSpec => []CheckedIsSound` | what verifies has the tokens of the newest release, and that one is `Approved`; `NoLedger` has the digest of no export |
| `SuccessIsTrue` | `SyncSpec => []SuccessTellsTheTruth` | `CalmInv`: while nobody else is at the files, each of them is what the steps that are done make of what was read; `RequestInv` |

The rules decide on what was read before Figma answered, while the files go
their own way. So the invariant does not say that the export on disk fits the
ledger on disk (it need not); `RunInv` relates a plan to the export and the
ledger it was made *of* (`Fits`), and only `calm` brings the disk back in.
`writeExport` compares file by file what the diff compared as a whole:
`AlikeWhenNoDiff` and `WrittenExportShows` are the way from the one to the other.

A command:

| Theorem | Says | Argument |
|---|---|---|
| `CommandTypeCorrect` | `CommandSpec => []CommandTypeOK` | - |
| `VerdictsAreRight` | `CommandSpec => []VerdictIsOfOneReading`, for any commands, answers, changes and failures | `CommandInv`, below |
| `ReceiptsAreRight` | `CommandSpec => []ReceiptIsOfTheVerdict` | with a memo the call that executes is the call that was judged, so it is settled before `Execute` and did not throw: `MemoInv` |
| `StylesAgree` | for the same answers every classic style refuses exactly what the functional rules refuse, and reports only what they find, for amounts up to 0 or from `Cent` on | each early return drops findings only where another one has been reported; `First` of some findings is one of them (`FirstOfSome`) |

*A verdict.* `AnswersInv`: what a call was answered with is something its source
has held since the command arrived. `FunctionalInv` and `ClassicInv` say of a
verdict that the calls it needed are settled and that its errors are the rules'
errors, or the style's report, of exactly these answers; nothing changes them
afterwards. The witness that `VerdictIsOfOneReading` asks for is then the answers
of the one reader, filled up with what the source holds now where it was not
asked (`FoundHasCodes`, `BusinessReportIsFair` and `ShapeReportIsFair` are about what
was not looked at). Without a memo there is a reader for each rule and no such
witness, unless nothing changed: `HeldInv`. `ChainInv` is needed because the
appetite is judged with the exposure, which adapter chaining reads last.

The bounds of the two hypotheses are real. The functional handler as
`Atlas.Api/Program.cs` L33-37 wires it has no memo: two rules may then read one fund
in two states; and over such an upstream `AdvanceDealStage` may execute a deal that has moved on, or is
gone, since it was validated (`deal!` at L25 then throws). And "the exact same
business operation" (the repository's `README.md` L6) is so only outside the
amounts that a `[Range]` attribute refuses and the rules accept: below 0.01 in
the N-tier DTO, below 0.00000001 with DataAnnotations.

The web packages:

| Theorem | Says | Argument |
|---|---|---|
| `WalkTypesHold` | `WalkSpec => []WalkTypeOK` | together with `AttributionInv` |
| `AttributionIsRight` | `WalkSpec => []AttributionIsReachability`, for every finite set of modules and every graph | `AttributionInv`, the loop invariant: what is seen or queued is above the file that was asked for, and the importers of what was seen, components apart, are seen or queued; when the queue is empty, what was seen is itself closed |
| `ReadTokensAreKept` | `WalkSpec => []NoReadTokenIsLost` | from the attribution, for any sources: what a followed binding means is the prefix that the scan gives it (`FollowedIsMeant`), in both rounds (`MeaningsAreFound`) |
| `TransformIsRight` | `ThemeSpec => []TransformIsReference`, for every schema and every token set | `ThemeInv`, below |
| `WalksNeverCircle` | `ThemeSpec => []ThemeTypeOK` | while it is under way from `WalkInv`; a walk that was refused stays as it is |
| `ComponentsAreOfTheMode` | `ThemeSpec => []ComponentsFollowTheMode` | from `ThemeInv`: a component has a name only if its token aliases a colour, and the name is that alias |
| `ReadBackAsGiven` | `FigmaSpec => []TypesSurviveHoisting`, for every payload and every depth of its names | `FigmaInv`, below |
| `ShownIsRight` | `ProviderSpec => []ShownIsOfTheLocale` | `LoadedInv`: a request of the effect that is not stale is for the locale asked last, and once there is none, the catalog is of that locale unless `failed` or `late` |
| `PageIsConsistent` | `PageSpec => []PageAgrees` | `PageInv`: the properties on `<html>` are those of the last commit, so its cleanup removes all of them |
| `NestedScopesCompose` | `PageSpec => []ScopesCompose` | at every depth: what is inherited has all that the theme given there makes (`DifferencesSuffice`), and laying over takes no token away but items of replaced lists (`LaidOverKeeps`); a minimal counterexample again, over the depth |
| `CachesAreRight` | `TargetsSpec => []CachesHoldTheRelease` | `TargetsInv`: versions only grow from working copy to main to deployment to client, and two of them that have the same version have the same tokens unless `relabelled` |
| `MainIsOfOneExport` | `TargetsSpec => []MainHasNoDrift` | `DriftInv`: what is on main passed the gate, so its four files are `TargetsOf` its export; what the four emitters make of one export agrees token by token |
| `StudioIsGated` | `StudioSpec => []ExportsAreGated` | `StudioInv`: whatever is posted may be saved, a write in progress has written what it has come past, and when nothing is torn the files on disk are one of `posted`; rounding of the ratio bounded by integer arithmetic |
| `StudioTypesHold` | `StudioSpec => []StudioTypeOK` | `StudioTypeInv`: the post being written has not been answered, so no answer takes it away |
| `ProviderTypesHold` | `ProviderSpec => []ProviderTypeOK` | first half of `ProviderInv` |
| `WebTypesHold` | `WebSpec => []WebTypeOK` | `WebInv`: the part that was picked keeps its invariant; the others stand still |

*A transform.* The reference has no walk: `Reach` is the smallest set of paths
that has the one asked for and, with an alias, its target, and `Ends` the
concrete tokens in it. `WalkInv` says that the chain of a walk lies inside
`Reach`, each path in it an alias of the next and no path twice. So the paths of
a chain that has come to a concrete token are closed, hence all of `Reach`
(`ConcreteEnd`); a chain that meets itself, or leads nowhere, is closed without a
concrete token in it (`CyclesHaveNoEnd`, `BrokenChainsHaveNoEnd`). No induction
over the chain is needed, for the invariant grows with it. `ReadInv` keeps the
books: of every mode that was taken from `toRead`, each leaf the schema asks for
is waiting or read, and what is read is what it means (`Means`); `JobOK`: in an
acceptable set every job fits, so a refusal means that the set is not one.
Assumed are the shape of a token set (`TokenSetsAssumption`) and of the schema
(`SchemaAssumption`): base is not a mode of the theme, only components keep
names, and no component has a path twice.

*A payload.* `PlacedInv` says that the trees hold what the loops have come past
and nothing else, and that the names in one file are not prefixes of each other:
`place` refuses exactly when the next name would be (`TakenMeans`), so a refusal
means that the payload does not fit. Every tree is `WellGrown`: closed under
prefixes, nothing below a token, a token below every group. For such a tree
`HoistingKeepsTypes` needs no induction. Along a chain of only children
everything is below its end (`LandingIsAbove`: take the shortest path of the
chain that is not above the token; the one before it has two children). So the
group a type lands on has exactly the tokens of the group that shared it, is no
token itself (it has two below it), and is the only such group above each of
them (`OneHome`): the first groups that share a type are not inside each other.
What a stripped token finds above it is then its own type. Assumed are the shape
of a payload (`PayloadsAssumption`: what Figma's API types say; a name that was split has a segment)
and that a collection has each of its modes once (`CollectionsAssumption`).

What they assume of the parameters: `transform` makes what the schema lists and
nothing else, and what it emits is neither a missing file nor a hand-edited one
(`ExportsAssumption`); a theme it accepts has both colours of every contrast pair
(`TransformsAssumption`, because `transform` throws on a missing colour); the
committed export builds (`StudioAssumption`); `NoComponent` is no module
and paths are of keys (`UsageAssumption`). For the scopes: a theme has every token of the shipped one
and an override lays over some of them, lists of any length among them, as their
TypeScript types say (`ThemesAssumption`; `ListsAssumption`: the paths of lists are
paths); a style reads tokens of the theme, none of them an item of a list, and the
map of uses has what a style reads (`PartsAssumption`). TLC evaluates the last on the components
and the map of the repository.

`I18nStoreRecordProofs` holds the type proof, one lemma per helper, history and audit, `I18nStoreAtomicProofs` ownership,
rollbacks, refinement, the semaphore and one process; `I18nReadProofs` builds on
them. `FigmaSyncProofs`, `FigmaVariablesProofs`, `TokenThemeProofs` and
`WebProofs` hold the web packages, `HostProofs` seeding and commands. `TypeOK`,
`ReadTypeOK`, `SeedTypeOK`, `CommandTypeOK` and `ChainHasNoRepeats` are proved
and not run by themselves (`IInv` has `TypeOK` in it); `VersionsGrow` is proved and runs in `store_single`. Every inductive
invariant was checked with TLC before it was proved; `IInv` still is, in
`store_shared`.

Only model-checked:

- Liveness (`EveryRequestEnds`, `ReadEnds`, `TransformEnds`,
  `EveryFileIsAttributed`, `PageComesToRest`): fairness is out of the prover's
  reach.

Every invariant and every other action property of the passing runs is a
theorem.

## 6. Findings

1. *An accepted write the audit log cannot show* (`AppliedIsReadable`,
   `torn_line`). `I18nCatalog.cs` L125: "every accepted write is one version and
   one audit line". `AppendAudit` (L398) does not look at how the file ends.
   After an append torn by a crash or a full disk, the next write's line
   continues the fragment; `ParseAuditLine` drops both.
2. *A chain that does not end with the default* (`ChainEndsInDefault`,
   `default_last`). `I18nCatalog.cs` L94: "Nearest first, always ending with
   the default". `ValidateConfig` accepts a default locale with a fallback of
   its own, and the walk goes on past the default: with de -> en (the default)
   -> fr, the chain of de is en, fr.
3. *A share that is never completed* (`PopulatedAfterRestart`, `seed_crash`).
   `docs/deployment.md` L260: seeds are copied "only when that folder holds no
   catalog [...], so a fresh share starts populated". The first file that is
   copied, or half copied, counts as a catalog: a replica that dies after it
   leaves a share on which every later start copies nothing.
4. *A release that does not verify* (`ReleasedExportVerifies`, `sync_drift`).
   `ledger.ts` L1-2: "a digest that ties the version to the exact bytes".
   `writeExport` skips a file in which `diffTokens` shows no change, and that
   compares values as displayed: a list and the text of its items are alike.
   When such a file changes together with one that does show a change, the
   digest recorded is that of the new export, and the old file stays. `--check`
   fails right after the successful sync, and every later sync is refused with
   `LEDGER_DRIFT`.
5. *A shade that is emitted as its name* (`ShadesResolve`, `palette_shade`).
   `palettePath.ts` L7: "A shade a mode has not set is a TokenError, by design."
   `checkedComponents` asks only whether such a name can exist;
   `resolvePaletteToken` then gives the name itself.

Met while modelling, and left without a run of their own, because the order of
two lines, or one missing guard, shows them; the property that comes closest
names what it excepts:

- `I18nStore.cs` L7, "every write is snapshot, then audit line, then current
  file": a fault between the seed snapshot (L203) and its line leaves a recorded
  version without a line for good; `SaveConfigAsync` replaces the configuration
  (L163) and appends afterwards.
- `reload` of `I18nProvider.tsx` (L57-61) applies its answer whatever the locale
  is by then: a reload begun before a switch may show the old locale's texts
  under the new one. `ShownIsOfTheLocale` excepts it by `late`.
- `ledger.ts` L54 says CI recomputes the digest; `validate-tokens.yml` L37
  compares the generated files with the export only. An edited export with
  rebuilt files reaches main under the old version, and clients keep the old
  values: `CachesHoldTheRelease` excepts it by `relabelled`.
- `scan.ts` L57, "the group can be at any depth", and L78, "a binding can be
  made from a binding": with no path behind the name, `joined` (L43) makes
  `components.` of the prefix, and L71 `components..header`. Tokens read through
  such a name count as read by nobody. `NoReadTokenIsLost` excepts it by
  `Followed`.
- `diff.ts` L52 names "one whose $type moved" and L68 says of a patch "paths and
  types are unchanged": a token without a `$type` that gains one has no former
  type in the diff (L89), so that is a patch too (L55). `SameMajorIsCompatible`
  is about the tokens that had a type.
- `AtlasTokenScope.tsx` L28 writes the changed properties and unsets none:
  below a scope with a shorter list, the items past its end are those of the
  theme outside. `ScopesCompose` allows them as `LeftOver`.
- A stop of the development server between two files of a save leaves the files
  of two saves side by side. `ExportsAreGated` excepts them from the gates by `torn`.
- `build-tokens.ts` L42, "every target is stamped": the TypeScript and the CSS
  target carry no version; `MainHasNoDrift` asks it of the other two.

## 7. What is not modelled, and why

Open parts are in section 2 and, line by line, under "hazards" in
`PROJECT.json`. Left out:

- *Of the command pipeline*: the services behind the ports, and the overflow of
  amounts; what a request costs, and how often a source is asked, are not
  properties of its verdict.
- *The listings of the store* (`ListLocales`, `ListVersions`, `ReadAudit`), which
  change nothing; appends that overlap on a share without locks; versions
  beyond the width of `int`.
- *Strings*: request parsing and validation beyond what it refuses, the bits of
  sha-256, colour syntax, the regular expressions of the scanners, the texts of
  `fallback.ts`, the wording of reports, the mock-up on the preview page.
- *The lookup of one key* in `useT`, the slices of the runtime configuration
  other than the API's address, the check of `palette.mode`.
- *Presentation*: components that only render, stories, the rest of the apps,
  and the decks, which are generated slides; infrastructure and pipelines, which
  are declarative, except for what they say about replicas and gates.

## 8. Running it

    tlc -workers 2 -config I18nStoreShared.cfg MCI18nStore
    tlc -workers 2 -config I18nReadChain.cfg MCI18nRead
    tlc -workers 2 -config Host.cfg MCHost
    tlc -workers 2 -config FigmaSync.cfg MCFigmaSync
    tlc -workers 2 -config Web.cfg MCWeb
    tlapm I18nStoreAtomicProofs.tla
    tlapm WebProofs.tla

An MC module extends the module it is named after and gives the constants their
values (`MCI18nStore` extends `I18nStoreInv`); `MCThemes` serves `ThemeScopes`
and `TokenTargets`, `MCWeb` puts the seven parts of `web` together and `MCHost`
the two of `host`. The
definitions with "Mutant" above them are broken variants of the definition
below them, which the named properties must catch.
