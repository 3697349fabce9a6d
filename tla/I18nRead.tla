------------------------------ MODULE I18nRead ------------------------------
(***************************************************************************)
(* GET /api/i18n/{code}: ReadCatalog of I18nStore.cs, beside the writes.   *)
(*                                                                         *)
(* A read takes no lock.  It reads every catalog file, one after the       *)
(* other, then the snapshot it was asked for, then _config.json; it walks  *)
(* the fallback chain of the locale (I18nCatalog.FallbackChain) and merges *)
(* the entries of the chain, the farthest locale first (WithFallback).     *)
(* Writes, crashes and people come in between any two of these steps.  The *)
(* walk and the merge are loops, so each iteration is a step.              *)
(***************************************************************************)
EXTENDS I18nStore

CONSTANTS
  DefaultCode,  \* the default locale when _config.json names none
  ReadsFail     \* TRUE: a file may be unreadable at the moment it is read

ASSUME DefaultAssumption == DefaultCode \in Locale
ASSUME ReadsFailAssumption == ReadsFail \in BOOLEAN

\* There are as many locales as files in the folder.
ASSUME LocalesAssumption == IsFiniteSet(Locale)

VARIABLES
  read,   \* the local variables of the request
  since,  \* observer: since[l] is what l's file has held since the read began
  known   \* observer: versions of the locale answered before the read began

readVars == <<read, since, known>>
allVars == <<vars, readVars>>

\* EffectiveConfig speaks of the locales whose catalogs were read.
Effective == [default: Locale, settings: UNION {[present -> Settings] : present \in SUBSET Locale}]
NoEffect == [default |-> DefaultCode, settings |-> [l \in {} |-> NoLocale]]

NoEntries == [k \in Key |-> NoValue]

ReadType ==
  [at: {"idle", "files", "own", "config", "walk", "merge", "done"},
   code: Locale, version: Named \union {AnyVersion},
   todo: SUBSET Locale, catalogs: [Locale -> Catalog \union {NoFile}],
   own: Catalog \union {NoFile}, config: Effective,
   next: Locale \union {NoLocale}, visited: SUBSET Locale, chain: Seq(Locale),
   left: Nat, merged: Entries]

ReadTypeOK ==
  /\ read \in ReadType
  /\ since \in [Locale -> SUBSET (Catalog \union {NoFile})]
  /\ known \subseteq Version

-----------------------------------------------------------------------------
(* What the code computes from what it has read.                           *)

Present(catalogs) == {l \in Locale : catalogs[l] # NoFile}

\* A locale without a line is enabled and falls back to the default; a line
\* without a catalog is dropped.
EffectiveConfig(c, present) ==
  LET default == IF c = NoConfig THEN DefaultCode ELSE c.default
      unlisted(l) == [enabled |-> TRUE, fallback |-> IF l = default THEN NoLocale ELSE default]
  IN  [default |-> default,
       settings |-> [l \in present |->
         IF c # NoConfig /\ l \in DOMAIN c.settings THEN c.settings[l] ELSE unlisted(l)]]

Fallback(cfg, l) ==
  IF l \in DOMAIN cfg.settings THEN cfg.settings[l].fallback ELSE NoLocale

\* A disabled locale is passed through and not listed, unless it is the default.
Eligible(cfg, l) ==
  l \in DOMAIN cfg.settings /\ (cfg.settings[l].enabled \/ l = cfg.default)

\* The dictionary's indexer: what is in upper replaces what is in lower.
Overlay(lower, upper) ==
  [k \in Key |-> IF upper[k] = NoValue THEN lower[k] ELSE upper[k]]

EntriesOf(file) == IF file = NoFile THEN NoEntries ELSE file.entries

-----------------------------------------------------------------------------
(* The steps of one read.                                                  *)

Get(code, version) ==
  /\ read.at = "idle"
  /\ read' = [read EXCEPT !.at = "files", !.code = code, !.version = version, !.todo = Locale]
  /\ since' = [l \in Locale |-> {current[l]}]
  /\ known' = {a.after.version : a \in {b \in applied : b.locale = code}}
  /\ UNCHANGED vars

\* ReadJson answers null for a file that cannot be opened at the moment.
MayRead(content, null) == {content} \union (IF ReadsFail THEN {null} ELSE {})

ReadFile(l) ==
  /\ read.at = "files"
  /\ l \in read.todo
  /\ \E found \in MayRead(current[l], NoFile) :
       read' = [read EXCEPT !.catalogs[l] = found, !.todo = @ \ {l},
                            !.at = IF read.todo = {l} THEN "own" ELSE "files"]
  /\ UNCHANGED <<vars, since, known>>

\* Mutant: without a version, the newest snapshot.
CandidatesNewest(mine) ==
  IF read.version = AnyVersion
  THEN LET newest == {s \in history : Latest(read.code, s)}
       IN  IF newest = {} THEN {mine}
           ELSE {[version |-> s.version, entries |-> s.entries] : s \in newest}
  ELSE {}

\* Mutant: a missing version parameter reads as version 1.
CandidatesFirst(mine) ==
  {[version |-> s.version, entries |-> s.entries] : s \in Recorded(read.code, 1)} \union {mine}

\* Mutant: the current entries under the number that was asked for.
CandidatesRenumbered(mine) ==
  IF read.version = AnyVersion THEN {mine} ELSE {[mine EXCEPT !.version = read.version]}

\* Without a version, the current catalog.  With one, SnapshotOrCurrent: the
\* snapshot, or if it is missing or cannot be opened, the current catalog
\* should it have that number.
Candidates(mine) ==
  IF read.version = AnyVersion THEN {mine}
  ELSE {[version |-> s.version, entries |-> s.entries] : s \in Recorded(read.code, read.version)}
         \union (IF Recorded(read.code, read.version) # {} /\ ~ReadsFail THEN {}
                 ELSE {IF read.version = mine.version THEN mine ELSE NoFile})

NotFound == read' = [read EXCEPT !.at = "done"]

PickOwn ==
  LET mine == read.catalogs[read.code]
  IN  /\ read.at = "own"
      /\ \/ mine = NoFile /\ NotFound
         \/ mine # NoFile /\ \E own \in Candidates(mine) :
              IF own = NoFile THEN NotFound
              ELSE read' = [read EXCEPT !.at = "config", !.own = own]
      /\ UNCHANGED <<vars, since, known>>

ReadConfigFile ==
  /\ read.at = "config"
  /\ \E found \in MayRead(config, NoConfig) :
       LET cfg == EffectiveConfig(found, Present(read.catalogs))
       IN  read' = [read EXCEPT !.at = "walk", !.config = cfg, !.visited = {read.code},
                                !.next = Fallback(cfg, read.code), !.chain = <<>>]
  /\ UNCHANGED <<vars, since, known>>

\* Mutant: a disabled locale ends the walk.
FollowEnabledOnly ==
  /\ read.at = "walk"
  /\ read.next \notin read.visited \union {NoLocale}
  /\ read' = [read EXCEPT
       !.visited = @ \union {read.next},
       !.chain = IF Eligible(read.config, read.next) THEN Append(@, read.next) ELSE @,
       !.next = IF Eligible(read.config, read.next) THEN Fallback(read.config, read.next)
                ELSE NoLocale]
  /\ UNCHANGED <<vars, since, known>>

\* Mutant: nothing is remembered but the chain, to which nothing is added twice.
FollowForgetful ==
  /\ read.at = "walk"
  /\ read.next \notin read.visited \union {NoLocale}
  /\ read' = [read EXCEPT
       !.chain = IF \E i \in DOMAIN @ : @[i] = read.next THEN @ ELSE Append(@, read.next),
       !.next = Fallback(read.config, read.next)]
  /\ UNCHANGED <<vars, since, known>>

Follow ==
  /\ read.at = "walk"
  /\ read.next \notin read.visited \union {NoLocale}
  /\ read' = [read EXCEPT
       !.visited = @ \union {read.next},
       !.chain = IF Eligible(read.config, read.next) THEN Append(@, read.next) ELSE @,
       !.next = Fallback(read.config, read.next)]
  /\ UNCHANGED <<vars, since, known>>

EndWalk ==
  LET default == read.config.default
      chain == IF default \in read.visited THEN read.chain ELSE Append(read.chain, default)
  IN  /\ read.at = "walk"
      /\ read.next \in read.visited \union {NoLocale}
      /\ read' = [read EXCEPT !.at = "merge", !.visited = @ \union {default},
                              !.chain = chain, !.left = Len(chain), !.merged = NoEntries]
      /\ UNCHANGED <<vars, since, known>>

\* Mutant: a key that a farther locale has is kept (TryAdd in place of []).
MergeFallbackKeepsFirst ==
  /\ read.at = "merge"
  /\ read.left > 0
  /\ read' = [read EXCEPT
       !.merged = Overlay(EntriesOf(read.catalogs[read.chain[read.left]]), @),
       !.left = @ - 1]
  /\ UNCHANGED <<vars, since, known>>

MergeFallback ==
  /\ read.at = "merge"
  /\ read.left > 0
  /\ read' = [read EXCEPT
       !.merged = Overlay(@, EntriesOf(read.catalogs[read.chain[read.left]])),
       !.left = @ - 1]
  /\ UNCHANGED <<vars, since, known>>

Answer ==
  /\ read.at = "merge"
  /\ read.left = 0
  /\ read' = [read EXCEPT !.merged = Overlay(@, read.own.entries), !.at = "done"]
  /\ UNCHANGED <<vars, since, known>>

-----------------------------------------------------------------------------

ReadInit ==
  /\ Init
  /\ read = [at |-> "idle", code |-> DefaultCode, version |-> AnyVersion,
             todo |-> {}, catalogs |-> [l \in Locale |-> NoFile], own |-> NoFile,
             config |-> NoEffect, next |-> NoLocale, visited |-> {}, chain |-> <<>>,
             left |-> 0, merged |-> NoEntries]
  /\ since = [l \in Locale |-> {}]
  /\ known = {}

ReadStep ==
  \/ \E l \in Locale : ReadFile(l)
  \/ PickOwn
  \/ ReadConfigFile
  \/ Follow
  \/ EndWalk
  \/ MergeFallback
  \/ Answer

\* The store goes on while a read is in progress.
StoreStep ==
  /\ Next
  /\ since' = [l \in Locale |-> since[l] \union {current'[l]}]
  /\ UNCHANGED <<read, known>>

ReadNext ==
  \/ \E code \in Locale, version \in Named \union {AnyVersion} : Get(code, version)
  \/ ReadStep
  \/ StoreStep

ReadSpec == ReadInit /\ [][ReadNext]_allVars
FairReadSpec == ReadSpec /\ WF_allVars(ReadStep)

-----------------------------------------------------------------------------
(* Properties.                                                             *)

Answered == read.at = "done" /\ read.own # NoFile

\* The catalogs of the chain, nearest first, the locale's own before them.
Source(i) ==
  IF i = 0 THEN read.own.entries ELSE EntriesOf(read.catalogs[read.chain[i]])

\* Every key has the text of the first source from n on that has it.
NearestFrom(n) ==
  \A k \in Key :
    \/ /\ read.merged[k] = NoValue
       /\ \A i \in n..Len(read.chain) : Source(i)[k] = NoValue
    \/ \E i \in n..Len(read.chain) :
         /\ Source(i)[k] # NoValue
         /\ read.merged[k] = Source(i)[k]
         /\ \A j \in n..(i - 1) : Source(j)[k] = NoValue

\* "Own entries win, then the nearest fallback that has the key": merging from
\* the far end gives every key the text of the first source that has it, and
\* no key is lost (WithFallback, I18nCatalog.cs L77-92).
NearestFirst == Answered => NearestFrom(0)

\* Where n fallbacks lead from the locale that was asked for.
Path[n \in 0..Cardinality(Locale)] ==
  IF n = 0 THEN read.code
  ELSE IF Path[n - 1] = NoLocale THEN NoLocale ELSE Fallback(read.config, Path[n - 1])

Reached == {Path[n] : n \in DOMAIN Path} \ {NoLocale}

Hops(l) ==
  IF l \in Reached
  THEN CHOOSE n \in DOMAIN Path : Path[n] = l /\ \A m \in 0..(n - 1) : Path[m] # l
  ELSE Cardinality(Locale) + 1

\* The loop of FallbackChain computes the locales that fallbacks lead to, each
\* once however they cycle, without the locale itself and the disabled ones,
\* in the order of their distance; then the default if it was not passed.
ChainIsReference ==
  read.at \in {"merge", "done"} /\ read.visited # {} =>
    /\ {read.chain[i] : i \in DOMAIN read.chain} =
         {l \in Reached \ {read.code} : Eligible(read.config, l)}
           \union ({read.config.default} \ Reached)
    /\ \A i, j \in DOMAIN read.chain : i < j => Hops(read.chain[i]) < Hops(read.chain[j])

\* No locale is merged twice, nor the one that was asked for as a fallback of
\* itself, whatever cycles the configuration has (visited, L99-102).
ChainHasNoRepeats ==
  /\ \A i, j \in DOMAIN read.chain : i # j => read.chain[i] # read.chain[j]
  /\ \A i \in DOMAIN read.chain : read.chain[i] # read.code

\* Lock-free as it is, a read shows of every locale a catalog that was its
\* live one, version and entries together, at some moment during the read
\* (ReadCatalogs, MoveIntoPlace), or nothing of it.
ReadsAreLive ==
  Answered =>
    /\ read.version = AnyVersion => read.own \in since[read.code]
    /\ \A i \in DOMAIN read.chain :
         read.catalogs[read.chain[i]] \in since[read.chain[i]] \union {NoFile}

\* Without hand edits and faults, a version number shown to a reader stands
\* for the same entries as the write that was answered with it, also when the
\* reader saw it before that write was done (SnapshotOrCurrent, L298-301).
VersionsMeanOneThing ==
  Answered => \A a \in applied :
    a.locale = read.code /\ a.after.version = read.own.version =>
      read.own.entries = a.after.entries

\* A number that a write was answered with before the read began shows what
\* that write made live, and nothing else, whatever happens to the folder
\* meanwhile: later writes, hand edits under the same number, crashes, orphans
\* removed.  A snapshot that cannot be opened lets SnapshotOrCurrent (L298-301)
\* fall through to the current file, which may have been edited: hence ReadsFail.
AnsweredVersionsStand ==
  Answered /\ ~ReadsFail /\ read.version \in known \intersect Named =>
    /\ read.own.version = read.version
    /\ \A a \in applied :
         a.locale = read.code /\ a.after.version = read.version =>
           read.own.entries = a.after.entries

\* A read begun after a write was answered shows that write or a later one,
\* whichever process serves it (ReadCatalogs re-reads the disk, L43).
ReadsSeeAnsweredWrites ==
  Answered /\ read.version = AnyVersion => \A v \in known : v <= read.own.version

\* Every read ends, whatever cycles the fallbacks have and however often the
\* files change meanwhile.
ReadEnds == read.at = "files" ~> read.at = "done"

\* "Nearest first, always ending with the default" (I18nCatalog.cs L94), for a
\* locale that is not the default itself, and a default that has a catalog.
ChainEndsInDefault ==
  /\ read.at = "merge"
  /\ read.code # read.config.default
  /\ read.config.default \in DOMAIN read.config.settings
  => read.chain # <<>> /\ read.chain[Len(read.chain)] = read.config.default
=============================================================================
