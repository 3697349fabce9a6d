--------------------------- MODULE I18nReadProofs ---------------------------
(***************************************************************************)
(* Proofs about I18nRead.  The store's steps change none of a read's local *)
(* variables, so each invariant is about the read's own steps; what the    *)
(* store contributes is that a file's content is always in since.          *)
(***************************************************************************)
EXTENDS I18nRead, I18nStoreAtomicProofs, FiniteSetTheorems, WellFoundedInduction

\* Reads write nothing.
LEMMA ReadsWriteNothing ==
  ASSUME [ReadNext]_allVars
  PROVE  [Next]_vars
<1>1. CASE UNCHANGED allVars
  BY <1>1 DEF allVars
<1>2. CASE StoreStep
  BY <1>2 DEF StoreStep
<1>3. CASE \E code \in Locale, version \in Named \union {AnyVersion} : Get(code, version)
  BY <1>3 DEF Get
<1>4. CASE ReadStep
  BY <1>4 DEF ReadStep, ReadFile, PickOwn, ReadConfigFile, Follow, EndWalk, MergeFallback, Answer
<1>5. QED
  BY <1>1, <1>2, <1>3, <1>4 DEF ReadNext

\* The store next to a read is the store.
LEMMA StoreBesideReads == ReadSpec => Spec
<1>1. ReadInit => Init
  BY DEF ReadInit
<1>2. [ReadNext]_allVars => [Next]_vars
  BY ReadsWriteNothing
<1>3. QED
  BY <1>1, <1>2, PTL DEF ReadSpec, Spec

-----------------------------------------------------------------------------
(* Types.                                                                  *)

LEMMA EffectiveType ==
  ASSUME NEW c \in Config \union {NoConfig}, NEW present \in SUBSET Locale
  PROVE  EffectiveConfig(c, present) \in Effective
<1> DEFINE default == IF c = NoConfig THEN DefaultCode ELSE c.default
           cfg == EffectiveConfig(c, present)
<1>1. default \in Locale
  BY DefaultAssumption DEF Config
<1>2. ASSUME NEW l \in present
      PROVE  (IF c # NoConfig /\ l \in DOMAIN c.settings THEN c.settings[l]
              ELSE [enabled |-> TRUE, fallback |-> IF l = default THEN NoLocale ELSE default])
                \in Settings
  <2>1. CASE c # NoConfig /\ l \in DOMAIN c.settings
    <3>1. PICK listed \in SUBSET Locale : c.settings \in [listed -> Settings]
      BY <2>1 DEF Config
    <3>2. QED
      BY <2>1, <3>1
  <2>2. CASE ~(c # NoConfig /\ l \in DOMAIN c.settings)
    <3>1. [enabled |-> TRUE, fallback |-> IF l = default THEN NoLocale ELSE default] \in Settings
      BY <1>1 DEF Settings
    <3>2. QED
      BY <2>2, <3>1
  <2>3. QED
    BY <2>1, <2>2
<1>3. cfg.settings \in [present -> Settings]
  BY <1>2 DEF EffectiveConfig
<1>4. cfg.settings \in UNION {[p -> Settings] : p \in SUBSET Locale}
  BY <1>3
<1>5. cfg.default = default /\ cfg = [default |-> cfg.default, settings |-> cfg.settings]
  BY DEF EffectiveConfig
<1> HIDE DEF cfg, default
<1>6. cfg \in Effective
  BY <1>1, <1>4, <1>5 DEF Effective
<1>7. QED
  BY <1>6 DEF cfg

LEMMA FallbackType ==
  ASSUME NEW cfg \in Effective, NEW l
  PROVE  Fallback(cfg, l) \in Locale \union {NoLocale}
<1>1. PICK present \in SUBSET Locale : cfg.settings \in [present -> Settings]
  BY DEF Effective
<1>2. QED
  BY <1>1 DEF Fallback, Settings

LEMMA OverlayType ==
  ASSUME NEW lower \in Entries, NEW upper \in Entries
  PROVE  Overlay(lower, upper) \in Entries
  BY DEF Overlay, Entries

LEMMA EntriesOfType ==
  ASSUME NEW file \in Catalog \union {NoFile}
  PROVE  EntriesOf(file) \in Entries
  BY DEF EntriesOf, NoEntries, Entries, Catalog

\* What each stage of a read has at hand.
Stage ==
  /\ read.at \in {"idle", "files", "own", "config"} => read.chain = <<>>
  /\ read.at \in {"idle", "files", "own"} => read.own = NoFile
  /\ read.at \in {"config", "walk", "merge"} => read.own \in Catalog
  /\ read.at \in {"walk", "merge"} => read.code \in read.visited
  /\ read.at = "merge" => read.left <= Len(read.chain)

ReadTypeInv == ReadTypeOK /\ Stage

LEMMA InitReadTypes == ReadInit => ReadTypeInv
<1> SUFFICES ASSUME ReadInit PROVE ReadTypeInv
  OBVIOUS
<1>1. NoEffect \in Effective
  <2>1. [l \in {} |-> NoLocale] \in [{} -> Settings]
    OBVIOUS
  <2>2. QED
    BY <2>1, DefaultAssumption DEF NoEffect, Effective
<1>2. NoEntries \in Entries
  BY DEF NoEntries, Entries
<1>3. read \in ReadType
  BY <1>1, <1>2, DefaultAssumption DEF ReadInit, ReadType
<1>4. QED
  BY <1>3 DEF ReadInit, ReadTypeInv, ReadTypeOK, Stage

LEMMA GetTypes ==
  ASSUME TypeInv, ReadTypeInv, NEW code \in Locale, NEW version \in Named \union {AnyVersion},
         Get(code, version)
  PROVE  ReadTypeInv'
<1>1. read' \in ReadType
  BY DEF ReadTypeInv, ReadTypeOK, ReadType, Get
<1>2. since' \in [Locale -> SUBSET (Catalog \union {NoFile})]
  BY DEF Get, TypeInv, TypeOK
<1>3. known' \subseteq Version
  BY DEF Get, TypeInv, TypeOK, Applied, Catalog
<1>4. Stage'
  BY DEF Get, ReadTypeInv, ReadTypeOK, ReadType, Stage
<1>5. QED
  BY <1>1, <1>2, <1>3, <1>4 DEF ReadTypeInv, ReadTypeOK

LEMMA StoreStepTypes ==
  ASSUME TypeInv', ReadTypeInv, StoreStep
  PROVE  ReadTypeInv'
<1>1. since' \in [Locale -> SUBSET (Catalog \union {NoFile})]
  BY DEF StoreStep, TypeInv, TypeOK, ReadTypeInv, ReadTypeOK
<1>2. QED
  BY <1>1 DEF StoreStep, ReadTypeInv, ReadTypeOK, Stage

LEMMA ReadFileTypes ==
  ASSUME TypeInv, ReadTypeInv, NEW l \in Locale, ReadFile(l)
  PROVE  ReadTypeInv'
<1>1. PICK found \in Catalog \union {NoFile} :
        read' = [read EXCEPT !.catalogs[l] = found, !.todo = @ \ {l},
                             !.at = IF read.todo = {l} THEN "own" ELSE "files"]
  BY DEF ReadFile, MayRead, TypeInv, TypeOK
<1>2. read' \in ReadType /\ Stage'
  BY <1>1 DEF ReadTypeInv, ReadTypeOK, ReadType, Stage, ReadFile
<1>3. QED
  BY <1>2 DEF ReadTypeInv, ReadTypeOK, ReadFile

LEMMA CandidateTypes ==
  ASSUME TypeInv, NEW mine \in Catalog
  PROVE  Candidates(mine) \subseteq Catalog \union {NoFile}
<1>1. \A s \in history : [version |-> s.version, entries |-> s.entries] \in Catalog
  BY DEF TypeInv, TypeOK, Snapshot, Catalog
<1>2. QED
  BY <1>1 DEF Candidates, Recorded

LEMMA PickOwnTypes ==
  ASSUME TypeInv, ReadTypeInv, PickOwn
  PROVE  ReadTypeInv'
<1> DEFINE mine == read.catalogs[read.code]
<1>1. mine \in Catalog \union {NoFile}
  BY DEF ReadTypeInv, ReadTypeOK, ReadType
<1>2. CASE NotFound
  <2>1. read' \in ReadType /\ Stage'
    BY <1>2 DEF NotFound, PickOwn, ReadTypeInv, ReadTypeOK, ReadType, Stage
  <2>2. QED
    BY <2>1 DEF ReadTypeInv, ReadTypeOK, PickOwn
<1>3. CASE \E own \in Catalog : read' = [read EXCEPT !.at = "config", !.own = own]
  <2>1. read \in ReadType /\ Stage /\ read.at = "own"
    BY DEF PickOwn, ReadTypeInv, ReadTypeOK
  <2>2. read' \in ReadType
    BY <1>3, <2>1 DEF ReadType
  <2>3. Stage'
    BY <1>3, <2>1 DEF ReadType, Stage
  <2>4. QED
    BY <2>2, <2>3 DEF ReadTypeInv, ReadTypeOK, PickOwn
<1>4. QED
  BY <1>1, <1>2, <1>3, CandidateTypes DEF PickOwn

LEMMA ReadConfigTypes ==
  ASSUME TypeInv, ReadTypeInv, ReadConfigFile
  PROVE  ReadTypeInv'
<1>1. PICK found \in Config \union {NoConfig} :
        LET cfg == EffectiveConfig(found, Present(read.catalogs))
        IN  read' = [read EXCEPT !.at = "walk", !.config = cfg, !.visited = {read.code},
                                 !.next = Fallback(cfg, read.code), !.chain = <<>>]
  BY DEF ReadConfigFile, MayRead, TypeInv, TypeOK
<1> DEFINE cfg == EffectiveConfig(found, Present(read.catalogs))
<1>2. cfg \in Effective
  BY EffectiveType DEF Present
<1>3. Fallback(cfg, read.code) \in Locale \union {NoLocale}
  BY <1>2, FallbackType
<1> HIDE DEF cfg
<1>4. read' = [read EXCEPT !.at = "walk", !.config = cfg, !.visited = {read.code},
                           !.next = Fallback(cfg, read.code), !.chain = <<>>]
  BY <1>1 DEF cfg
<1>5. read \in ReadType /\ Stage /\ read.at = "config"
  BY DEF ReadConfigFile, ReadTypeInv, ReadTypeOK
<1>6. read' \in ReadType
  <2>1. read' = [at |-> "walk", code |-> read.code, version |-> read.version, todo |-> read.todo,
                 catalogs |-> read.catalogs, own |-> read.own, config |-> cfg,
                 next |-> Fallback(cfg, read.code), visited |-> {read.code}, chain |-> <<>>,
                 left |-> read.left, merged |-> read.merged]
    BY <1>4, <1>5 DEF ReadType
  <2>2. QED
    BY <1>2, <1>3, <1>5, <2>1 DEF ReadType
<1>7. Stage'
  BY <1>4, <1>5 DEF ReadType, Stage
<1>8. QED
  BY <1>6, <1>7 DEF ReadTypeInv, ReadTypeOK, ReadConfigFile

LEMMA FollowTypes ==
  ASSUME ReadTypeInv, Follow
  PROVE  ReadTypeInv'
<1> DEFINE chain == IF Eligible(read.config, read.next) THEN Append(read.chain, read.next)
                    ELSE read.chain
<1>1. read \in ReadType /\ read.next \in Locale
  BY DEF ReadTypeInv, ReadTypeOK, ReadType, Follow
<1>2. chain \in Seq(Locale)
  BY <1>1 DEF ReadType
<1>3. Fallback(read.config, read.next) \in Locale \union {NoLocale}
  BY <1>1, FallbackType DEF ReadType
<1>4. read' = [read EXCEPT !.visited = @ \union {read.next}, !.chain = chain,
                           !.next = Fallback(read.config, read.next)]
  BY DEF Follow
<1> HIDE DEF chain
<1>5. read' \in ReadType
  BY <1>1, <1>2, <1>3, <1>4 DEF ReadType
<1>6. read.at = "walk" /\ Stage
  BY DEF Follow, ReadTypeInv
<1>7. read'.at = "walk" /\ read'.own = read.own /\ read'.code = read.code
        /\ read.visited \subseteq read'.visited
  BY <1>1, <1>4, <1>6 DEF ReadType
<1>8. Stage'
  BY <1>6, <1>7 DEF Stage
<1>9. QED
  BY <1>5, <1>8 DEF ReadTypeInv, ReadTypeOK, Follow

LEMMA EndWalkTypes ==
  ASSUME ReadTypeInv, EndWalk
  PROVE  ReadTypeInv'
<1> DEFINE default == read.config.default
           chain == IF default \in read.visited THEN read.chain ELSE Append(read.chain, default)
<1>1. read \in ReadType /\ default \in Locale
  BY DEF ReadTypeInv, ReadTypeOK, ReadType, Effective
<1>2. chain \in Seq(Locale) /\ Len(chain) \in Nat
  BY <1>1 DEF ReadType
<1>3. read' = [read EXCEPT !.at = "merge", !.visited = @ \union {default},
                           !.chain = chain, !.left = Len(chain), !.merged = NoEntries]
  BY DEF EndWalk
<1>4. NoEntries \in Entries
  BY DEF NoEntries, Entries
<1> HIDE DEF chain, default
<1>5. read' \in ReadType
  BY <1>1, <1>2, <1>3, <1>4 DEF ReadType
<1>6. read.at = "walk" /\ Stage
  BY DEF EndWalk, ReadTypeInv
<1>7. /\ read'.at = "merge" /\ read'.own = read.own /\ read'.code = read.code
      /\ read.visited \subseteq read'.visited
      /\ read'.left = Len(chain) /\ read'.chain = chain
  BY <1>1, <1>3, <1>6 DEF ReadType
<1>8. Stage'
  BY <1>2, <1>6, <1>7 DEF Stage
<1>9. QED
  BY <1>5, <1>8 DEF ReadTypeInv, ReadTypeOK, EndWalk

LEMMA MergeTypes ==
  ASSUME ReadTypeInv, MergeFallback \/ Answer
  PROVE  ReadTypeInv'
<1>1. read \in ReadType /\ Stage
  BY DEF ReadTypeInv, ReadTypeOK
<1>2. CASE MergeFallback
  <2>1. read.chain[read.left] \in Locale
    BY <1>1, <1>2 DEF ReadType, Stage, MergeFallback
  <2> DEFINE merged == Overlay(read.merged, EntriesOf(read.catalogs[read.chain[read.left]]))
  <2>2. merged \in Entries /\ read.left - 1 \in Nat
    BY <1>1, <1>2, <2>1, OverlayType, EntriesOfType DEF ReadType, MergeFallback
  <2>3. read' = [read EXCEPT !.merged = merged, !.left = read.left - 1]
    BY <1>2 DEF MergeFallback
  <2> HIDE DEF merged
  <2>4. read' \in ReadType
    BY <1>1, <2>2, <2>3 DEF ReadType
  <2>5. /\ read.at = "merge" /\ read'.at = "merge" /\ read'.own = read.own
        /\ read'.code = read.code /\ read'.visited = read.visited
        /\ read'.chain = read.chain /\ read'.left = read.left - 1
    BY <1>1, <1>2 DEF MergeFallback, ReadType
  <2>6. read.left \in Nat /\ Len(read.chain) \in Nat
    BY <1>1 DEF ReadType
  <2>7. Stage'
    BY <1>1, <2>5, <2>6 DEF Stage
  <2>8. QED
    BY <1>2, <2>4, <2>7 DEF ReadTypeInv, ReadTypeOK, MergeFallback
<1>3. CASE Answer
  <2>1. Overlay(read.merged, read.own.entries) \in Entries
    BY <1>1, <1>3, OverlayType DEF ReadType, Stage, Answer, Catalog
  <2>2. read' \in ReadType /\ Stage'
    BY <1>1, <1>3, <2>1 DEF Answer, ReadType, Stage
  <2>3. QED
    BY <1>3, <2>2 DEF ReadTypeInv, ReadTypeOK, Answer
<1>4. QED
  BY <1>2, <1>3

LEMMA ReadTypesPreserved ==
  TypeInv /\ TypeInv' /\ ReadTypeInv /\ [ReadNext]_allVars => ReadTypeInv'
<1> SUFFICES ASSUME TypeInv, TypeInv', ReadTypeInv, [ReadNext]_allVars
             PROVE  ReadTypeInv'
  OBVIOUS
<1>1. CASE UNCHANGED allVars
  BY <1>1 DEF allVars, readVars, ReadTypeInv, ReadTypeOK, Stage
<1>2. CASE ReadStep
  BY <1>2, ReadFileTypes, PickOwnTypes, ReadConfigTypes, FollowTypes, EndWalkTypes, MergeTypes
     DEF ReadStep
<1>3. QED
  BY <1>1, <1>2, GetTypes, StoreStepTypes DEF ReadNext

LEMMA ReadTypeInvariant == ReadSpec => []ReadTypeInv
<1>1. ReadSpec => []TypeInv
  BY StoreBesideReads, TypeInvariant
<1>2. QED
  BY <1>1, InitReadTypes, ReadTypesPreserved, PTL DEF ReadSpec

\* Types of the read's variables, at every point of a read: nothing but
\* locales in the chain, catalogs where there is one to merge (ReadCatalog).
THEOREM ReadTypeCorrect == ReadSpec => []ReadTypeOK
<1>1. ReadTypeInv => ReadTypeOK
  BY DEF ReadTypeInv
<1>2. QED
  BY <1>1, ReadTypeInvariant, PTL

-----------------------------------------------------------------------------
(* The chain.                                                              *)

\* What is in the chain was visited, and visited once.
ChainInv ==
  /\ \A i \in DOMAIN read.chain : read.chain[i] \in read.visited
  /\ ChainHasNoRepeats

LEMMA AppendKeepsChain ==
  ASSUME NEW chain \in Seq(Locale), NEW l \in Locale, NEW code, NEW visited,
         \A i \in DOMAIN chain : chain[i] \in visited,
         \A i, j \in DOMAIN chain : i # j => chain[i] # chain[j],
         \A i \in DOMAIN chain : chain[i] # code,
         l \notin visited, code \in visited
  PROVE  LET longer == Append(chain, l)
         IN  /\ \A i \in DOMAIN longer : longer[i] \in visited \union {l}
             /\ \A i, j \in DOMAIN longer : i # j => longer[i] # longer[j]
             /\ \A i \in DOMAIN longer : longer[i] # code
<1> DEFINE longer == Append(chain, l)
<1>1. DOMAIN longer = 1..(Len(chain) + 1) /\ DOMAIN chain = 1..Len(chain) /\ Len(chain) \in Nat
  OBVIOUS
<1>2. \A i \in DOMAIN longer : IF i \in DOMAIN chain THEN longer[i] = chain[i]
                               ELSE i = Len(chain) + 1 /\ longer[i] = l
  BY <1>1
<1> HIDE DEF longer
<1>3. QED
  BY <1>1, <1>2 DEF longer

LEMMA ChainPreserved ==
  ReadTypeInv /\ ChainInv /\ [ReadNext]_allVars => ChainInv'
<1> SUFFICES ASSUME ReadTypeInv, ChainInv, [ReadNext]_allVars PROVE ChainInv'
  OBVIOUS
<1>1. read \in ReadType /\ Stage
  BY DEF ReadTypeInv, ReadTypeOK
<1>2. CASE read'.chain = read.chain /\ read'.code = read.code /\ read.visited \subseteq read'.visited
  BY <1>2 DEF ChainInv, ChainHasNoRepeats
<1>3. CASE read'.chain = <<>>
  BY <1>3 DEF ChainInv, ChainHasNoRepeats
<1>4. ASSUME NEW l \in Locale, read.at = "walk", l \notin read.visited,
             read'.chain = Append(read.chain, l), read'.code = read.code,
             read'.visited = read.visited \union {l}
      PROVE  ChainInv'
  <2>1. read.chain \in Seq(Locale) /\ read.code \in read.visited
    BY <1>1, <1>4 DEF ReadType, Stage
  <2>2. QED
    BY <1>4, <2>1, AppendKeepsChain DEF ChainInv, ChainHasNoRepeats
<1>5. CASE UNCHANGED read
  BY <1>2, <1>5
<1>6. CASE \E code \in Locale, version \in Named \union {AnyVersion} : Get(code, version)
  BY <1>1, <1>3, <1>6 DEF Get, ReadType, Stage
<1>7. CASE \E l \in Locale : ReadFile(l)
  BY <1>1, <1>2, <1>7 DEF ReadFile, ReadType
<1>8. CASE PickOwn
  BY <1>1, <1>2, <1>8 DEF PickOwn, NotFound, ReadType
<1>9. CASE ReadConfigFile
  BY <1>1, <1>3, <1>9 DEF ReadConfigFile, ReadType
<1>10. CASE Follow
  <2>1. read.next \in Locale /\ read.next \notin read.visited /\ read.at = "walk"
    BY <1>1, <1>10 DEF Follow, ReadType
  <2>2. CASE Eligible(read.config, read.next)
    BY <1>1, <1>4, <1>10, <2>1, <2>2 DEF Follow, ReadType
  <2>3. CASE ~Eligible(read.config, read.next)
    BY <1>1, <1>2, <1>10, <2>3 DEF Follow, ReadType
  <2>4. QED
    BY <2>2, <2>3
<1>11. CASE EndWalk
  <2>1. read.config.default \in Locale /\ read.at = "walk"
    BY <1>1, <1>11 DEF EndWalk, ReadType, Effective
  <2>2. CASE read.config.default \in read.visited
    BY <1>1, <1>2, <1>11, <2>2 DEF EndWalk, ReadType
  <2>3. CASE read.config.default \notin read.visited
    BY <1>1, <1>4, <1>11, <2>1, <2>3 DEF EndWalk, ReadType
  <2>4. QED
    BY <2>2, <2>3
<1>12. CASE MergeFallback \/ Answer
  BY <1>1, <1>2, <1>12 DEF MergeFallback, Answer, ReadType
<1>13. QED
  BY <1>5, <1>6, <1>7, <1>8, <1>9, <1>10, <1>11, <1>12
     DEF ReadNext, ReadStep, StoreStep, allVars, readVars

\* Whatever cycles the configuration has, no locale is merged twice, nor the
\* one that was asked for as its own fallback (FallbackChain).
THEOREM ChainNeverRepeats == ReadSpec => []ChainHasNoRepeats
<1>1. ReadInit => ChainInv
  BY DEF ReadInit, ChainInv, ChainHasNoRepeats
<1>2. ChainInv => ChainHasNoRepeats
  BY DEF ChainInv
<1>3. QED
  BY <1>1, <1>2, ChainPreserved, ReadTypeInvariant, PTL DEF ReadSpec

-----------------------------------------------------------------------------
(* The chain against its reference.  Path is a recursive function: that it  *)
(* has a value, and what is true all along it, is shown by taking the least *)
(* index at which it would fail.                                            *)

LEMMA Least ==
  ASSUME NEW T, T \subseteq Nat, T # {}
  PROVE  \E n \in T : \A m \in T : n <= m
<1>1. IsWellFoundedOn({p \in Nat \X Nat : p[1] < p[2]}, Nat)
  BY NatLessThanWellFounded DEF OpToRel
<1>2. PICK n \in T : \A m \in T : ~ (<<m, n>> \in {p \in Nat \X Nat : p[1] < p[2]})
  BY <1>1, WFMin
<1>3. \A m \in T : <<m, n>> \in Nat \X Nat
  OBVIOUS
<1>4. \A m \in T : ~ (m < n)
  BY <1>2, <1>3
<1>5. QED
  BY <1>4, SMT

\* From l, one fallback on.
Onward(cfg, l) == IF l = NoLocale THEN NoLocale ELSE Fallback(cfg, l)

PathOf(f, code, cfg, m) ==
  f = [n \in 0..m |-> IF n = 0 THEN code ELSE Onward(cfg, f[n - 1])]

LEMMA APathExists ==
  ASSUME NEW N \in Nat, NEW code, NEW cfg
  PROVE  \E f : PathOf(f, code, cfg, N)
<1> DEFINE IsPath(f, m) == PathOf(f, code, cfg, m)
           Failing == {m \in Nat : ~ \E f : IsPath(f, m)}
<1>1. SUFFICES Failing = {}
  OBVIOUS
<1>2. SUFFICES ASSUME Failing # {} PROVE FALSE
  OBVIOUS
<1>3. PICK m \in Failing : \A k \in Failing : m <= k
  <2>1. Failing \subseteq Nat
    OBVIOUS
  <2> HIDE DEF Failing
  <2>2. QED
    BY <1>2, <2>1, Least
<1>4. m # 0
  <2>1. IsPath([n \in 0..0 |-> code], 0)
    BY DEF PathOf
  <2> HIDE DEF IsPath
  <2>2. QED
    BY <2>1
<1>5. PICK f : IsPath(f, m - 1)
  <2>1. m - 1 \in Nat /\ m - 1 < m
    BY <1>4
  <2>2. m - 1 \notin Failing
    <3>1. m \in Nat
      OBVIOUS
    <3> HIDE DEF Failing
    <3>2. QED
      BY <1>3, <2>1, <3>1
  <2> HIDE DEF IsPath
  <2>3. QED
    BY <2>1, <2>2
<1> DEFINE g == [n \in 0..m |-> IF n = m THEN Onward(cfg, f[m - 1]) ELSE f[n]]
<1>6. \A n \in 0..(m - 1) : f[n] = IF n = 0 THEN code ELSE Onward(cfg, f[n - 1])
  BY <1>5 DEF PathOf
<1>7. \A n \in 0..m : g[n] = IF n = 0 THEN code ELSE Onward(cfg, g[n - 1])
  <2> TAKE n \in 0..m
  <2>1. m \in Nat /\ n \in Nat
    OBVIOUS
  <2>2. CASE n = m
    <3>1. m - 1 \in 0..m /\ m - 1 # m
      BY <1>4, <2>1
    <3>2. g[m - 1] = f[m - 1] /\ g[m] = Onward(cfg, f[m - 1])
      BY <2>1, <3>1
    <3> HIDE DEF g
    <3>3. QED
      BY <1>4, <2>2, <3>2
  <2>3. CASE n # m
    <3>1. n \in 0..(m - 1) /\ g[n] = f[n]
      BY <2>1, <2>3
    <3>2. n # 0 => n - 1 \in 0..m /\ n - 1 # m
      BY <2>1, <3>1
    <3>3. n # 0 => g[n - 1] = f[n - 1]
      BY <3>2
    <3> HIDE DEF g
    <3>4. QED
      BY <1>6, <3>1, <3>3
  <2>4. QED
    BY <2>2, <2>3
<1>8. IsPath(g, m)
  <2>1. g = [n \in 0..m |-> g[n]]
    OBVIOUS
  <2> HIDE DEF g
  <2>2. QED
    BY <1>7, <2>1 DEF PathOf
<1> HIDE DEF IsPath, g
<1>9. QED
  BY <1>3, <1>8

Span == Cardinality(Locale)

LEMMA SpanType == Span \in Nat
  BY LocalesAssumption, FS_CardinalityType DEF Span

\* What the definition of Path says of its values.
PathIsRight ==
  /\ DOMAIN Path = 0..Span
  /\ Path[0] = read.code
  /\ \A n \in 1..Span : Path[n] = Onward(read.config, Path[n - 1])

LEMMA PathValues == PathIsRight
<1> DEFINE IsPath(f) == PathOf(f, read.code, read.config, Span)
<1>1. \E f : IsPath(f)
  BY SpanType, APathExists
<1>2. Path = CHOOSE f : IsPath(f)
  BY DEF Path, Onward, Span, PathOf
<1>3. IsPath(Path)
  <2> HIDE DEF IsPath
  <2>1. QED
    BY <1>1, <1>2
<1>4. QED
  BY <1>3, SpanType DEF PathOf, PathIsRight

LEMMA PathValuesNext == PathIsRight'
  BY PathValues, PTL

\* The Path of a read stays what it is while its code and config do.
LEMMA PathKept ==
  ASSUME read'.code = read.code, read'.config = read.config
  PROVE  Path' = Path
  BY DEF Path, Fallback

LEMMA ReferenceKept ==
  ASSUME ChainIsReference, read.at \in {"merge", "done"},
         read'.code = read.code, read'.config = read.config,
         read'.chain = read.chain, read'.visited = read.visited
  PROVE  ChainIsReference'
<1>1. Path' = Path
  BY PathKept
<1>2. Reached' = Reached
  BY <1>1 DEF Reached
<1>3. \A l : Hops(l)' = Hops(l)
  BY <1>1, <1>2 DEF Hops
<1>4. QED
  BY <1>2, <1>3 DEF ChainIsReference, Eligible

\* The order of a chain is that of a path of k + 1 locales.
Along(chain, path, k) ==
  \A i, j \in DOMAIN chain : i < j =>
    \A m, n \in 0..k : chain[i] = path[m] /\ chain[j] = path[n] => m < n

LEMMA AppendAlong ==
  ASSUME NEW chain \in Seq(Locale), NEW path, NEW k \in Nat, Along(chain, path, k),
         \A i \in DOMAIN chain : \E m \in 0..k : chain[i] = path[m],
         \A m \in 0..k : path[m] # path[k + 1]
  PROVE  /\ Along(chain, path, k + 1)
         /\ Along(Append(chain, path[k + 1]), path, k + 1)
<1> DEFINE longer == Append(chain, path[k + 1])
<1>1. DOMAIN longer = 1..(Len(chain) + 1) /\ DOMAIN chain = 1..Len(chain) /\ Len(chain) \in Nat
  OBVIOUS
<1>2. \A i \in DOMAIN longer : IF i \in DOMAIN chain THEN longer[i] = chain[i]
                               ELSE i = Len(chain) + 1 /\ longer[i] = path[k + 1]
  BY <1>1
<1>3. \A i \in DOMAIN chain : chain[i] # path[k + 1]
  OBVIOUS
<1>4. \A m \in 0..(k + 1) : m \in 0..k \/ m = k + 1
  OBVIOUS
<1> HIDE DEF longer
<1>5. Along(chain, path, k + 1)
  BY <1>3, <1>4 DEF Along
<1>6. Along(longer, path, k + 1)
  <2> SUFFICES ASSUME NEW i \in DOMAIN longer, NEW j \in DOMAIN longer, i < j,
                      NEW m \in 0..(k + 1), NEW n \in 0..(k + 1),
                      longer[i] = path[m], longer[j] = path[n]
               PROVE  m < n
    BY DEF Along
  <2>1. i \in DOMAIN chain /\ longer[i] = chain[i]
    BY <1>1, <1>2
  <2>2. m \in 0..k
    BY <1>3, <1>4, <2>1
  <2>3. CASE j \in DOMAIN chain
    <3>1. longer[j] = chain[j] /\ n \in 0..k
      BY <1>2, <1>3, <1>4, <2>3
    <3>2. QED
      BY <2>1, <2>2, <2>3, <3>1 DEF Along
  <2>4. CASE j \notin DOMAIN chain
    <3>1. path[n] = path[k + 1]
      BY <1>2, <2>4
    <3>2. n \notin 0..k
      BY <3>1
    <3>3. QED
      BY <1>4, <2>2, <3>2
  <2>5. QED
    BY <2>3, <2>4
<1>7. QED
  BY <1>5, <1>6 DEF longer

\* After k fallbacks: what was visited, what is next, and what is listed of it.
WalkAt(k) ==
  /\ Cardinality(read.visited) = k + 1
  /\ read.visited = {Path[i] : i \in 0..k}
  /\ \A i, j \in 0..k : Path[i] = Path[j] => i = j
  /\ read.next = Path[k + 1]
  /\ {read.chain[i] : i \in DOMAIN read.chain} =
       {l \in read.visited \ {read.code} : Eligible(read.config, l)}
  /\ Along(read.chain, Path, k)

\* ChainIsReference with what the walk knows before it is over.
ReferenceInv ==
  /\ read.at \in {"idle", "files", "own", "config"} => read.visited = {}
  /\ read.at = "walk" => \E k \in Nat : WalkAt(k)
  /\ ChainIsReference

\* As many steps as there are locales visited: the walk is within the path.
LEMMA WalkWithinPath ==
  ASSUME ReadTypeInv, NEW k \in Nat, WalkAt(k)
  PROVE  k + 1 \in 1..Span /\ \A i \in 0..k : Path[i] \in Locale
<1>1. read.visited \in SUBSET Locale
  BY DEF ReadTypeInv, ReadTypeOK, ReadType
<1>2. Cardinality(read.visited) <= Span
  BY <1>1, LocalesAssumption, FS_Subset DEF Span
<1>3. k + 1 <= Span
  BY <1>2 DEF WalkAt
<1>4. QED
  BY <1>1, <1>3, SpanType DEF WalkAt

LEMMA WalkBegins ==
  ASSUME ReadTypeInv, ReadConfigFile
  PROVE  WalkAt(0)'
<1>1. read \in ReadType /\ read.code \in Locale
  BY DEF ReadTypeInv, ReadTypeOK, ReadType
<1>2. PICK cfg : read' = [read EXCEPT !.at = "walk", !.config = cfg, !.visited = {read.code},
                                      !.next = Fallback(cfg, read.code), !.chain = <<>>]
  BY DEF ReadConfigFile
<1>3. /\ read'.visited = {read.code} /\ read'.code = read.code /\ read'.chain = <<>>
      /\ read'.config = cfg /\ read'.next = Fallback(cfg, read.code)
  BY <1>1, <1>2 DEF ReadType
<1>4. Path'[0] = read.code
  BY <1>3, PathValuesNext DEF PathIsRight
<1>5. 1 \in 1..Span
  <2>1. Span # 0
    BY <1>1, LocalesAssumption, FS_EmptySet DEF Span
  <2>2. QED
    BY <2>1, SpanType
<1>6. Path'[0 + 1] = read'.next
  <2>1. Path'[1] = Onward(cfg, Path'[1 - 1])
    BY <1>3, <1>5, PathValuesNext DEF PathIsRight
  <2>2. 1 - 1 = 0 /\ 0 + 1 = 1 /\ read.code # NoLocale
    BY <1>1, SentinelAssumption
  <2>3. QED
    BY <1>3, <1>4, <2>1, <2>2 DEF Onward
<1>7. Cardinality(read'.visited) = 0 + 1
  <2>1. Cardinality({} \union {read.code}) = 0 + 1
    BY FS_EmptySet, FS_AddElement
  <2>2. QED
    BY <1>3, <2>1
<1>8. 0..0 = {0}
  OBVIOUS
<1>9. QED
  BY <1>3, <1>4, <1>6, <1>7, <1>8 DEF WalkAt, Along

LEMMA WalkGoesOn ==
  ASSUME ReadTypeInv, NEW k \in Nat, WalkAt(k), Follow
  PROVE  WalkAt(k + 1)'
<1> DEFINE l == read.next
<1>1. read \in ReadType /\ l \in Locale /\ l \notin read.visited /\ read.code \in read.visited
  BY DEF ReadTypeInv, ReadTypeOK, ReadType, Stage, Follow
<1>2. /\ read'.visited = read.visited \union {l}
      /\ read'.code = read.code /\ read'.config = read.config
      /\ read'.next = Fallback(read.config, l)
      /\ read'.chain = IF Eligible(read.config, l) THEN Append(read.chain, l) ELSE read.chain
  BY <1>1 DEF Follow, ReadType
<1>3. Path' = Path
  BY <1>2, PathKept
<1>4. l = Path[k + 1]
  BY DEF WalkAt
<1>5. Cardinality(read'.visited) = (k + 1) + 1
  <2>1. IsFiniteSet(read.visited)
    BY <1>1, LocalesAssumption, FS_Subset DEF ReadType
  <2>2. Cardinality(read.visited \union {l}) = Cardinality(read.visited) + 1
    BY <1>1, <2>1, FS_AddElement
  <2>3. QED
    BY <1>2, <2>2 DEF WalkAt
<1>6. (k + 1) + 1 \in 1..Span
  <2>1. read'.visited \in SUBSET Locale
    BY <1>1, <1>2 DEF ReadType
  <2>2. Cardinality(read'.visited) <= Span
    BY <2>1, LocalesAssumption, FS_Subset DEF Span
  <2>3. QED
    BY <1>5, <2>2, SpanType
<1>7. \A m \in 0..(k + 1) : m \in 0..k \/ m = k + 1
  OBVIOUS
<1>8. \A m \in 0..k : Path[m] # Path[k + 1]
  BY <1>1, <1>4 DEF WalkAt
<1>9. read'.visited = {Path[i] : i \in 0..(k + 1)}
  BY <1>2, <1>4, <1>7 DEF WalkAt
<1>10. \A i, j \in 0..(k + 1) : Path[i] = Path[j] => i = j
  BY <1>7, <1>8 DEF WalkAt
<1>11. read'.next = Path[(k + 1) + 1]
  <2>1. Path[(k + 1) + 1] = Onward(read.config, Path[((k + 1) + 1) - 1])
    BY <1>6, PathValues DEF PathIsRight
  <2>2. ((k + 1) + 1) - 1 = k + 1
    OBVIOUS
  <2>3. l # NoLocale
    BY <1>1, SentinelAssumption
  <2>4. QED
    BY <1>2, <1>4, <2>1, <2>2, <2>3 DEF Onward
<1>12. read.chain \in Seq(Locale)
         /\ \A i \in DOMAIN read.chain : \E m \in 0..k : read.chain[i] = Path[m]
  <2>1. \A i \in DOMAIN read.chain : read.chain[i] \in read.visited
    BY DEF WalkAt
  <2>2. QED
    BY <1>1, <2>1 DEF ReadType, WalkAt
<1>13. Along(read'.chain, Path, k + 1)
  BY <1>2, <1>4, <1>8, <1>12, AppendAlong DEF WalkAt
<1>14. {read'.chain[i] : i \in DOMAIN read'.chain} =
         {x \in read'.visited \ {read.code} : Eligible(read.config, x)}
  <2>1. {read.chain[i] : i \in DOMAIN read.chain} =
          {x \in read.visited \ {read.code} : Eligible(read.config, x)}
    BY DEF WalkAt
  <2>2. CASE Eligible(read.config, l)
    <3>1. {read'.chain[i] : i \in DOMAIN read'.chain} =
            {read.chain[i] : i \in DOMAIN read.chain} \union {l}
      <4>1. read'.chain = Append(read.chain, l) /\ DOMAIN read.chain = 1..Len(read.chain)
              /\ Len(read.chain) \in Nat
        BY <1>2, <1>12, <2>2
      <4>2. DOMAIN read'.chain = 1..(Len(read.chain) + 1)
        BY <1>12, <4>1
      <4>3. \A i \in DOMAIN read'.chain :
              IF i \in DOMAIN read.chain THEN read'.chain[i] = read.chain[i]
              ELSE i = Len(read.chain) + 1 /\ read'.chain[i] = l
        BY <1>12, <4>1, <4>2
      <4>4. Len(read.chain) + 1 \in DOMAIN read'.chain \ DOMAIN read.chain
        BY <4>1, <4>2
      <4>5. DOMAIN read.chain \subseteq DOMAIN read'.chain
        BY <4>1, <4>2
      <4>6. QED
        BY <4>3, <4>4, <4>5
    <3>2. QED
      BY <1>1, <1>2, <2>1, <2>2, <3>1
  <2>3. CASE ~Eligible(read.config, l)
    BY <1>1, <1>2, <2>1, <2>3
  <2>4. QED
    BY <2>2, <2>3
<1>15. \A x : Eligible(read'.config, x) <=> Eligible(read.config, x)
  BY <1>2
<1>16. read'.visited = {Path'[i] : i \in 0..(k + 1)}
  BY <1>3, <1>9
<1>17. \A i, j \in 0..(k + 1) : Path'[i] = Path'[j] => i = j
  BY <1>3, <1>10
<1>18. {read'.chain[i] : i \in DOMAIN read'.chain} =
         {x \in read'.visited \ {read'.code} : Eligible(read'.config, x)}
  BY <1>2, <1>14, <1>15
<1>19. Along(read'.chain, Path', k + 1) /\ read'.next = Path'[(k + 1) + 1]
  BY <1>3, <1>11, <1>13
<1>20. QED
  BY <1>5, <1>16, <1>17, <1>18, <1>19 DEF WalkAt, Along, Eligible

\* When nothing new is next, nothing else is on the path: what is reached is
\* what was visited, and the distance of a locale is its place in the path.
LEMMA WalkReachesAll ==
  ASSUME ReadTypeInv, NEW k \in Nat, WalkAt(k), read.next \in read.visited \union {NoLocale}
  PROVE  Reached = read.visited
<1>1. k + 1 \in 1..Span /\ \A i \in 0..k : Path[i] \in Locale
  BY WalkWithinPath
<1>2. read.visited = {Path[i] : i \in 0..k} /\ DOMAIN Path = 0..Span
  BY PathValues DEF WalkAt, PathIsRight
<1>3. 0..k \subseteq 0..Span /\ 0 \in 0..k
  BY <1>1, SpanType
<1> DEFINE inside == read.visited \union {NoLocale}
           Outside == {n \in 0..Span : Path[n] \notin inside}
<1>4. ASSUME NEW i \in 0..k
      PROVE  Onward(read.config, Path[i]) \in inside
  <2>1. i + 1 \in 1..Span /\ (i + 1) - 1 = i
    BY <1>1, SpanType
  <2>2. Path[i + 1] = Onward(read.config, Path[i])
    BY <2>1, PathValues DEF PathIsRight
  <2>3. CASE i = k
    BY <2>2, <2>3 DEF WalkAt
  <2>4. CASE i # k
    <3>1. i + 1 \in 0..k
      BY <2>4
    <3>2. QED
      BY <1>2, <2>2, <3>1
  <2>5. QED
    BY <2>3, <2>4
<1>5. Outside = {}
  <2>1. SUFFICES ASSUME Outside # {} PROVE FALSE
    OBVIOUS
  <2>2. Outside \subseteq Nat
    BY SpanType
  <2>3. PICK n \in Outside : \A m \in Outside : n <= m
    <3> HIDE DEF Outside
    <3>1. QED
      BY <2>1, <2>2, Least
  <2>4. n \in 0..Span /\ Path[n] \notin inside
    OBVIOUS
  <2>5. n # 0
    BY <1>2, <1>3, <2>4
  <2>6. n \in 1..Span /\ n - 1 \in 0..Span /\ n - 1 < n
    BY <2>4, <2>5, SpanType
  <2>7. Path[n - 1] \in inside
    <3>1. n - 1 \notin Outside
      <4>1. n \in Nat
        BY <2>4
      <4> HIDE DEF Outside
      <4>2. QED
        BY <2>3, <2>6, <4>1
    <3>2. QED
      BY <2>6, <3>1
  <2>8. Path[n] = Onward(read.config, Path[n - 1])
    BY <2>6, PathValues DEF PathIsRight
  <2>9. CASE Path[n - 1] = NoLocale
    BY <2>4, <2>8, <2>9 DEF Onward
  <2>10. CASE Path[n - 1] \in read.visited
    <3>1. PICK i \in 0..k : Path[n - 1] = Path[i]
      BY <1>2, <2>10
    <3>2. Path[n] \in inside
      BY <1>4, <2>8, <3>1
    <3>3. QED
      BY <2>4, <3>2
  <2>11. QED
    BY <2>7, <2>9, <2>10
<1>6. Reached \subseteq read.visited
  BY <1>2, <1>5 DEF Reached
<1>7. read.visited \subseteq Reached
  <2>1. \A i \in 0..k : Path[i] # NoLocale
    BY <1>1, SentinelAssumption
  <2>2. QED
    BY <1>2, <1>3, <2>1 DEF Reached
<1>8. QED
  BY <1>6, <1>7

LEMMA HopsOnPath ==
  ASSUME ReadTypeInv, NEW k \in Nat, WalkAt(k), NEW m \in 0..k
  PROVE  Hops(Path[m]) = m
<1> DEFINE IsHop(n) == Path[n] = Path[m] /\ \A i \in 0..(n - 1) : Path[i] # Path[m]
<1>1. k + 1 \in 1..Span /\ \A i \in 0..k : Path[i] \in Locale
  BY WalkWithinPath
<1>2. m \in DOMAIN Path /\ DOMAIN Path = 0..Span
  BY <1>1, SpanType, PathValues DEF PathIsRight
<1>3. Path[m] \in Reached
  BY <1>1, <1>2, SentinelAssumption DEF Reached
<1>4. IsHop(m)
  <2>1. \A i \in 0..(m - 1) : i \in 0..k /\ i # m
    OBVIOUS
  <2>2. QED
    BY <2>1 DEF WalkAt
<1>5. \A n \in DOMAIN Path : IsHop(n) => n = m
  <2> SUFFICES ASSUME NEW n \in DOMAIN Path, IsHop(n) PROVE n = m
    OBVIOUS
  <2>1. n \in 0..Span
    BY <1>2
  <2>2. n <= m
    <3>1. SUFFICES ASSUME m < n PROVE FALSE
      BY <2>1, SpanType
    <3>2. m \in 0..(n - 1)
      BY <2>1, <3>1, SpanType
    <3>3. QED
      BY <3>2
  <2>3. n \in 0..k
    BY <2>1, <2>2
  <2>4. QED
    BY <2>3 DEF WalkAt
<1>6. Hops(Path[m]) = CHOOSE n \in DOMAIN Path : IsHop(n)
  BY <1>3 DEF Hops
<1> HIDE DEF IsHop
<1>7. QED
  BY <1>2, <1>4, <1>5, <1>6

LEMMA WalkEndsRight ==
  ASSUME ReadTypeInv, NEW k \in Nat, WalkAt(k), EndWalk
  PROVE  ChainIsReference'
<1> DEFINE default == read.config.default
<1>1. read \in ReadType /\ default \in Locale /\ read.chain \in Seq(Locale)
  BY DEF ReadTypeInv, ReadTypeOK, ReadType, Effective
<1>2. /\ read'.code = read.code /\ read'.config = read.config
      /\ read'.chain = IF default \in read.visited THEN read.chain
                       ELSE Append(read.chain, default)
  BY <1>1 DEF EndWalk, ReadType
<1>3. Path' = Path
  BY <1>2, PathKept
<1>4. Reached = read.visited /\ read.visited = {Path[i] : i \in 0..k}
  BY WalkReachesAll DEF EndWalk, WalkAt
<1>5. Reached' = Reached
  BY <1>3 DEF Reached
<1>6. \A l : Hops(l)' = Hops(l)
  BY <1>3, <1>5 DEF Hops
<1>7. DOMAIN read.chain = 1..Len(read.chain) /\ Len(read.chain) \in Nat
  BY <1>1
<1>8. {read.chain[i] : i \in DOMAIN read.chain} =
        {l \in Reached \ {read.code} : Eligible(read.config, l)}
  BY <1>4 DEF WalkAt
<1>9. \A i \in DOMAIN read.chain : \E m \in 0..k : read.chain[i] = Path[m]
  BY <1>4, <1>8
<1>10. \A i, j \in DOMAIN read.chain : i < j => Hops(read.chain[i]) < Hops(read.chain[j])
  <2> SUFFICES ASSUME NEW i \in DOMAIN read.chain, NEW j \in DOMAIN read.chain, i < j
               PROVE  Hops(read.chain[i]) < Hops(read.chain[j])
    OBVIOUS
  <2>1. PICK m \in 0..k, n \in 0..k : read.chain[i] = Path[m] /\ read.chain[j] = Path[n]
    BY <1>9
  <2>2. m < n
    BY <2>1 DEF WalkAt, Along
  <2>3. QED
    BY <2>1, <2>2, HopsOnPath
<1>11. /\ {read'.chain[i] : i \in DOMAIN read'.chain} =
            {l \in Reached \ {read.code} : Eligible(read.config, l)} \union ({default} \ Reached)
       /\ \A i, j \in DOMAIN read'.chain : i < j => Hops(read'.chain[i]) < Hops(read'.chain[j])
  <2>1. CASE default \in read.visited
    BY <1>2, <1>4, <1>8, <1>10, <2>1
  <2>2. CASE default \notin read.visited
    <3>1. read'.chain = Append(read.chain, default)
      BY <1>2, <2>2
    <3>2. DOMAIN read'.chain = 1..(Len(read.chain) + 1)
      BY <1>1, <1>7, <3>1
    <3>3. \A i \in DOMAIN read'.chain :
            IF i \in DOMAIN read.chain THEN read'.chain[i] = read.chain[i]
            ELSE i = Len(read.chain) + 1 /\ read'.chain[i] = default
      BY <1>1, <1>7, <3>1, <3>2
    <3>4. /\ Len(read.chain) + 1 \in DOMAIN read'.chain \ DOMAIN read.chain
          /\ DOMAIN read.chain \subseteq DOMAIN read'.chain
      BY <1>7, <3>2
    <3>5. {read'.chain[i] : i \in DOMAIN read'.chain} =
            {read.chain[i] : i \in DOMAIN read.chain} \union {default}
      BY <3>3, <3>4
    <3>6. Hops(default) = Span + 1
      BY <1>4, <2>2 DEF Hops, Span
    <3>7. \A i \in DOMAIN read.chain : Hops(read.chain[i]) \in Nat /\ Hops(read.chain[i]) < Span + 1
      <4>1. k + 1 \in 1..Span
        BY WalkWithinPath
      <4>2. QED
        BY <1>9, <4>1, HopsOnPath, SpanType
    <3>8. \A i, j \in DOMAIN read'.chain : i < j => Hops(read'.chain[i]) < Hops(read'.chain[j])
      <4> SUFFICES ASSUME NEW i \in DOMAIN read'.chain, NEW j \in DOMAIN read'.chain, i < j
                   PROVE  Hops(read'.chain[i]) < Hops(read'.chain[j])
        OBVIOUS
      <4>1. i \in DOMAIN read.chain /\ read'.chain[i] = read.chain[i]
        BY <1>7, <3>2, <3>3
      <4>2. CASE j \in DOMAIN read.chain
        BY <1>10, <3>3, <4>1, <4>2
      <4>3. CASE j \notin DOMAIN read.chain
        <5>1. read'.chain[j] = default
          BY <3>3, <4>3
        <5>2. QED
          BY <3>6, <3>7, <4>1, <5>1
      <4>4. QED
        BY <4>2, <4>3
    <3>9. QED
      BY <1>4, <1>8, <2>2, <3>5, <3>8
  <2>3. QED
    BY <2>1, <2>2
<1>12. \A l : Eligible(read'.config, l) <=> Eligible(read.config, l)
  BY <1>2
<1>13. QED
  BY <1>2, <1>5, <1>6, <1>11, <1>12 DEF ChainIsReference, Eligible

LEMMA ReferencePreserved ==
  ReadTypeInv /\ ReferenceInv /\ [ReadNext]_allVars => ReferenceInv'
<1> SUFFICES ASSUME ReadTypeInv, ReferenceInv, [ReadNext]_allVars PROVE ReferenceInv'
  OBVIOUS
<1>1. read \in ReadType /\ Stage
  BY DEF ReadTypeInv, ReadTypeOK
<1>2. CASE read'.at \notin {"walk", "merge", "done"} /\ read'.visited = {}
  BY <1>2 DEF ReferenceInv, ChainIsReference
<1>3. CASE UNCHANGED read
  <2>1. Path' = Path
    BY <1>3, PathKept
  <2>2. \A k \in Nat : WalkAt(k) => WalkAt(k)'
    BY <1>3, <2>1 DEF WalkAt, Eligible, Along
  <2>3. ChainIsReference'
    <3>1. CASE read.at \in {"merge", "done"}
      BY <1>3, <3>1, ReferenceKept DEF ReferenceInv
    <3>2. CASE read.at \notin {"merge", "done"}
      BY <1>3, <3>2 DEF ChainIsReference
    <3>3. QED
      BY <3>1, <3>2
  <2>4. QED
    BY <1>3, <2>2, <2>3 DEF ReferenceInv
<1>4. CASE \/ \E code \in Locale, version \in Named \union {AnyVersion} : Get(code, version)
           \/ \E l \in Locale : ReadFile(l)
  BY <1>1, <1>2, <1>4 DEF Get, ReadFile, ReadType, ReferenceInv
<1>5. CASE PickOwn
  <2>1. read.visited = {} /\ read'.visited = {} /\ read'.at \in {"config", "done"}
    BY <1>1, <1>5 DEF PickOwn, NotFound, ReadType, ReferenceInv
  <2>2. QED
    BY <2>1 DEF ReferenceInv, ChainIsReference
<1>6. CASE ReadConfigFile
  <2>1. read'.at = "walk"
    BY <1>1, <1>6 DEF ReadConfigFile, ReadType
  <2>2. WalkAt(0)'
    BY <1>6, WalkBegins
  <2>3. QED
    BY <2>1, <2>2 DEF ReferenceInv, ChainIsReference
<1>7. CASE Follow
  <2>1. read'.at = "walk" /\ read.at = "walk"
    BY <1>1, <1>7 DEF Follow, ReadType
  <2>2. PICK k \in Nat : WalkAt(k)
    BY <2>1 DEF ReferenceInv
  <2>3. WalkAt(k + 1)' /\ k + 1 \in Nat
    BY <1>7, <2>2, WalkGoesOn
  <2>4. QED
    BY <2>1, <2>3 DEF ReferenceInv, ChainIsReference
<1>8. CASE EndWalk
  <2>1. read'.at = "merge" /\ read.at = "walk"
    BY <1>1, <1>8 DEF EndWalk, ReadType
  <2>2. PICK k \in Nat : WalkAt(k)
    BY <2>1 DEF ReferenceInv
  <2>3. ChainIsReference'
    BY <1>8, <2>2, WalkEndsRight
  <2>4. QED
    BY <2>1, <2>3 DEF ReferenceInv
<1>9. CASE MergeFallback \/ Answer
  <2>1. /\ read.at = "merge" /\ read'.at \in {"merge", "done"}
        /\ read'.code = read.code /\ read'.config = read.config
        /\ read'.chain = read.chain /\ read'.visited = read.visited
    BY <1>1, <1>9 DEF MergeFallback, Answer, ReadType
  <2>2. ChainIsReference'
    BY <2>1, ReferenceKept DEF ReferenceInv
  <2>3. QED
    BY <2>1, <2>2 DEF ReferenceInv
<1>10. QED
  BY <1>3, <1>4, <1>5, <1>6, <1>7, <1>8, <1>9
     DEF ReadNext, ReadStep, StoreStep, allVars, readVars

\* For any number of locales and any configuration, with cycles, disabled
\* locales and fallbacks to nowhere: the loop of FallbackChain lists exactly the
\* enabled locales that fallbacks lead to, in the order of their distance, and
\* then the default if it was not passed (I18nCatalog.cs L94-114).
THEOREM ChainIsAsDefined == ReadSpec => []ChainIsReference
<1>1. ReadInit => ReferenceInv
  BY DEF ReadInit, ReferenceInv, ChainIsReference
<1>2. ReferenceInv => ChainIsReference
  BY DEF ReferenceInv
<1>3. QED
  BY <1>1, <1>2, ReferencePreserved, ReadTypeInvariant, PTL DEF ReadSpec

-----------------------------------------------------------------------------
(* Live catalogs.                                                          *)

\* since has what each file holds, and what the read found in it.
LiveInv ==
  /\ read.at = "idle" => \A l \in Locale : read.catalogs[l] = NoFile
  /\ read.at # "idle" => \A l \in Locale : current[l] \in since[l]
  /\ \A l \in Locale : read.catalogs[l] \in since[l] \union {NoFile}
  /\ read.own # NoFile /\ read.version = AnyVersion => read.own = read.catalogs[read.code]

LEMMA LivePreserved ==
  TypeInv /\ TypeInv' /\ ReadTypeInv /\ LiveInv /\ [ReadNext]_allVars => LiveInv'
<1> SUFFICES ASSUME TypeInv, TypeInv', ReadTypeInv, LiveInv, [ReadNext]_allVars
             PROVE  LiveInv'
  OBVIOUS
<1>1. read \in ReadType /\ Stage
  BY DEF ReadTypeInv, ReadTypeOK
<1>2. CASE /\ UNCHANGED <<current, since>>
           /\ read.at # "idle"
           /\ read'.catalogs = read.catalogs /\ read'.own = read.own
           /\ read'.version = read.version /\ read'.code = read.code
           /\ read'.at # "idle"
  BY <1>2 DEF LiveInv
<1>3. CASE UNCHANGED allVars
  BY <1>3 DEF LiveInv, allVars, vars, disk, readVars
<1>4. ASSUME NEW code \in Locale, NEW version \in Named \union {AnyVersion}, Get(code, version)
      PROVE  LiveInv'
  <2>1. read.at = "idle" /\ read.own = NoFile
    BY <1>1, <1>4 DEF Get, Stage
  <2>2. read'.catalogs = read.catalogs /\ read'.own = NoFile /\ read'.at = "files"
    BY <1>1, <1>4, <2>1 DEF Get, ReadType
  <2>3. \A l \in Locale : since'[l] = {current[l]} /\ current'[l] = current[l]
    BY <1>4 DEF Get, vars, disk
  <2>4. QED
    BY <2>1, <2>2, <2>3 DEF LiveInv
<1>5. ASSUME NEW l \in Locale, ReadFile(l)
      PROVE  LiveInv'
  <2>1. PICK found \in {current[l], NoFile} :
          read' = [read EXCEPT !.catalogs[l] = found, !.todo = @ \ {l},
                               !.at = IF read.todo = {l} THEN "own" ELSE "files"]
    BY <1>5 DEF ReadFile, MayRead
  <2>2. read.at = "files" /\ read.own = NoFile /\ UNCHANGED <<current, since>>
    BY <1>1, <1>5 DEF ReadFile, Stage, vars, disk
  <2>3. /\ read'.catalogs = [read.catalogs EXCEPT ![l] = found]
        /\ read'.own = NoFile /\ read'.at # "idle"
    BY <1>1, <2>1, <2>2 DEF ReadType
  <2>4. \A x \in Locale : read'.catalogs[x] \in {read.catalogs[x], current[x], NoFile}
    BY <1>1, <2>3 DEF ReadType
  <2>5. QED
    BY <2>2, <2>3, <2>4 DEF LiveInv
<1>6. CASE PickOwn
  <2>1. /\ read.at = "own" /\ read.own = NoFile /\ UNCHANGED <<current, since>>
        /\ read'.catalogs = read.catalogs /\ read'.code = read.code
        /\ read'.version = read.version /\ read'.at # "idle"
    BY <1>1, <1>6 DEF PickOwn, NotFound, ReadType, Stage, vars, disk
  <2>2. read'.own # NoFile /\ read.version = AnyVersion => read'.own = read.catalogs[read.code]
    BY <1>1, <1>6, <2>1 DEF PickOwn, NotFound, Candidates, ReadType
  <2>3. QED
    BY <2>1, <2>2 DEF LiveInv
<1>7. CASE ReadConfigFile \/ Follow \/ EndWalk \/ MergeFallback \/ Answer
  <2>1. CASE ReadConfigFile
    BY <1>1, <1>2, <2>1 DEF ReadConfigFile, ReadType, vars, disk
  <2>2. CASE Follow
    BY <1>1, <1>2, <2>2 DEF Follow, ReadType, vars, disk
  <2>3. CASE EndWalk \/ MergeFallback
    BY <1>1, <1>2, <2>3 DEF EndWalk, MergeFallback, ReadType, vars, disk
  <2>4. CASE Answer
    BY <1>1, <1>2, <2>4 DEF Answer, ReadType, vars, disk
  <2>5. QED
    BY <1>7, <2>1, <2>2, <2>3, <2>4
<1>8. CASE StoreStep
  <2>1. \A l \in Locale : since'[l] = since[l] \union {current'[l]}
    BY <1>8 DEF StoreStep
  <2>2. UNCHANGED read
    BY <1>8 DEF StoreStep
  <2>3. QED
    BY <2>1, <2>2 DEF LiveInv
<1>9. QED
  BY <1>3, <1>4, <1>5, <1>6, <1>7, <1>8 DEF ReadNext, ReadStep

LEMMA LiveInvariant == ReadSpec => []LiveInv
<1>1. ReadInit => LiveInv
  BY DEF ReadInit, LiveInv
<1>2. ReadSpec => []TypeInv
  BY StoreBesideReads, TypeInvariant
<1>3. QED
  BY <1>1, <1>2, LivePreserved, ReadTypeInvariant, PTL DEF ReadSpec

\* Lock-free as it is, a read answers only with catalogs that were live while
\* it ran, from any number of processes, with crashes, faults and hand edits.
THEOREM ReadsShowLiveCatalogs == ReadSpec => []ReadsAreLive
<1>1. ReadTypeInv /\ LiveInv => ReadsAreLive
  <2> SUFFICES ASSUME ReadTypeInv, LiveInv, Answered
               PROVE  /\ read.version = AnyVersion => read.own \in since[read.code]
                      /\ \A i \in DOMAIN read.chain :
                           read.catalogs[read.chain[i]] \in since[read.chain[i]] \union {NoFile}
    BY DEF ReadsAreLive
  <2>1. read \in ReadType
    BY DEF ReadTypeInv, ReadTypeOK
  <2>2. \A i \in DOMAIN read.chain : read.chain[i] \in Locale
    BY <2>1 DEF ReadType
  <2>3. read.code \in Locale
    BY <2>1 DEF ReadType
  <2>4. QED
    BY <2>2, <2>3 DEF LiveInv, Answered
<1>2. QED
  BY <1>1, LiveInvariant, ReadTypeInvariant, PTL

-----------------------------------------------------------------------------
(* The merge.                                                              *)

\* The fallbacks from left + 1 on are merged.
MergeInv ==
  /\ read.at = "merge" => NearestFrom(read.left + 1)
  /\ NearestFirst

\* The fact about Overlay that the loop rests on, for one key.
LEMMA OneMoreSource ==
  ASSUME NEW n \in Nat, NEW last \in Nat, NEW text, NEW merged, n <= last,
         \/ merged = NoValue /\ \A i \in (n + 1)..last : text[i] = NoValue
         \/ \E i \in (n + 1)..last :
              text[i] # NoValue /\ merged = text[i]
                /\ \A j \in (n + 1)..(i - 1) : text[j] = NoValue,
         NEW longer, longer = IF text[n] = NoValue THEN merged ELSE text[n]
  PROVE  \/ longer = NoValue /\ \A i \in n..last : text[i] = NoValue
         \/ \E i \in n..last :
              text[i] # NoValue /\ longer = text[i]
                /\ \A j \in n..(i - 1) : text[j] = NoValue
<1>1. n..last = {n} \union ((n + 1)..last)
  OBVIOUS
<1>2. CASE text[n] # NoValue
  <2>1. n..(n - 1) = {} /\ n \in n..last
    OBVIOUS
  <2>2. QED
    BY <1>2, <2>1
<1>3. CASE text[n] = NoValue /\ merged = NoValue /\ \A i \in (n + 1)..last : text[i] = NoValue
  BY <1>1, <1>3
<1>4. ASSUME text[n] = NoValue, NEW i \in (n + 1)..last, text[i] # NoValue, merged = text[i],
             \A j \in (n + 1)..(i - 1) : text[j] = NoValue
      PROVE  \E m \in n..last : text[m] # NoValue /\ longer = text[m]
               /\ \A j \in n..(m - 1) : text[j] = NoValue
  <2>1. \A j \in n..(i - 1) : j = n \/ j \in (n + 1)..(i - 1)
    OBVIOUS
  <2>2. i \in n..last /\ longer = text[i] /\ \A j \in n..(i - 1) : text[j] = NoValue
    BY <1>1, <1>4, <2>1
  <2>3. QED
    BY <1>4, <2>2
<1>5. QED
  BY <1>2, <1>3, <1>4

LEMMA MergeOne ==
  ASSUME ReadTypeInv, NEW n \in 0..Len(read.chain), NearestFrom(n + 1),
         read'.chain = read.chain, read'.catalogs = read.catalogs, read'.own = read.own,
         read'.merged = Overlay(read.merged, Source(n))
  PROVE  NearestFrom(n)'
<1> DEFINE last == Len(read.chain)
<1>1. last \in Nat /\ n \in Nat /\ n <= last
  BY DEF ReadTypeInv, ReadTypeOK, ReadType
<1>2. \A i : Source(i)' = Source(i)
  BY DEF Source
<1> SUFFICES ASSUME NEW k \in Key
             PROVE  \/ /\ read'.merged[k] = NoValue
                       /\ \A i \in n..last : Source(i)[k] = NoValue
                    \/ \E i \in n..last :
                         /\ Source(i)[k] # NoValue
                         /\ read'.merged[k] = Source(i)[k]
                         /\ \A j \in n..(i - 1) : Source(j)[k] = NoValue
  BY <1>2 DEF NearestFrom
<1> DEFINE text == [i \in Nat |-> Source(i)[k]]
<1>3. \A i \in Nat : text[i] = Source(i)[k]
  OBVIOUS
<1>4. read'.merged[k] = IF text[n] = NoValue THEN read.merged[k] ELSE text[n]
  BY <1>1 DEF Overlay
<1>5. n..last \subseteq Nat /\ (n + 1)..last \subseteq Nat
        /\ \A i \in Nat : n..(i - 1) \subseteq Nat /\ (n + 1)..(i - 1) \subseteq Nat
  BY <1>1
<1> HIDE DEF text
<1>6. \/ read.merged[k] = NoValue /\ \A i \in (n + 1)..last : text[i] = NoValue
      \/ \E i \in (n + 1)..last :
           text[i] # NoValue /\ read.merged[k] = text[i]
             /\ \A j \in (n + 1)..(i - 1) : text[j] = NoValue
  BY <1>3, <1>5 DEF NearestFrom
<1> HIDE DEF last
<1>7. \/ read'.merged[k] = NoValue /\ \A i \in n..last : text[i] = NoValue
      \/ \E i \in n..last :
           text[i] # NoValue /\ read'.merged[k] = text[i]
             /\ \A j \in n..(i - 1) : text[j] = NoValue
  BY <1>1, <1>4, <1>6, OneMoreSource
<1>8. QED
  BY <1>3, <1>5, <1>7

LEMMA MergePreserved ==
  ReadTypeInv /\ MergeInv /\ [ReadNext]_allVars => MergeInv'
<1> SUFFICES ASSUME ReadTypeInv, MergeInv, [ReadNext]_allVars PROVE MergeInv'
  OBVIOUS
<1>1. read \in ReadType /\ Stage
  BY DEF ReadTypeInv, ReadTypeOK
<1>2. CASE UNCHANGED read
  BY <1>2 DEF MergeInv, NearestFirst, NearestFrom, Answered, Source
<1>3. CASE read'.at \notin {"merge", "done"}
  BY <1>3 DEF MergeInv, NearestFirst, Answered
<1>4. CASE read'.at = "done" /\ read'.own = NoFile
  BY <1>4 DEF MergeInv, NearestFirst, Answered
<1>5. CASE \/ \E code \in Locale, version \in Named \union {AnyVersion} : Get(code, version)
           \/ \E l \in Locale : ReadFile(l)
           \/ ReadConfigFile
           \/ Follow
  BY <1>1, <1>3, <1>5 DEF Get, ReadFile, ReadConfigFile, Follow, ReadType
<1>6. CASE PickOwn
  BY <1>1, <1>3, <1>4, <1>6 DEF PickOwn, NotFound, ReadType, Stage
<1>7. CASE EndWalk
  <2>1. /\ read'.at = "merge" /\ read'.left = Len(read'.chain) /\ read'.merged = NoEntries
        /\ Len(read'.chain) \in Nat
    BY <1>1, <1>7 DEF EndWalk, ReadType, Effective
  <2>2. NearestFrom(read.left + 1)'
    BY <2>1 DEF NearestFrom, NoEntries
  <2>3. QED
    BY <2>1, <2>2 DEF MergeInv, NearestFirst, Answered
<1>8. CASE MergeFallback
  <2>1. read.left \in Nat \ {0} /\ read.left <= Len(read.chain) /\ read.at = "merge"
    BY <1>1, <1>8 DEF MergeFallback, ReadType, Stage
  <2>2. /\ read'.chain = read.chain /\ read'.catalogs = read.catalogs /\ read'.own = read.own
        /\ read'.merged = Overlay(read.merged, Source(read.left))
        /\ read'.left = read.left - 1 /\ read'.at = "merge"
    BY <1>1, <1>8, <2>1 DEF MergeFallback, ReadType, Source
  <2>3. read.left \in 0..Len(read.chain) /\ NearestFrom(read.left + 1)
    BY <1>1, <2>1 DEF MergeInv, ReadType
  <2> DEFINE n == read.left
  <2>4. \A m : m = n => NearestFrom(m)'
    BY <2>2, <2>3, MergeOne
  <2>5. read'.left + 1 = n /\ read'.at = "merge"
    BY <2>1, <2>2
  <2> HIDE DEF n
  <2>6. NearestFrom(read.left + 1)'
    BY <2>4, <2>5 DEF NearestFrom, Source
  <2>7. QED
    BY <2>5, <2>6 DEF MergeInv, NearestFirst, Answered
<1>9. CASE Answer
  <2>1. read.at = "merge" /\ read.left = 0 /\ read.own # NoFile
    BY <1>1, <1>9, SentinelAssumption DEF Answer, Stage
  <2>2. /\ read'.chain = read.chain /\ read'.catalogs = read.catalogs /\ read'.own = read.own
        /\ read'.merged = Overlay(read.merged, Source(0)) /\ read'.at = "done"
    BY <1>1, <1>9 DEF Answer, ReadType, Source
  <2>3. 0 \in 0..Len(read.chain) /\ NearestFrom(0 + 1)
    BY <1>1, <2>1 DEF MergeInv, ReadType
  <2>4. NearestFrom(0)'
    BY <2>2, <2>3, MergeOne
  <2>5. QED
    BY <2>2, <2>4 DEF MergeInv, NearestFirst
<1>10. QED
  BY <1>2, <1>5, <1>6, <1>7, <1>8, <1>9 DEF ReadNext, ReadStep, StoreStep, allVars, readVars

\* For every chain and every key: own entries win, then the nearest fallback
\* that has the key, and no key of any source is lost (WithFallback).
THEOREM MergeIsNearestFirst == ReadSpec => []NearestFirst
<1>1. ReadInit => MergeInv
  BY DEF ReadInit, MergeInv, NearestFirst, Answered
<1>2. MergeInv => NearestFirst
  BY DEF MergeInv
<1>3. QED
  BY <1>1, <1>2, MergePreserved, ReadTypeInvariant, PTL DEF ReadSpec

-----------------------------------------------------------------------------
(* Answered writes.                                                        *)

\* While nobody edits a file, the live version of a locale is not below any
\* that was answered.
UpToDate ==
  \A a \in applied : current[a.locale] # NoFile /\ a.after.version <= current[a.locale].version

\* Without edits, only a write or a reconciling person replaces a file.
LEMMA UneditedSteps ==
  ASSUME MaxEdits = 0, TypeInv, [Next]_vars
  PROVE  \/ UNCHANGED <<current, applied>>
         \/ \E w \in Writer : WriteCurrent(w)
         \/ \E l \in Locale : \E s \in history : RestoreLatest(l, s)
<1>1. ~Spend("edits", MaxEdits)
  BY DEF Spend, TypeInv, TypeOK
<1>2. ASSUME NEW w \in Writer, Move(w), ~WriteCurrent(w)
      PROVE  UNCHANGED <<current, applied>>
  BY <1>2, MoveKinds, Proceeds DEF ReadCurrent, Plan, disk
<1>3. ASSUME NEW p \in Process, Crash(p)
      PROVE  UNCHANGED <<current, applied>>
  BY <1>3 DEF Crash, disk
<1>4. ASSUME NEW l, NEW file
      PROVE  ~HandEdit(l, file) /\ ~HandDrop(l, file)
  BY <1>1 DEF HandEdit, HandDrop
<1>5. ASSUME NEW l, NEW s, RemoveOrphan(l, s)
      PROVE  UNCHANGED <<current, applied>>
  BY <1>5 DEF RemoveOrphan
<1>6. CASE Person
  BY <1>4, <1>5, <1>6 DEF Person
<1>7. CASE UNCHANGED vars
  BY <1>7 DEF vars, disk
<1>8. QED
  BY <1>2, <1>3, <1>6, <1>7, StepKinds

LEMMA UpToDatePreserved ==
  ASSUME MaxEdits = 0, TypeInv, RecordInv, OwnerInv, UpToDate, [Next]_vars
  PROVE  UpToDate'
<1>1. /\ current \in [Locale -> Catalog \union {NoFile}]
      /\ \A a \in applied : a.locale \in Locale /\ a.after.version \in Nat
      /\ \A s \in history : s.version \in Nat
  BY DEF TypeInv, TypeOK, Applied, Catalog, Snapshot, Version
<1>2. CASE UNCHANGED <<current, applied>>
  BY <1>2 DEF UpToDate
<1>3. ASSUME NEW w \in Writer, WriteCurrent(w)
      PROVE  UpToDate'
  <2>1. /\ pc[w] = "current" /\ current' = [current EXCEPT ![LocaleOf(w)] = job[w].next]
        /\ \A a \in applied' : a \in applied \/ (a.locale = LocaleOf(w) /\ a.after = job[w].next)
    BY <1>3 DEF WriteCurrent
  <2>2. job[w].next \in Catalog /\ LocaleOf(w) \in Locale /\ job[w].next.version \in Nat
    BY <2>1, MutationTypes DEF MutationStep, AfterPlan, Catalog, Version
  <2>3. /\ current'[LocaleOf(w)] = job[w].next /\ job[w].next # NoFile
        /\ \A l \in Locale : l # LocaleOf(w) => current'[l] = current[l]
    BY <1>1, <2>1, <2>2, SentinelAssumption
  <2>4. ASSUME NEW a \in applied'
        PROVE  current'[a.locale] # NoFile /\ a.after.version <= current'[a.locale].version
    <3>1. CASE a.locale = LocaleOf(w) /\ a.after = job[w].next
      BY <2>2, <2>3, <3>1
    <3>2. CASE a \in applied /\ a.locale # LocaleOf(w)
      BY <1>1, <2>3, <3>2 DEF UpToDate
    <3>3. CASE a \in applied /\ a.locale = LocaleOf(w)
      <4>1. a.after.version < job[w].next.version
        BY <1>3, <3>3, LiveAbove
      <4>2. QED
        BY <1>1, <2>2, <2>3, <3>3, <4>1
    <3>4. QED
      BY <2>1, <3>1, <3>2, <3>3
  <2>5. QED
    BY <2>4 DEF UpToDate
<1>4. ASSUME NEW l \in Locale, NEW s \in history, RestoreLatest(l, s)
      PROVE  UpToDate'
  <2>1. /\ UNCHANGED applied
        /\ current' = [current EXCEPT ![l] = [version |-> s.version, entries |-> s.entries]]
        /\ LockedOut(l) /\ Latest(l, s)
    BY <1>4 DEF RestoreLatest
  <2>2. [version |-> s.version, entries |-> s.entries] \in Catalog
    BY DEF TypeInv, TypeOK, Snapshot, Catalog
  <2>3. current'[l] # NoFile /\ current'[l].version = s.version
    BY <1>1, <2>1, <2>2, SentinelAssumption
  <2>4. current[l].version \in Nat /\ current[l].version < s.version
    <3>1. current[l] \in Catalog
      BY <1>1, <2>1 DEF LockedOut
    <3>2. PICK t \in history : t.locale = l /\ t.version > current[l].version
      BY <2>1 DEF LockedOut, Ahead
    <3>3. t.version <= s.version
      BY <2>1, <3>2 DEF Latest
    <3>4. QED
      BY <1>1, <3>1, <3>2, <3>3 DEF Catalog, Version
  <2>5. ASSUME NEW a \in applied
        PROVE  current'[a.locale] # NoFile /\ a.after.version <= current'[a.locale].version
    BY <1>1, <2>1, <2>3, <2>4 DEF UpToDate
  <2>6. QED
    BY <2>1, <2>5 DEF UpToDate
<1>5. QED
  BY <1>2, <1>3, <1>4, UneditedSteps

\* What the read knows was answered, and every file it may find is as new.
KnownInv ==
  /\ \A v \in known : \E a \in applied : a.locale = read.code /\ a.after.version = v
  /\ \A v \in known : \A f \in since[read.code] : f # NoFile /\ v <= f.version

LEMMA KnownPreserved ==
  ASSUME TypeInv, ReadTypeInv, UpToDate, UpToDate', KnownInv, [ReadNext]_allVars
  PROVE  KnownInv'
<1>1. read \in ReadType /\ since \in [Locale -> SUBSET (Catalog \union {NoFile})]
  BY DEF ReadTypeInv, ReadTypeOK
<1>2. ASSUME NEW code \in Locale, NEW version \in Named \union {AnyVersion}, Get(code, version)
      PROVE  KnownInv'
  <2>1. /\ read'.code = code /\ UNCHANGED applied
        /\ since'[code] = {current[code]}
        /\ known' = {a.after.version : a \in {b \in applied : b.locale = code}}
    BY <1>1, <1>2 DEF Get, ReadType, vars
  <2>2. ASSUME NEW v \in known'
        PROVE  /\ \E a \in applied : a.locale = code /\ a.after.version = v
               /\ current[code] # NoFile /\ v <= current[code].version
    BY <2>1, <2>2 DEF UpToDate
  <2>3. QED
    BY <2>1, <2>2 DEF KnownInv
<1>3. CASE ReadStep \/ UNCHANGED allVars
  <2>1. UNCHANGED <<applied, since, known>>
    BY <1>3 DEF ReadStep, ReadFile, PickOwn, ReadConfigFile, Follow, EndWalk, MergeFallback, Answer,
                allVars, vars, readVars
  <2>2. read'.code = read.code
    BY <1>1, <1>3 DEF ReadStep, ReadFile, PickOwn, NotFound, ReadConfigFile, Follow, EndWalk,
                      MergeFallback, Answer, allVars, readVars, ReadType
  <2>3. QED
    BY <2>1, <2>2 DEF KnownInv
<1>4. CASE StoreStep
  <2>1. UNCHANGED <<read, known>> /\ since'[read.code] = since[read.code] \union {current'[read.code]}
    BY <1>1, <1>4 DEF StoreStep, ReadType
  <2>2. applied \subseteq applied'
    BY <1>4, AppliedGrows DEF StoreStep, WriteCurrent
  <2>3. ASSUME NEW v \in known
        PROVE  /\ \E a \in applied' : a.locale = read.code /\ a.after.version = v
               /\ current'[read.code] # NoFile /\ v <= current'[read.code].version
    BY <2>2, <2>3 DEF KnownInv, UpToDate
  <2>4. QED
    BY <2>1, <2>3 DEF KnownInv
<1>5. QED
  BY <1>2, <1>3, <1>4 DEF ReadNext

\* A read begun after a write was answered shows that write or a later one, from
\* whichever process (ReadCatalogs reads the disk each time, L43, L269-283),
\* with any crashes and failing accesses, while nobody puts an old file back.
THEOREM ReadsKeepUp ==
  ASSUME MaxEdits = 0
  PROVE  ReadSpec => []ReadsSeeAnsweredWrites
<1>1. ReadSpec => [](TypeInv /\ RecordInv /\ OwnerInv)
  BY StoreBesideReads, TypeInvariant, RecordInvariant, OwnerInvariant, PTL
<1>2. ReadInit => UpToDate /\ KnownInv
  BY DEF ReadInit, Init, UpToDate, KnownInv
<1>3. TypeInv /\ RecordInv /\ OwnerInv /\ UpToDate /\ [ReadNext]_allVars => UpToDate'
  BY UpToDatePreserved, ReadsWriteNothing
<1>4. TypeInv /\ ReadTypeInv /\ UpToDate /\ UpToDate' /\ KnownInv /\ [ReadNext]_allVars => KnownInv'
  BY KnownPreserved
<1>5. ReadTypeInv /\ LiveInv /\ KnownInv => ReadsSeeAnsweredWrites
  <2> SUFFICES ASSUME ReadTypeInv, LiveInv, KnownInv, Answered, read.version = AnyVersion,
                      NEW v \in known
               PROVE  v <= read.own.version
    BY DEF ReadsSeeAnsweredWrites
  <2>1. read.own \in since[read.code]
    BY DEF ReadTypeInv, ReadTypeOK, ReadType, LiveInv, Answered
  <2>2. QED
    BY <2>1 DEF KnownInv
<1>6. QED
  BY <1>1, <1>2, <1>3, <1>4, <1>5, LiveInvariant, ReadTypeInvariant, PTL DEF ReadSpec

-----------------------------------------------------------------------------
(* Versions that were answered.                                            *)

\* What the read knows was answered, and a snapshot it has found under such a
\* number is what the write of that number made live.
AnsweredInv ==
  /\ \A v \in known : \E a \in applied : a.locale = read.code /\ a.after.version = v
  /\ read.own # NoFile /\ ~ReadsFail /\ read.version \in known \intersect Named =>
       /\ read.own.version = read.version
       /\ \E a \in applied :
            /\ a.locale = read.code
            /\ a.after.version = read.version
            /\ a.after.entries = read.own.entries

\* Two writes that share a locale and a version made the same entries live: one
\* snapshot records both.
LEMMA OneMeaning ==
  ASSUME TypeInv, AppliedIsRecorded, NEW a \in applied, NEW b \in applied,
         a.locale = b.locale, a.after.version = b.after.version
  PROVE  a.after.entries = b.after.entries
<1>1. /\ Recorded(a.locale, a.after.version) =
           {[locale |-> a.locale, version |-> a.after.version,
             entries |-> a.after.entries, action |-> a.change.op]}
      /\ Recorded(b.locale, b.after.version) =
           {[locale |-> b.locale, version |-> b.after.version,
             entries |-> b.after.entries, action |-> b.change.op]}
  BY DEF AppliedIsRecorded
<1>2. [locale |-> a.locale, version |-> a.after.version,
       entries |-> a.after.entries, action |-> a.change.op] =
      [locale |-> b.locale, version |-> b.after.version,
       entries |-> b.after.entries, action |-> b.change.op]
  BY <1>1
<1>3. QED
  BY <1>2

\* The only candidate for an answered version is its snapshot.
LEMMA AnsweredCandidate ==
  ASSUME AppliedIsRecorded, ~ReadsFail, read.version # AnyVersion, NEW a \in applied,
         a.locale = read.code, a.after.version = read.version,
         NEW mine, NEW own \in Candidates(mine)
  PROVE  own = [version |-> read.version, entries |-> a.after.entries]
<1>1. Recorded(read.code, read.version) =
        {[locale |-> a.locale, version |-> a.after.version,
          entries |-> a.after.entries, action |-> a.change.op]}
  BY DEF AppliedIsRecorded
<1>2. Candidates(mine) =
        {[version |-> s.version, entries |-> s.entries] : s \in Recorded(read.code, read.version)}
  BY <1>1 DEF Candidates
<1>3. QED
  BY <1>1, <1>2

LEMMA AnsweredPreserved ==
  ASSUME TypeInv, AppliedIsRecorded, ReadTypeInv, AnsweredInv, [ReadNext]_allVars
  PROVE  AnsweredInv'
<1>1. read \in ReadType /\ Stage
  BY DEF ReadTypeInv, ReadTypeOK
<1>2. ASSUME NEW code \in Locale, NEW version \in Named \union {AnyVersion}, Get(code, version)
      PROVE  AnsweredInv'
  <2>1. /\ read'.code = code /\ read'.own = NoFile /\ UNCHANGED applied
        /\ known' = {a.after.version : a \in {b \in applied : b.locale = code}}
    BY <1>1, <1>2 DEF Get, ReadType, Stage, vars
  <2>2. QED
    BY <2>1 DEF AnsweredInv
<1>3. CASE /\ UNCHANGED <<applied, known>>
           /\ read'.code = read.code /\ read'.version = read.version /\ read'.own = read.own
  BY <1>3 DEF AnsweredInv
<1>4. CASE UNCHANGED allVars
  BY <1>3, <1>4 DEF allVars, vars, readVars
<1>5. ASSUME NEW l \in Locale, ReadFile(l)
      PROVE  AnsweredInv'
  BY <1>1, <1>3, <1>5 DEF ReadFile, ReadType, vars
<1>6. CASE PickOwn
  <2> DEFINE mine == read.catalogs[read.code]
  <2>1. /\ UNCHANGED <<applied, known>> /\ read.own = NoFile
        /\ read'.code = read.code /\ read'.version = read.version
        /\ read'.own \in Candidates(mine) \/ read'.own = NoFile
    BY <1>1, <1>6 DEF PickOwn, NotFound, ReadType, Stage, vars
  <2>2. ASSUME read'.own # NoFile, ~ReadsFail, read.version \in known \intersect Named
        PROVE  \E a \in applied :
                 /\ a.locale = read.code /\ a.after.version = read.version
                 /\ read'.own = [version |-> read.version, entries |-> a.after.entries]
    <3>1. PICK a \in applied : a.locale = read.code /\ a.after.version = read.version
      BY <2>2 DEF AnsweredInv
    <3>2. read.version # AnyVersion
      BY <2>2, SentinelAssumption
    <3>3. read'.own = [version |-> read.version, entries |-> a.after.entries]
      BY <2>1, <2>2, <3>1, <3>2, AnsweredCandidate
    <3>4. QED
      BY <3>1, <3>3
  <2>3. ASSUME read'.own # NoFile, ~ReadsFail, read.version \in known \intersect Named
        PROVE  /\ read'.own.version = read.version
               /\ \E a \in applied :
                    /\ a.locale = read.code
                    /\ a.after.version = read.version
                    /\ a.after.entries = read'.own.entries
    <3>1. PICK a \in applied :
            /\ a.locale = read.code /\ a.after.version = read.version
            /\ read'.own = [version |-> read.version, entries |-> a.after.entries]
      BY <2>2, <2>3
    <3>2. QED
      BY <3>1
  <2>4. /\ applied' = applied /\ known' = known
        /\ read'.code = read.code /\ read'.version = read.version
    BY <2>1
  <2>5. \A v \in known : \E a \in applied : a.locale = read.code /\ a.after.version = v
    BY DEF AnsweredInv
  <2>6. QED
    BY <2>3, <2>4, <2>5 DEF AnsweredInv
<1>7. CASE ReadConfigFile \/ Follow \/ EndWalk \/ MergeFallback \/ Answer
  <2>1. CASE ReadConfigFile
    BY <1>1, <1>3, <2>1 DEF ReadConfigFile, ReadType, vars
  <2>2. CASE Follow
    BY <1>1, <1>3, <2>2 DEF Follow, ReadType, vars
  <2>3. CASE EndWalk \/ MergeFallback
    BY <1>1, <1>3, <2>3 DEF EndWalk, MergeFallback, ReadType, vars
  <2>4. CASE Answer
    BY <1>1, <1>3, <2>4 DEF Answer, ReadType, vars
  <2>5. QED
    BY <1>7, <2>1, <2>2, <2>3, <2>4
<1>8. CASE StoreStep
  <2>1. UNCHANGED <<read, known>>
    BY <1>8 DEF StoreStep
  <2>2. applied \subseteq applied'
    BY <1>8, AppliedGrows DEF StoreStep, WriteCurrent
  <2>3. QED
    BY <2>1, <2>2 DEF AnsweredInv
<1>9. QED
  BY <1>2, <1>4, <1>5, <1>6, <1>7, <1>8 DEF ReadNext, ReadStep

\* A version number that was answered stands for its entries for ever: any
\* number of processes, crashes, failing writes, hand edits and reconciliations
\* (RemoveOrphan) later, ?version=N shows what the write of N made live.
THEOREM AnsweredVersionsAreForGood == ReadSpec => []AnsweredVersionsStand
<1>1. ReadSpec => [](TypeInv /\ RecordInv)
  BY StoreBesideReads, TypeInvariant, RecordInvariant, PTL
<1>2. RecordInv => AppliedIsRecorded
  BY DEF RecordInv
<1>3. ReadInit => AnsweredInv
  BY DEF ReadInit, AnsweredInv
<1>4. TypeInv /\ AppliedIsRecorded /\ AnsweredInv => AnsweredVersionsStand
  BY OneMeaning DEF AnsweredInv, AnsweredVersionsStand, Answered
<1>5. QED
  BY <1>1, <1>2, <1>3, <1>4, AnsweredPreserved, ReadTypeInvariant, PTL DEF ReadSpec

-----------------------------------------------------------------------------
(* Version numbers.                                                        *)

\* One process serves the folder, nothing fails and nobody edits.
Undisturbed == OneProcess /\ MaxFaults = 0 /\ MaxEdits = 0 /\ ~EditsRaceWrites

\* What the store then keeps.
CalmInv ==
  TypeInv /\ RecordInv /\ OwnerInv /\ GateInv /\ UnhurtInv /\ UpToDate /\ spent.faults = 0

LEMMA NoBudgetNoFault ==
  ASSUME MaxFaults = 0, TypeInv, spent.faults = 0, [Next]_vars
  PROVE  spent'.faults = 0
<1>1. spent \in [requests: Nat, faults: Nat, edits: Nat]
  BY DEF TypeInv, TypeOK
<1>2. ~Spend("faults", MaxFaults)
  BY <1>1 DEF Spend
<1>3. ASSUME NEW limit, NEW kind \in {"requests", "edits"}, Spend(kind, limit)
      PROVE  spent'.faults = 0
  BY <1>1, <1>3 DEF Spend
<1>4. /\ \A w \in Writer : ~ReconcileUnreadable(w) /\ ~DiskFault(w) /\ ~TearAppend(w)
      /\ \A p \in Process : ~Crash(p)
  BY <1>2 DEF ReconcileUnreadable, DiskFault, TearAppend, Crash
<1>5. ASSUME NEW w \in Writer, Client(w) \/ Enter(w)
      PROVE  spent'.faults = 0
  BY <1>3, <1>5 DEF Client, Submit, Cancel, Enter
<1>6. ASSUME NEW w \in Writer, Step(w)
      PROVE  UNCHANGED spent
  <2>1. CASE RefuseUnknown(w) \/ ReadCurrent(w) \/ RefuseStale(w) \/ Admit(w) \/ ReconcileAndApply(w)
    BY <2>1 DEF RefuseUnknown, ReadCurrent, RefuseStale, Admit, ReconcileAndApply
  <2>2. CASE WriteSeed(w) \/ AuditSeed(w) \/ WriteSnapshot(w) \/ AuditChange(w) \/ WriteCurrent(w)
    BY <2>2 DEF WriteSeed, AuditSeed, WriteSnapshot, AuditChange, WriteCurrent
  <2>3. CASE ValidateConfig(w) \/ WriteConfig(w) \/ AuditConfig(w) \/ AuditBusy(w)
    BY <2>3 DEF ValidateConfig, WriteConfig, AuditConfig, AuditBusy
  <2>4. QED
    BY <1>6, <2>1, <2>2, <2>3 DEF Step
<1>7. CASE Person
  <2>1. ASSUME NEW l, NEW file, HandEdit(l, file) \/ HandDrop(l, file)
        PROVE  spent'.faults = 0
    BY <1>3, <2>1 DEF HandEdit, HandDrop
  <2>2. ASSUME NEW l, NEW s, RemoveOrphan(l, s) \/ RestoreLatest(l, s)
        PROVE  UNCHANGED spent
    BY <2>2 DEF RemoveOrphan, RestoreLatest
  <2>3. QED
    BY <1>7, <2>1, <2>2 DEF Person
<1>8. QED
  BY <1>4, <1>5, <1>6, <1>7 DEF Next, Fault, vars

LEMMA CalmPreserved ==
  ASSUME Undisturbed, CalmInv, [Next]_vars
  PROVE  CalmInv'
BY TypesPreserved, RecordPreserved, OwnersPreserved, GatePreserved, UnhurtPreserved,
   UpToDatePreserved, NoBudgetNoFault DEF CalmInv, Undisturbed

\* Nobody finds a locale locked out that he would have to reconcile.
LEMMA NobodyReconciles ==
  ASSUME CalmInv, NEW l \in Locale, NEW s \in history, AtRest(l), LockedOut(l), Latest(l, s)
  PROVE  FALSE
<1>1. WentLive(s) /\ s.locale = l
  BY DEF CalmInv, UnhurtInv, Settled, Latest
<1>2. PICK a \in applied : a.locale = l /\ a.after.version = s.version
  BY <1>1 DEF WentLive
<1>3. PICK t \in history : t.locale = l /\ t.version > current[l].version
  BY DEF LockedOut, Ahead
<1>4. t.version <= s.version /\ s.version <= current[l].version
  BY <1>2, <1>3 DEF CalmInv, UpToDate, Latest
<1>5. current[l] \in Catalog
  BY DEF LockedOut, CalmInv, TypeInv, TypeOK
<1>6. t.version \in Nat /\ s.version \in Nat /\ current[l].version \in Nat
  BY <1>5 DEF CalmInv, TypeInv, TypeOK, Snapshot, Catalog, Version
<1>7. QED
  BY <1>3, <1>4, <1>6

LEMMA CalmSteps ==
  ASSUME Undisturbed, CalmInv, [Next]_vars
  PROVE  /\ history \subseteq history'
         /\ \/ UNCHANGED <<current, history>>
            \/ \E w \in Writer : Creates(w) /\ UNCHANGED current
            \/ \E w \in Writer : WriteCurrent(w) /\ UNCHANGED history
<1>1. TypeInv /\ RecordInv /\ MaxEdits = 0
  BY DEF CalmInv, Undisturbed
<1>2. ASSUME NEW l \in Locale, NEW s \in history
      PROVE  ~RemoveOrphan(l, s) /\ ~RestoreLatest(l, s)
  BY NobodyReconciles DEF RemoveOrphan, RestoreLatest
<1>3. \A w \in Writer : Creates(w) => UNCHANGED current
  BY <1>1, Proceeds DEF Creates
<1>4. \A w \in Writer : WriteCurrent(w) => UNCHANGED history
  BY DEF WriteCurrent
<1>5. \A w \in Writer : Creates(w) => history \subseteq history'
  BY <1>1, CreatesWhat
<1>6. UNCHANGED history \/ \E w \in Writer : Creates(w)
  BY <1>1, <1>2, HistoryAdds
<1>7. UNCHANGED current \/ \E w \in Writer : WriteCurrent(w)
  BY <1>1, <1>2, UneditedSteps
<1>8. QED
  BY <1>3, <1>4, <1>5, <1>6, <1>7

\* Unless it seeds the very version it read, a planned write found a snapshot of
\* that version.
SeenRecorded(w) ==
  pc[w] \in AfterPlan /\ (job[w].seed = NoSeed \/ job[w].seed.version # job[w].seen.version) =>
    Recorded(LocaleOf(w), job[w].seen.version) # {}

\* A file stands for its version: history has it so, or it is the live file and
\* history has nothing of its version yet.
Stands(l, f) ==
  f # NoFile => \/ \E s \in Recorded(l, f.version) : s.entries = f.entries
                \/ Recorded(l, f.version) = {} /\ current[l] = f

StandsInv == (\A w \in Writer : SeenRecorded(w)) /\ (\A l \in Locale : Stands(l, current[l]))

LEMMA SeenPreserved ==
  ASSUME Undisturbed, CalmInv, NEW x \in Writer, SeenRecorded(x), [Next]_vars
  PROVE  SeenRecorded(x)'
<1>1. TypeInv /\ RecordInv /\ history \subseteq history'
  BY CalmSteps DEF CalmInv
<1>2. CASE pc'[x] \notin AfterPlan
  BY <1>2 DEF SeenRecorded
<1>3. CASE pc[x] \in AfterPlan /\ job'[x] = job[x]
  <2>1. \A l, v : Recorded(l, v) \subseteq Recorded(l, v)'
    BY <1>1 DEF Recorded
  <2>2. QED
    BY <1>3, <2>1 DEF SeenRecorded, LocaleOf
<1>4. CASE pc'[x] = pc[x] /\ job'[x] = job[x]
  BY <1>2, <1>3, <1>4
<1>5. CASE Move(x)
  <2>1. CASE ~Engaged(x)'
    BY <1>2, <2>1 DEF Engaged, AfterPlan, MutationStep
  <2>2. CASE ReadCurrent(x) \/ Admit(x)
    <3>1. pc'[x] \in {"check", "reconcile"}
      BY <1>1, <2>2, Proceeds DEF ReadCurrent, Goto, TypeInv, TypeOK
    <3>2. QED
      BY <1>2, <3>1 DEF AfterPlan
  <2>3. ASSUME NEW found \in {Recorded(LocaleOf(x), job[x].seen.version), {}}, Plan(x, found)
        PROVE  SeenRecorded(x)'
    <3> DEFINE seen == job[x].seen
               seed == SeedFor(LocaleOf(x), found, seen)
    <3>1. /\ job'[x].seen = seen /\ job'[x].seed = seed /\ LocaleOf(x)' = LocaleOf(x)
          /\ pc[x] = "reconcile" /\ UNCHANGED history
      BY <1>1, <2>3, PlanOutcome DEF LocaleOf, Plan, disk
    <3>2. seen \in Catalog /\ LocaleOf(x) \in Locale
      BY <1>1, <3>1, MutationTypes DEF MutationStep
    <3>3. found # {} => Recorded(LocaleOf(x), seen.version)' # {}
      BY <3>1 DEF Recorded
    <3>4. ASSUME found = {}
          PROVE  seed # NoSeed /\ seed.version = seen.version
      <4>1. seed = [locale |-> LocaleOf(x), version |-> seen.version,
                    entries |-> seen.entries, action |-> "create"]
        BY <3>4 DEF SeedFor, Basis, Edited
      <4>2. seed \in Snapshot
        BY <3>2, <4>1 DEF Snapshot, Action, Catalog
      <4>3. QED
        BY <4>1, <4>2, SentinelAssumption
    <3> HIDE DEF seed
    <3>5. QED
      BY <3>1, <3>3, <3>4 DEF SeenRecorded
  <2>4. CASE \/ WriteSeed(x) /\ Recorded(job[x].seed.locale, job[x].seed.version) = {}
             \/ AuditSeed(x)
             \/ WriteSnapshot(x) /\ Recorded(LocaleOf(x), job[x].next.version) = {}
             \/ AuditChange(x)
    <3>1. pc[x] \in AfterPlan /\ job' = job
      BY <1>1, <2>4, Proceeds DEF AfterPlan
    <3>2. QED
      BY <1>3, <3>1
  <2>5. QED
    BY <1>1, <1>5, <2>1, <2>2, <2>3, <2>4, MoveKinds
<1>6. ASSUME NEW w \in Writer, Move(w), w # x
      PROVE  SeenRecorded(x)'
  BY <1>1, <1>4, <1>6, MovesAlone
<1>7. ASSUME NEW p \in Process, Crash(p)
      PROVE  SeenRecorded(x)'
  BY <1>1, <1>2, <1>4, <1>7, CrashEnds DEF AfterPlan
<1>8. CASE Person \/ UNCHANGED vars
  BY <1>4, <1>8, PersonAlone DEF vars
<1>9. QED
  BY <1>5, <1>6, <1>7, <1>8, StepKinds

\* The snapshot that is created for the version of the live file records it.
LEMMA CreatesWhatIsLive ==
  ASSUME Undisturbed, CalmInv, NEW w \in Writer, Creates(w), NEW f \in Catalog,
         current[LocaleOf(w)] = f
  PROVE  \E s : /\ history' = history \union {s} /\ s.locale = LocaleOf(w)
                /\ s.version = f.version => s.entries = f.entries
<1>1. TypeInv /\ RecordInv /\ FreshAt(w) /\ UnhurtAt(w) /\ PlanAt(pc[w], job[w])
  BY DEF CalmInv, OwnerInv, Fresh, UnhurtInv, RecordInv, PlanOK
<1>2. AsRead(w) => f = job[w].seen
  BY DEF AsRead, Undisturbed
<1>3. CASE WriteSeed(w) /\ Recorded(job[w].seed.locale, job[w].seed.version) = {}
  <2>1. pc[w] = "seed" /\ job' = job /\ history' = history \union {job[w].seed}
    BY <1>1, <1>3, Proceeds
  <2>2. /\ job[w].seed \in Snapshot /\ job[w].seed.locale = LocaleOf(w) /\ job[w].seed # NoSeed
        /\ job[w].seen.version \in Nat
    BY <1>1, <2>1, MutationTypes, SentinelAssumption DEF MutationStep, Catalog, Version
  <2>3. /\ job[w].seed.version \in {job[w].seen.version, job[w].seen.version + 1}
        /\ job[w].seed.entries = job[w].seen.entries
    BY <1>1, <2>1, <2>2 DEF PlanAt, AfterPlan
  <2>4. ~Taken(w)
    <3>1. ASSUME NEW b \in history, b.locale = LocaleOf(w), b.version = job[w].seen.version + 1
          PROVE  FALSE
      BY <1>1, <2>1, <2>2, <2>3, <3>1 DEF UnhurtAt, AllBelow
    <3>2. QED
      BY <3>1 DEF Taken, Recorded
  <2>5. AsRead(w)
    BY <1>1, <2>1, <2>4 DEF FreshAt, Engaged, MutationStep
  <2>6. QED
    BY <1>2, <2>1, <2>2, <2>3, <2>5
<1>4. CASE WriteSnapshot(w) /\ Recorded(LocaleOf(w), job[w].next.version) = {}
  <2>1. pc[w] = "snapshot" /\ job' = job /\ history' = history \union {NextSnapshot(w)}
    BY <1>1, <1>4, Proceeds
  <2>2. job[w].seen.version \in Nat /\ job[w].next.version \in Nat
    BY <1>1, <2>1, MutationTypes DEF MutationStep, AfterPlan, Catalog, Version
  <2>3. NextSnapshot(w).locale = LocaleOf(w) /\ NextSnapshot(w).version = job[w].next.version
    BY DEF NextSnapshot
  <2>4. \/ job[w].next.version = job[w].seen.version + 1
        \/ /\ job[w].seed # NoSeed /\ job[w].next.version = job[w].seed.version + 1
           /\ job[w].seed.version \in {job[w].seen.version, job[w].seen.version + 1}
    BY <1>1, <2>1 DEF PlanAt, AfterPlan
  <2>5. AsRead(w)
    <3>1. Engaged(w)
      BY <2>1 DEF Engaged, MutationStep
    <3>2. ASSUME Taken(w) PROVE Owns(w)
      <4>1. PICK b \in history : b.locale = LocaleOf(w) /\ b.version = job[w].seen.version + 1
        BY <3>2 DEF Taken, Recorded
      <4>2. job[w].seen.version + 1 < job[w].next.version
        BY <1>1, <2>1, <4>1 DEF UnhurtAt, AllBelow
      <4>3. job[w].seed # NoSeed /\ job[w].seed.version = job[w].seen.version + 1
        BY <2>2, <2>4, <4>2
      <4>4. QED
        BY <2>1, <4>3 DEF Owns
    <3>3. QED
      BY <1>1, <3>1, <3>2 DEF FreshAt
  <2>6. job[w].next.version # f.version
    BY <1>2, <2>2, <2>4, <2>5
  <2>7. QED
    BY <2>1, <2>3, <2>6
<1>5. QED
  BY <1>3, <1>4 DEF Creates

\* A write replaces a file that history has.
LEMMA ReplacesRecorded ==
  ASSUME Undisturbed, CalmInv, NEW w \in Writer, SeenRecorded(w), WriteCurrent(w)
  PROVE  Recorded(LocaleOf(w), current[LocaleOf(w)].version) # {}
<1>1. pc[w] = "current"
  BY DEF WriteCurrent
<1>2. TypeInv /\ FreshAt(w) /\ PlanAt(pc[w], job[w]) /\ WrittenAt(w)
  BY DEF CalmInv, OwnerInv, Fresh, RecordInv, PlanOK, WrittenSoFar
<1>3. current[LocaleOf(w)] = job[w].seen
  BY <1>1, <1>2 DEF FreshAt, Engaged, MutationStep, Owns, AsRead, Undisturbed
<1>4. CASE job[w].seed = NoSeed \/ job[w].seed.version # job[w].seen.version
  BY <1>1, <1>3, <1>4 DEF SeenRecorded, AfterPlan
<1>5. CASE job[w].seed # NoSeed /\ job[w].seed.version = job[w].seen.version
  <2>1. job[w].next.version = job[w].seen.version + 1 /\ job[w].seen.version \in Nat
    BY <1>1, <1>2, <1>5, MutationTypes DEF PlanAt, AfterPlan, MutationStep, Catalog, Version
  <2>2. job[w].next.version - 1 = job[w].seen.version
    BY <2>1
  <2>3. Recorded(LocaleOf(w), job[w].next.version - 1) # {}
    BY <1>1, <1>2 DEF WrittenAt, BaseRecorded
  <2>4. QED
    BY <1>3, <2>2, <2>3
<1>6. QED
  BY <1>4, <1>5

LEMMA StandsKept ==
  ASSUME Undisturbed, CalmInv, StandsInv, [Next]_vars,
         NEW l \in Locale, NEW f \in Catalog \union {NoFile}, Stands(l, f)
  PROVE  Stands(l, f)'
<1> SUFFICES ASSUME f # NoFile
             PROVE  \/ \E s \in Recorded(l, f.version)' : s.entries = f.entries
                    \/ Recorded(l, f.version)' = {} /\ current'[l] = f
  BY DEF Stands
<1>1. TypeInv /\ RecordInv /\ history \subseteq history'
  BY CalmSteps DEF CalmInv
<1>2. CASE \E s \in Recorded(l, f.version) : s.entries = f.entries
  BY <1>1, <1>2 DEF Recorded
<1>3. CASE Recorded(l, f.version) = {} /\ current[l] = f
  <2>1. CASE UNCHANGED <<current, history>>
    BY <1>3, <2>1 DEF Recorded
  <2>2. ASSUME NEW w \in Writer, Creates(w), UNCHANGED current
        PROVE  \/ \E s \in Recorded(l, f.version)' : s.entries = f.entries
               \/ Recorded(l, f.version)' = {} /\ current'[l] = f
    <3>1. CASE LocaleOf(w) = l
      <4>1. PICK s : /\ history' = history \union {s} /\ s.locale = l
                     /\ s.version = f.version => s.entries = f.entries
        BY <1>3, <2>2, <3>1, CreatesWhatIsLive
      <4>2. CASE s.version = f.version
        BY <4>1, <4>2 DEF Recorded
      <4>3. CASE s.version # f.version
        <5>1. Recorded(l, f.version)' = {}
          BY <1>3, <4>1, <4>3 DEF Recorded
        <5>2. QED
          BY <1>3, <2>2, <5>1
      <4>4. QED
        BY <4>2, <4>3
    <3>2. CASE LocaleOf(w) # l
      <4>1. PICK s : history' = history \union {s} /\ s.locale = LocaleOf(w)
        BY <1>1, <2>2, CreatesWhat
      <4>2. Recorded(l, f.version)' = {}
        BY <1>3, <3>2, <4>1 DEF Recorded
      <4>3. QED
        BY <1>3, <2>2, <4>2
    <3>3. QED
      BY <3>1, <3>2
  <2>3. ASSUME NEW w \in Writer, WriteCurrent(w), UNCHANGED history
        PROVE  Recorded(l, f.version)' = {} /\ current'[l] = f
    <3>1. LocaleOf(w) # l
      BY <1>3, <2>3, ReplacesRecorded DEF StandsInv
    <3>2. current'[l] = current[l]
      BY <1>1, <2>3, <3>1 DEF WriteCurrent, TypeInv, TypeOK
    <3>3. Recorded(l, f.version)' = {}
      BY <1>3, <2>3 DEF Recorded
    <3>4. QED
      BY <1>3, <3>2, <3>3
  <2>4. QED
    BY <2>1, <2>2, <2>3, CalmSteps
<1>4. QED
  BY <1>2, <1>3 DEF Stands

LEMMA StandsPreserved ==
  ASSUME Undisturbed, CalmInv, StandsInv, [Next]_vars
  PROVE  StandsInv'
<1>1. \A w \in Writer : SeenRecorded(w)'
  BY SeenPreserved DEF StandsInv
<1>2. TypeInv /\ RecordInv /\ current \in [Locale -> Catalog \union {NoFile}]
  BY DEF CalmInv, TypeInv, TypeOK
<1>3. ASSUME NEW l \in Locale, current'[l] = current[l]
      PROVE  Stands(l, current[l])'
  <2>1. PICK f \in Catalog \union {NoFile} : f = current[l]
    BY <1>2
  <2>2. Stands(l, f)
    BY <2>1 DEF StandsInv
  <2>3. Stands(l, f)'
    BY <2>2, StandsKept
  <2>4. QED
    BY <1>3, <2>1, <2>3
<1>4. ASSUME NEW w \in Writer, WriteCurrent(w), UNCHANGED history, NEW l \in Locale
      PROVE  Stands(l, current[l])'
  <2>1. /\ pc[w] = "current"
        /\ current'[l] = IF l = LocaleOf(w) THEN job[w].next ELSE current[l]
    BY <1>2, <1>4 DEF WriteCurrent
  <2>2. CASE l # LocaleOf(w)
    BY <1>3, <2>1, <2>2
  <2>3. CASE l = LocaleOf(w)
    <3>1. Recorded(l, job[w].next.version) = {NextSnapshot(w)}
      BY <1>2, <2>1, <2>3 DEF RecordInv, WrittenSoFar, WrittenAt
    <3>2. NextSnapshot(w).entries = job[w].next.entries
      BY DEF NextSnapshot
    <3>3. PICK v, e : v = job[w].next.version /\ e = job[w].next.entries
      OBVIOUS
    <3>4. \E s \in Recorded(l, v)' : s.entries = e
      BY <1>4, <3>1, <3>2, <3>3 DEF Recorded
    <3>5. current'[l].version = v /\ current'[l].entries = e
      BY <2>1, <2>3, <3>3
    <3>6. QED
      BY <3>4, <3>5 DEF Stands, Recorded
  <2>4. QED
    BY <2>2, <2>3
<1>5. \A l \in Locale : Stands(l, current[l])'
  BY <1>3, <1>4, CalmSteps
<1>6. QED
  BY <1>1, <1>5 DEF StandsInv

\* What a read has found stands for its version.
MeansInv == (\A l \in Locale : Stands(l, read.catalogs[l])) /\ Stands(read.code, read.own)

LEMMA MeansPreserved ==
  ASSUME Undisturbed, CalmInv, StandsInv, ReadTypeInv, LiveInv, MeansInv, [ReadNext]_allVars
  PROVE  MeansInv'
<1>1. /\ read \in ReadType /\ Stage
      /\ current \in [Locale -> Catalog \union {NoFile}]
  BY DEF ReadTypeInv, ReadTypeOK, CalmInv, TypeInv, TypeOK
<1>2. ASSUME UNCHANGED <<current, history>>, NEW l, NEW f, Stands(l, f)
      PROVE  Stands(l, f)'
  BY <1>2 DEF Stands, Recorded
<1>3. ASSUME UNCHANGED <<current, history>>, read'.catalogs = read.catalogs,
             read'.own = read.own, read'.code = read.code
      PROVE  MeansInv'
  BY <1>2, <1>3 DEF MeansInv, Stands, Recorded
<1>4. ASSUME NEW code \in Locale, NEW version \in Named \union {AnyVersion}, Get(code, version)
      PROVE  MeansInv'
  <2>1. read.at = "idle" /\ read.own = NoFile /\ \A l \in Locale : read.catalogs[l] = NoFile
    BY <1>1, <1>4 DEF Get, Stage, LiveInv
  <2>2. read'.catalogs = read.catalogs /\ read'.own = NoFile
    BY <1>1, <1>4, <2>1 DEF Get, ReadType
  <2>3. QED
    BY <2>1, <2>2 DEF MeansInv, Stands
<1>5. ASSUME NEW l \in Locale, ReadFile(l)
      PROVE  MeansInv'
  <2>1. PICK found \in {current[l], NoFile} :
          read' = [read EXCEPT !.catalogs[l] = found, !.todo = @ \ {l},
                               !.at = IF read.todo = {l} THEN "own" ELSE "files"]
    BY <1>5 DEF ReadFile, MayRead
  <2>2. UNCHANGED <<current, history>> /\ read.own = NoFile
    BY <1>1, <1>5 DEF ReadFile, Stage, vars, disk
  <2>3. read'.own = NoFile /\ \A x \in Locale : read'.catalogs[x] \in {read.catalogs[x], current[x], NoFile}
    BY <1>1, <2>1, <2>2 DEF ReadType
  <2>4. ASSUME NEW x \in Locale
        PROVE  Stands(x, read.catalogs[x])' 
    <3>1. PICK f : f = read'.catalogs[x]
      OBVIOUS
    <3>2. Stands(x, f)
      BY <2>3, <3>1 DEF MeansInv, StandsInv, Stands
    <3>3. Stands(x, f)'
      BY <1>2, <2>2, <3>2
    <3>4. QED
      BY <3>1, <3>3
  <2>5. QED
    BY <2>3, <2>4 DEF MeansInv, Stands
<1>6. CASE PickOwn
  <2>1. /\ UNCHANGED <<current, history>> /\ read.own = NoFile
        /\ read'.catalogs = read.catalogs /\ read'.code = read.code
    BY <1>1, <1>6 DEF PickOwn, NotFound, ReadType, Stage, vars, disk
  <2>2. CASE read'.own = NoFile
    BY <1>3, <2>1, <2>2
  <2>3. ASSUME read'.own \in Candidates(read.catalogs[read.code])
        PROVE  MeansInv'
    <3>1. PICK f : f = read'.own
      OBVIOUS
    <3>2. Stands(read.code, f)
      <4>1. CASE f = NoFile \/ f = read.catalogs[read.code]
        BY <1>1, <4>1 DEF MeansInv, Stands, ReadType
      <4>2. ASSUME NEW s \in Recorded(read.code, read.version),
                   f = [version |-> s.version, entries |-> s.entries]
            PROVE  Stands(read.code, f)
        <5>1. f.version = read.version /\ f.entries = s.entries
          BY <4>2 DEF Recorded
        <5>2. QED
          BY <4>2, <5>1 DEF Stands
      <4>3. QED
        BY <2>3, <3>1, <4>1, <4>2 DEF Candidates
    <3>3. Stands(read.code, f)'
      <4>1. PICK l : l = read.code
        OBVIOUS
      <4>2. Stands(l, f)'
        BY <1>2, <2>1, <3>2, <4>1
      <4>3. QED
        BY <2>1, <4>1, <4>2
    <3>4. \A l \in Locale : Stands(l, read.catalogs[l])'
      BY <1>2, <2>1 DEF MeansInv, Stands, Recorded
    <3>5. Stands(read.code, read.own)'
      BY <3>1, <3>3
    <3>6. QED
      BY <3>4, <3>5 DEF MeansInv
  <2>4. read'.own = NoFile \/ read'.own \in Candidates(read.catalogs[read.code])
    BY <1>1, <1>6, <2>1 DEF PickOwn, NotFound, ReadType
  <2>5. QED
    BY <2>2, <2>3, <2>4
<1>7. CASE ReadConfigFile \/ Follow \/ EndWalk \/ MergeFallback \/ Answer
  BY <1>1, <1>3, <1>7
     DEF ReadConfigFile, Follow, EndWalk, MergeFallback, Answer, ReadType, vars, disk
<1>8. CASE StoreStep
  <2>1. UNCHANGED read /\ [Next]_vars
    BY <1>8 DEF StoreStep
  <2>2. ASSUME NEW l \in Locale, NEW f \in Catalog \union {NoFile}, Stands(l, f)
        PROVE  Stands(l, f)'
    BY <2>1, <2>2, StandsKept
  <2>3. ASSUME NEW l \in Locale
        PROVE  Stands(l, read.catalogs[l])'
    <3>1. PICK f \in Catalog \union {NoFile} : f = read.catalogs[l]
      BY <1>1 DEF ReadType
    <3>2. Stands(l, f)'
      BY <2>2, <3>1 DEF MeansInv
    <3>3. QED
      BY <2>1, <3>1, <3>2
  <2>4. Stands(read.code, read.own)'
    <3>1. PICK l \in Locale, f \in Catalog \union {NoFile} : l = read.code /\ f = read.own
      BY <1>1 DEF ReadType
    <3>2. Stands(l, f)'
      BY <2>2, <3>1 DEF MeansInv
    <3>3. QED
      BY <2>1, <3>1, <3>2
  <2>5. QED
    BY <2>3, <2>4 DEF MeansInv
<1>9. CASE UNCHANGED allVars
  BY <1>3, <1>9 DEF allVars, vars, disk, readVars
<1>10. QED
  BY <1>4, <1>5, <1>6, <1>7, <1>8, <1>9 DEF ReadNext, ReadStep

\* The number a reader sees names the entries that its write is answered with,
\* also if the snapshot was read before that write was done (SnapshotOrCurrent,
\* L298-301), as long as one process serves the folder, nothing fails and nobody
\* edits: else a number can be given twice, to what a person removed in between.
THEOREM NumbersMeanOneThing ==
  ASSUME Undisturbed
  PROVE  ReadSpec => []VersionsMeanOneThing
<1>1. ReadInit => CalmInv /\ StandsInv /\ MeansInv
  <2> SUFFICES ASSUME ReadInit PROVE CalmInv /\ StandsInv /\ MeansInv
    OBVIOUS
  <2>1. Init
    BY DEF ReadInit
  <2>2. CalmInv
    <3>1. UpToDate /\ spent.faults = 0
      BY <2>1 DEF Init, UpToDate
    <3>2. QED
      BY <2>1, <3>1, InitTypes, InitRecord, InitOwners, InitGate, InitUnhurt DEF CalmInv
  <2>3. StandsInv
    BY <2>1 DEF Init, StandsInv, SeenRecorded, Stands, Recorded, AfterPlan
  <2>4. MeansInv
    BY DEF ReadInit, MeansInv, Stands
  <2>5. QED
    BY <2>2, <2>3, <2>4
<1>2. CalmInv /\ StandsInv /\ [ReadNext]_allVars => CalmInv' /\ StandsInv'
  BY CalmPreserved, StandsPreserved, ReadsWriteNothing
<1>3. CalmInv /\ StandsInv /\ ReadTypeInv /\ LiveInv /\ MeansInv /\ [ReadNext]_allVars => MeansInv'
  BY MeansPreserved
<1>4. CalmInv /\ MeansInv => VersionsMeanOneThing
  <2> SUFFICES ASSUME CalmInv, MeansInv, Answered, NEW a \in applied,
                      a.locale = read.code, a.after.version = read.own.version
               PROVE  read.own.entries = a.after.entries
    BY DEF VersionsMeanOneThing
  <2>1. Recorded(read.code, read.own.version) =
          {[locale |-> a.locale, version |-> a.after.version,
            entries |-> a.after.entries, action |-> a.change.op]}
    BY DEF CalmInv, RecordInv, AppliedIsRecorded
  <2>2. \E s \in Recorded(read.code, read.own.version) : s.entries = read.own.entries
    BY <2>1 DEF MeansInv, Stands, Answered
  <2>3. QED
    BY <2>1, <2>2
<1>5. QED
  BY <1>1, <1>2, <1>3, <1>4, LiveInvariant, ReadTypeInvariant, PTL DEF ReadSpec

=============================================================================
