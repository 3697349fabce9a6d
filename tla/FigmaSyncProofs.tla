-------------------------- MODULE FigmaSyncProofs ---------------------------
(***************************************************************************)
(* Proofs about FigmaSync, for any exports, ledgers and authors, and any   *)
(* number of runs, edits, crashes and restores: what the ledger promises   *)
(* of its releases, what passes --check, and what a run that succeeds      *)
(* says.                                                                   *)
(***************************************************************************)
EXTENDS FigmaSync, SequenceTheorems, TLAPS

-----------------------------------------------------------------------------
(* Token sets.                                                             *)

\* No path of a mode has two tokens.
Unique(tokens) ==
  \A t, u \in tokens : t.mode = u.mode /\ t.path = u.path => t = u

EntryOf(files, f, p) ==
  [mode |-> ModeOf[f], path |-> p, type |-> files[f][p].type, value |-> files[f][p].value]

LEMMA TokensOfFiles ==
  ASSUME NEW files
  PROVE  /\ \A f \in DOMAIN files : \A p \in DOMAIN files[f] : EntryOf(files, f, p) \in Tokens(files)
         /\ \A t \in Tokens(files) : \E f \in DOMAIN files : \E p \in DOMAIN files[f] : t = EntryOf(files, f, p)
BY DEF Tokens, EntryOf

LEMMA TokensAreTyped ==
  ASSUME NEW files, IsExport(files)
  PROVE  Tokens(files) \subseteq Entry
<1> SUFFICES ASSUME NEW t \in Tokens(files) PROVE t \in Entry
    OBVIOUS
<1>1. PICK f \in DOMAIN files : \E p \in DOMAIN files[f] : t = EntryOf(files, f, p)
      BY TokensOfFiles
<1>a. PICK p \in DOMAIN files[f] : t = EntryOf(files, f, p)
      BY <1>1
<1>2. f \in File /\ p \in Path /\ files[f][p] \in Token
      BY DEF IsExport, IsFile
<1> QED BY <1>a, <1>2 DEF EntryOf, Entry, Token, Mode

LEMMA TokensAreUnique ==
  ASSUME NEW files, Parses(files)
  PROVE  Unique(Tokens(files))
<1> SUFFICES ASSUME NEW t \in Tokens(files), NEW u \in Tokens(files), t.mode = u.mode, t.path = u.path
             PROVE  t = u
    BY DEF Unique
<1>1. PICK f \in DOMAIN files : \E p \in DOMAIN files[f] : t = EntryOf(files, f, p)
      BY TokensOfFiles
<1>2. PICK g \in DOMAIN files : \E q \in DOMAIN files[g] : u = EntryOf(files, g, q)
      BY TokensOfFiles
<1>3. PICK p \in DOMAIN files[f] : t = EntryOf(files, f, p)
      BY <1>1
<1>4. PICK q \in DOMAIN files[g] : u = EntryOf(files, g, q)
      BY <1>2
<1>5. ModeOf[f] = ModeOf[g] /\ p = q
      BY <1>3, <1>4 DEF EntryOf
<1>6. f = g
      BY <1>5 DEF Parses
<1> QED BY <1>3, <1>4, <1>5, <1>6

-----------------------------------------------------------------------------
(* Diffs: every token that one side alone has, and every pair that shows a *)
(* difference, is one change.                                              *)

SameKey(t, u) == t.mode = u.mode /\ t.path = u.path

LEMMA AtIsOne ==
  ASSUME NEW tokens, Unique(tokens), NEW t \in tokens
  PROVE  At(tokens, t.mode, t.path) = {t}
BY DEF Unique, At

LEMMA DiffIs ==
  ASSUME NEW source, NEW target, NEW c
  PROVE  c \in Diff(source, target) <=>
           \/ \E u \in Tokens(target) : At(Tokens(source), u.mode, u.path) = {} /\ c = Added(u)
           \/ \E t \in Tokens(source) : At(Tokens(target), t.mode, t.path) = {} /\ c = Removed(t)
           \/ \E t \in Tokens(source), u \in Tokens(target) : SameKey(t, u) /\ Differ(t, u) /\ c = Changed(t, u)
<1> DEFINE before == Tokens(source)
           after == Tokens(target)
<1>1. Diff(source, target) =
        {Added(u) : u \in {v \in after : At(before, v.mode, v.path) = {}}}
          \union {Removed(t) : t \in {v \in before : At(after, v.mode, v.path) = {}}}
          \union UNION {{Changed(t, u) : u \in {v \in At(after, t.mode, t.path) : Differ(t, v)}} : t \in before}
      BY DEF Diff
<1> HIDE DEF before, after
<1>2. c \in Diff(source, target) <=>
           \/ \E u \in after : At(before, u.mode, u.path) = {} /\ c = Added(u)
           \/ \E t \in before : At(after, t.mode, t.path) = {} /\ c = Removed(t)
           \/ \E t \in before, u \in after : SameKey(t, u) /\ Differ(t, u) /\ c = Changed(t, u)
  <2>1. \A t, u : u \in At(after, t.mode, t.path) <=> u \in after /\ SameKey(t, u)
        BY DEF At, SameKey
  <2> QED BY <1>1, <2>1
<1> QED BY <1>2 DEF before, after

LEMMA DiffIsTyped ==
  ASSUME NEW source, NEW target, IsExport(source), IsExport(target)
  PROVE  Diff(source, target) \subseteq TokenChange
<1> SUFFICES ASSUME NEW c \in Diff(source, target) PROVE c \in TokenChange
    OBVIOUS
<1>1. Tokens(source) \subseteq Entry /\ Tokens(target) \subseteq Entry
      BY TokensAreTyped
<1>2. \A t \in Entry : /\ t.mode \in Mode /\ t.path \in Path /\ t.type \in Type
                       /\ Display[t.value] \in Displayable
      BY DEF Entry, Displayable
<1>3. NoType \in Type /\ Nothing \in Displayable
      BY ExportAssumption DEF Displayable
<1> QED BY <1>1, <1>2, <1>3, DiffIs DEF TokenChange, Added, Removed, Changed, ChangeOf

\* What a diff says of a change is all that was to be seen: applied to what the
\* first export shows, it gives what the second shows (diff.ts L25-91).
LEMMA DiffReplays ==
  ASSUME NEW source, NEW target, Parses(source), Parses(target)
  PROVE  Shown(Tokens(target)) = Apply(Diff(source, target), Shown(Tokens(source)))
<1> DEFINE before == Tokens(source)
           after == Tokens(target)
           look(t) == [mode |-> t.mode, path |-> t.path, type |-> t.type, shows |-> Display[t.value]]
           changes == Diff(source, target)
<1>1. Unique(before) /\ Unique(after)
      BY TokensAreUnique
<1>2. \A c : c \in changes <=>
           \/ \E u \in after : At(before, u.mode, u.path) = {} /\ c = Added(u)
           \/ \E t \in before : At(after, t.mode, t.path) = {} /\ c = Removed(t)
           \/ \E t \in before, u \in after : SameKey(t, u) /\ Differ(t, u) /\ c = Changed(t, u)
      BY DiffIs
<1> HIDE DEF before, after, changes
<1>3. \A tokens : \A s : s \in Shown(tokens) <=> \E t \in tokens : s = look(t)
      BY DEF Shown
<1>4. \A s : s \in Apply(changes, Shown(before)) <=>
        \/ s \in Shown(before) /\ ~ \E c \in changes : c.mode = s.mode /\ c.path = s.path
        \/ \E c \in changes : /\ c.kind # "removed"
                              /\ s = [mode |-> c.mode, path |-> c.path, type |-> c.type, shows |-> c.after]
      BY DEF Apply
<1>5. ASSUME NEW u \in after PROVE look(u) \in Apply(changes, Shown(before))
  <2>1. CASE At(before, u.mode, u.path) = {}
    <3>1. Added(u) \in changes
          BY <1>2, <2>1
    <3> QED BY <1>4, <3>1 DEF Added, ChangeOf
  <2>2. CASE At(before, u.mode, u.path) # {}
    <3>1. PICK t \in before : SameKey(t, u)
          BY <2>2 DEF At, SameKey
    <3>2. CASE Differ(t, u)
      <4>1. Changed(t, u) \in changes
            BY <1>2, <3>1, <3>2
      <4> QED BY <1>4, <3>1, <4>1 DEF Changed, ChangeOf, SameKey
    <3>3. CASE ~ Differ(t, u)
      <4>1. look(u) = look(t) /\ look(t) \in Shown(before)
            BY <1>3, <3>1, <3>3 DEF Differ, SameKey
      <4>2. ASSUME NEW c \in changes, c.mode = u.mode, c.path = u.path PROVE FALSE
        <5>1. ASSUME NEW v \in after, At(before, v.mode, v.path) = {}, c = Added(v) PROVE FALSE
              BY <3>1, <4>2, <5>1 DEF At, SameKey, Added, ChangeOf
        <5>2. ASSUME NEW v \in before, At(after, v.mode, v.path) = {}, c = Removed(v) PROVE FALSE
              BY <4>2, <5>2 DEF At, Removed, ChangeOf
        <5>3. ASSUME NEW v \in before, NEW w \in after, SameKey(v, w), Differ(v, w), c = Changed(v, w) PROVE FALSE
          <6>1. v = t /\ w = u
                BY <1>1, <3>1, <4>2, <5>3 DEF Unique, SameKey, Changed, ChangeOf
          <6> QED BY <3>3, <5>3, <6>1
        <5> QED BY <1>2, <5>1, <5>2, <5>3
      <4> QED BY <1>4, <4>1, <4>2
    <3> QED BY <3>2, <3>3
  <2> QED BY <2>1, <2>2
<1>6. ASSUME NEW s \in Apply(changes, Shown(before)) PROVE \E u \in after : s = look(u)
  <2>1. CASE s \in Shown(before) /\ ~ \E c \in changes : c.mode = s.mode /\ c.path = s.path
    <3>1. PICK t \in before : s = look(t)
          BY <1>3, <2>1
    <3>2. Removed(t).mode = s.mode /\ Removed(t).path = s.path
          BY <3>1 DEF Removed, ChangeOf
    <3>3. PICK u \in after : SameKey(t, u)
          BY <1>2, <2>1, <3>2 DEF At, SameKey
    <3>4. Changed(t, u).mode = s.mode /\ Changed(t, u).path = s.path
          BY <3>1 DEF Changed, ChangeOf
    <3>5. ~ Differ(t, u)
          BY <1>2, <2>1, <3>3, <3>4
    <3> QED BY <3>1, <3>3, <3>5 DEF Differ, SameKey
  <2>2. ASSUME NEW c \in changes, c.kind # "removed",
               s = [mode |-> c.mode, path |-> c.path, type |-> c.type, shows |-> c.after]
        PROVE  \E u \in after : s = look(u)
    <3>1. ASSUME NEW u \in after, c = Added(u) PROVE s = look(u)
          BY <2>2, <3>1 DEF Added, ChangeOf
    <3>2. ASSUME NEW t \in before, c = Removed(t) PROVE FALSE
          BY <2>2, <3>2 DEF Removed, ChangeOf
    <3>3. ASSUME NEW t \in before, NEW u \in after, SameKey(t, u), c = Changed(t, u) PROVE s = look(u)
          BY <2>2, <3>3 DEF Changed, ChangeOf, SameKey
    <3> QED BY <1>2, <3>1, <3>2, <3>3
  <2> QED BY <1>4, <2>1, <2>2
<1>7. \A s : s \in Shown(after) <=> s \in Apply(changes, Shown(before))
      BY <1>3, <1>5, <1>6
<1> QED BY <1>7 DEF before, after, changes

-----------------------------------------------------------------------------
(* Bumps and versions.                                                     *)

\* As long as a release is not a major one, tokens stay, with their types.
LEMMA MinorKeepsTokens ==
  ASSUME NEW source, NEW target, Parses(source), Parses(target),
         BumpFor(Diff(source, target)) # "major",
         NEW t \in Tokens(source)
  PROVE  \E u \in At(Tokens(target), t.mode, t.path) : t.type # NoType => u.type = t.type
<1>1. \A c \in Diff(source, target) : c.kind # "removed" /\ c.retypedFrom = NoType
  <2> DEFINE changes == Diff(source, target)
  <2> HIDE DEF changes
  <2>1. BumpFor(changes) # "major" => \A c \in changes : c.kind # "removed" /\ c.retypedFrom = NoType
        BY DEF BumpFor
  <2> QED BY <2>1 DEF changes
<1>2. At(Tokens(target), t.mode, t.path) # {}
  <2>1. Removed(t).kind = "removed"
        BY DEF Removed, ChangeOf
  <2> QED BY <1>1, <2>1, DiffIs
<1>3. PICK u \in At(Tokens(target), t.mode, t.path) : TRUE
      BY <1>2
<1>4. u \in Tokens(target) /\ SameKey(t, u)
      BY DEF At, SameKey
<1>5. t.type # NoType => u.type = t.type
  <2>1. SUFFICES ASSUME t.type # NoType, u.type # t.type PROVE FALSE
        OBVIOUS
  <2>2. Changed(t, u) \in Diff(source, target)
        BY <1>4, <2>1, DiffIs DEF Differ
  <2>3. Changed(t, u).retypedFrom = t.type
        BY <2>1 DEF Changed, ChangeOf
  <2> QED BY <1>1, <2>1, <2>2, <2>3
<1> QED BY <1>3, <1>5

LEMMA OlderIs ==
  ASSUME NEW v \in Version, NEW w \in Version
  PROVE  Older(v, w) <=> \/ v[1] < w[1]
                         \/ v[1] = w[1] /\ v[2] < w[2]
                         \/ v[1] = w[1] /\ v[2] = w[2] /\ v[3] < w[3]
<1>1. (1 .. 3) = {1, 2, 3}
      OBVIOUS
<1>2. \A j : (j \in 1 .. 1 - 1 <=> FALSE) /\ (j \in 1 .. 2 - 1 <=> j = 1) /\ (j \in 1 .. 3 - 1 <=> j = 1 \/ j = 2)
      OBVIOUS
<1> QED BY <1>1, <1>2 DEF Older

LEMMA VersionsOrder ==
  ASSUME NEW u \in Version, NEW v \in Version, NEW w \in Version
  PROVE  /\ Older(u, v) /\ Older(v, w) => Older(u, w)
         /\ Older(u, v) => u[1] <= v[1]
BY OlderIs DEF Version

LEMMA NextVersionIsNewer ==
  ASSUME NEW v \in Version, NEW bump \in {"major", "minor", "patch"}
  PROVE  /\ NextVersion(v, bump) \in Version /\ Older(v, NextVersion(v, bump))
         /\ NextVersion(v, bump)[1] = v[1] => bump # "major"
<1>1. /\ NextVersion(v, "major") = <<v[1] + 1, 0, 0>>
      /\ NextVersion(v, "minor") = <<v[1], v[2] + 1, 0>>
      /\ NextVersion(v, "patch") = <<v[1], v[2], v[3] + 1>>
      BY DEF NextVersion
<1>2. v[1] \in Nat /\ v[2] \in Nat /\ v[3] \in Nat
      BY DEF Version
<1>3. NextVersion(v, bump) \in Version
      BY <1>1, <1>2 DEF Version
<1> QED BY <1>1, <1>2, <1>3, OlderIs

-----------------------------------------------------------------------------
(* The inductive invariant.                                                *)

IsList(s) == s \in Seq({s[i] : i \in DOMAIN s})

\* A release that went through the rules.
Approved(release) ==
  Released(release) /\ Transforms(release.digest) /\ "Error" \notin Contrast(release.digest)

Follows(older, newer) == Shown(newer.digest) = Apply(newer.changes, Shown(older.digest))

Compatible(older, newer) ==
  /\ Older(older.version, newer.version)
  /\ newer.version[1] = older.version[1] =>
       \A t \in older.digest : \E u \in At(newer.digest, t.mode, t.path) : t.type # NoType => u.type = t.type

GoodLedger(l) ==
  /\ IsList(l.releases)
  /\ \A i \in DOMAIN l.releases : Approved(l.releases[i])
  /\ \A i \in 1 .. Len(l.releases) - 1 : Follows(l.releases[i + 1], l.releases[i])
  /\ \A i, j \in DOMAIN l.releases : i < j => Compatible(l.releases[j], l.releases[i])
  /\ l.releases = <<>> => l = NoLedger
  /\ l.releases # <<>> => l.version = l.releases[1].version /\ l.digest = l.releases[1].digest

\* Every file comes from some design: a release and a hand edit write no other.
FromDesign(files) == \A f \in DOMAIN files : \E d \in Design : f \in DOMAIN d /\ files[f] = d[f]

\* A plan that the rules approved, against the export and the ledger it was
\* made of.
Fits(plan, committed, old) ==
  /\ plan = [release |-> plan.release, files |-> plan.files, removed |-> plan.removed]
  /\ plan.files \in Design /\ Parses(plan.files)
  /\ plan.removed = DOMAIN committed \ DOMAIN plan.files
  /\ plan.release.digest = Tokens(plan.files)
  /\ plan.release.changes = Diff(committed, plan.files)
  /\ plan.release.bump = BumpFor(plan.release.changes)
  /\ Parses(committed) /\ Transforms(Tokens(committed))
  /\ GoodLedger(Record(old, plan.release))

\* run and published have the fields Init gives them.
Fields ==
  /\ run = [at |-> run.at, code |-> run.code, calm |-> run.calm,
            committed |-> run.committed, old |-> run.old, plan |-> run.plan, todo |-> run.todo]
  /\ published = [changed |-> published.changed, version |-> published.version,
                  request |-> published.request, preview |-> published.preview]

FilesInv ==
  /\ FromDesign(export) /\ FromDesign(head.export)
  /\ torn \subseteq File \union {LedgerFile}

LedgerInv == GoodLedger(ledger) /\ GoodLedger(head.ledger)

RunInv ==
  /\ run.at \in {"exited", "awaiting", "writing", "publishing"}
  /\ run.at \in {"exited", "awaiting"} => run.plan = NoPlan /\ run.todo = {}
  /\ run.at # "exited" => FromDesign(run.committed) /\ GoodLedger(run.old)
  /\ run.at \in {"writing", "publishing"} =>
       Fits(run.plan, run.committed, run.old) /\ run.todo \subseteq Writes(run.committed, run.plan)
  /\ run.at = "publishing" => run.todo = {}

\* While nobody else is at the files, they are what the steps that are done
\* make of the export that was read.
Pending(op, f) == [op |-> op, file |-> f] \in run.todo

ExportSoFar ==
  /\ \A f \in DOMAIN export :
       \/ f \in run.plan.removed /\ Pending("remove", f)
       \/ f \in DOMAIN run.plan.files /\ f \in Rewritten(run.committed, run.plan.files) /\ ~ Pending("write", f)
            /\ export[f] = run.plan.files[f]
       \/ f \in DOMAIN run.plan.files /\ f \in DOMAIN run.committed /\ export[f] = run.committed[f]
            /\ (f \in Rewritten(run.committed, run.plan.files) => Pending("write", f))
  /\ \A f \in DOMAIN run.plan.files : Pending("write", f) \/ f \in DOMAIN export

LedgerSoFar == ledger = IF Pending("write", LedgerFile) THEN run.old ELSE Record(run.old, run.plan.release)

CalmInv ==
  run.calm =>
    /\ run.at = "awaiting" => export = run.committed /\ ledger = run.old
    /\ run.at \in {"writing", "publishing"} => ExportSoFar /\ LedgerSoFar

RequestInv ==
  run.at = "publishing" =>
    /\ published.request = PullRequest(run.plan.release)
    /\ published.preview = Preview(run.committed, run.plan.release)

SyncInv == Fields /\ FilesInv /\ LedgerInv /\ RunInv /\ CalmInv /\ RequestInv /\ SuccessTellsTheTruth

-----------------------------------------------------------------------------
(* Ledgers.                                                                *)

LEMMA ListIs ==
  ASSUME NEW s, IsList(s)
  PROVE  Len(s) \in Nat /\ DOMAIN s = 1 .. Len(s)
BY DEF IsList

LEMMA IsListWhen ==
  ASSUME NEW S, NEW s \in Seq(S)
  PROVE  IsList(s)
<1> DEFINE R == {s[i] : i \in DOMAIN s}
<1>1. PICK n \in Nat : s \in [1 .. n -> S]
      BY SeqDef
<1>2. \A i \in 1 .. n : s[i] \in R
      BY <1>1
<1> HIDE DEF R
<1>3. s \in [1 .. n -> R]
      BY <1>1, <1>2
<1>4. s \in Seq(R)
      BY <1>3, SeqDef
<1> QED BY <1>4 DEF IsList, R

LEMMA Prepend ==
  ASSUME NEW s, IsList(s), NEW r
  PROVE  /\ IsList(<<r>> \o s) /\ Len(<<r>> \o s) = Len(s) + 1 /\ <<r>> \o s # <<>>
         /\ (<<r>> \o s)[1] = r
         /\ \A i \in 1 .. Len(s) : (<<r>> \o s)[i + 1] = s[i]
<1> DEFINE S == {s[i] : i \in DOMAIN s} \union {r}
<1>1. s \in Seq(S) /\ <<r>> \in Seq(S)
      BY DEF IsList
<1> HIDE DEF S
<1>2. /\ <<r>> \o s \in Seq(S) /\ Len(<<r>> \o s) = Len(s) + 1 /\ (<<r>> \o s)[1] = r
      /\ \A i \in 1 .. Len(s) : (<<r>> \o s)[i + 1] = s[i]
      BY <1>1
<1>3. IsList(<<r>> \o s)
      BY <1>2, IsListWhen
<1>4. <<r>> \o s # <<>>
      BY <1>1, <1>2, LenProperties, EmptySeq
<1> QED BY <1>2, <1>3, <1>4

LEMMA CompatibleIsTransitive ==
  ASSUME NEW a, NEW b, NEW c, Approved(a), Approved(b), Approved(c), Compatible(a, b), Compatible(b, c)
  PROVE  Compatible(a, c)
<1>1. a.version \in Version /\ b.version \in Version /\ c.version \in Version
      BY DEF Approved, Released
<1>2. Older(a.version, c.version) /\ a.version[1] <= b.version[1] /\ b.version[1] <= c.version[1]
      BY <1>1, VersionsOrder DEF Compatible
<1>3. ASSUME c.version[1] = a.version[1], NEW t \in a.digest
      PROVE  \E v \in At(c.digest, t.mode, t.path) : t.type # NoType => v.type = t.type
  <2>1. b.version[1] = a.version[1] /\ c.version[1] = b.version[1]
        BY <1>1, <1>2, <1>3 DEF Version
  <2>2. PICK u \in At(b.digest, t.mode, t.path) : t.type # NoType => u.type = t.type
        BY <1>3, <2>1 DEF Compatible
  <2>3. u \in b.digest /\ u.mode = t.mode /\ u.path = t.path
        BY <2>2 DEF At
  <2>4. PICK v \in At(c.digest, u.mode, u.path) : u.type # NoType => v.type = u.type
        BY <2>1, <2>3 DEF Compatible
  <2> QED BY <2>2, <2>3, <2>4
<1> QED BY <1>2, <1>3 DEF Compatible

LEMMA RecordIsGood ==
  ASSUME NEW old, GoodLedger(old), old.releases # <<>>,
         NEW release, Approved(release), Follows(old.releases[1], release), Compatible(old.releases[1], release)
  PROVE  GoodLedger(Record(old, release))
<1> DEFINE s == old.releases
           list == <<release>> \o s
<1>1. IsList(s) /\ Len(s) \in Nat /\ DOMAIN s = 1 .. Len(s)
      BY ListIs DEF GoodLedger
<1>2. /\ IsList(list) /\ Len(list) = Len(s) + 1 /\ list # <<>> /\ list[1] = release
      /\ \A i \in 1 .. Len(s) : list[i + 1] = s[i]
      BY <1>1, Prepend
<1>3. DOMAIN list = 1 .. Len(s) + 1
      BY <1>2, ListIs
<1>4. Len(s) >= 1
      BY <1>1 DEF IsList
<1>5. Record(old, release) = [version |-> release.version, digest |-> release.digest, releases |-> list]
      BY DEF Record
<1> HIDE DEF list
<1>6. \A i \in 1 .. Len(s) + 1 : i = 1 \/ (i - 1 \in 1 .. Len(s) /\ list[i] = s[i - 1])
      BY <1>1, <1>2
<1>7. \A i \in DOMAIN list : Approved(list[i])
      BY <1>1, <1>2, <1>3, <1>6 DEF GoodLedger
<1>8. ASSUME NEW i \in 1 .. Len(list) - 1 PROVE Follows(list[i + 1], list[i])
  <2>1. CASE i = 1
    <3>1. 1 \in 1 .. Len(s)
          BY <1>1, <1>4
    <3>2. list[i] = release /\ list[i + 1] = s[1]
          BY <1>2, <2>1, <3>1
    <3> QED BY <3>2
  <2>2. CASE i # 1
    <3>1. Len(s) \in Nat /\ Len(list) = Len(s) + 1
          BY <1>1, <1>2
    <3>2. i \in 1 .. Len(s) /\ i \in 1 .. Len(s) + 1 /\ i - 1 \in 1 .. Len(s) - 1 /\ (i - 1) + 1 = i
          BY <2>2, <3>1
    <3>3. list[i + 1] = s[i]
          BY <1>2, <3>2
    <3>4. list[i] = s[i - 1]
          BY <1>6, <2>2, <3>2
    <3>5. Follows(s[(i - 1) + 1], s[i - 1])
          BY <3>2 DEF GoodLedger
    <3> QED BY <3>2, <3>3, <3>4, <3>5
  <2> QED BY <2>1, <2>2
<1>9. ASSUME NEW i \in DOMAIN list, NEW j \in DOMAIN list, i < j PROVE Compatible(list[j], list[i])
  <2>1. j # 1 /\ j - 1 \in 1 .. Len(s) /\ list[j] = s[j - 1]
        BY <1>3, <1>6, <1>9
  <2>2. CASE i # 1
    <3>1. i - 1 \in 1 .. Len(s) /\ list[i] = s[i - 1] /\ i - 1 < j - 1
          BY <1>3, <1>6, <1>9, <2>2
    <3> QED BY <1>1, <2>1, <3>1 DEF GoodLedger
  <2>3. CASE i = 1 /\ j = 2
        BY <1>2, <2>1, <2>3
  <2>4. CASE i = 1 /\ j # 2
    <3>1. 1 < j - 1 /\ 1 \in DOMAIN s /\ j - 1 \in DOMAIN s
          BY <1>1, <1>3, <1>4, <2>1, <2>4
    <3>2. Compatible(s[j - 1], s[1]) /\ Approved(s[1]) /\ Approved(s[j - 1])
          BY <3>1 DEF GoodLedger
    <3> QED BY <1>2, <2>1, <2>4, <3>2, CompatibleIsTransitive
  <2> QED BY <2>2, <2>3, <2>4
<1> QED BY <1>2, <1>5, <1>7, <1>8, <1>9 DEF GoodLedger

-----------------------------------------------------------------------------
(* What the rules approve.                                                 *)

LEMMA PassesWhen ==
  ASSUME NEW check, ~ \E e \in Run(check).errors : Blocks(e)
  PROVE  ~ check.threw /\ \A e \in check.errors : e.severity # "Error"
<1>1. CASE check.threw
  <2>1. Run(check).errors = {Violation("RULE_THREW", "Error")}
        BY <1>1 DEF Run
  <2> QED BY <2>1 DEF Blocks, Violation
<1>2. CASE ~ check.threw
  <2>1. Run(check).errors = check.errors
        BY <1>2 DEF Run
  <2> QED BY <1>2, <2>1 DEF Blocks
<1> QED BY <1>1, <1>2

LEMMA RulesApprove ==
  ASSUME NEW incoming, NEW committed, NEW old, NEW author,
         Validate(Rules(incoming, committed, old, author)).approved
  PROVE  /\ incoming # Nothing /\ Parses(incoming) /\ Transforms(Tokens(incoming))
         /\ "Error" \notin Contrast(Tokens(incoming))
         /\ Parses(committed) /\ Verifies(old, Digest(committed))
<1> DEFINE checks == Rules(incoming, committed, old, author)
           themed == ThemeOK(incoming)
           drift == ~ Verifies(old, Digest(committed))
           contrast == Contrast(Tokens(incoming))
<1>1. /\ DOMAIN checks = {"ExportIsWellFormed", "ExportSatisfiesThemeContract", "CommittedExportMatchesLedger",
                          "ChangeIsAttributable", "TextRemainsReadable"}
      /\ checks.ExportIsWellFormed = Found(Fails(incoming = Nothing \/ incoming = <<>>, "FIGMA_PAYLOAD"))
      /\ checks.ExportSatisfiesThemeContract = Found(Fails(incoming # Nothing /\ ~ themed, "TOKEN_CONTRACT"))
      /\ checks.CommittedExportMatchesLedger =
           IF ~ Parses(committed) THEN Threw ELSE Found(Fails(drift, "LEDGER_DRIFT"))
      /\ checks.TextRemainsReadable =
           Found(IF themed THEN {Violation("CONTRAST_AA", s) : s \in contrast} ELSE {})
      BY DEF Rules
<1>2. \A rule \in DOMAIN checks : ~ \E e \in Run(checks[rule]).errors : Blocks(e)
  <2> HIDE DEF checks
  <2> QED BY DEF Validate, checks
<1> HIDE DEF checks, drift, contrast, themed
<1>3. \A rule \in DOMAIN checks : ~ checks[rule].threw /\ \A e \in checks[rule].errors : e.severity # "Error"
      BY <1>2, PassesWhen
<1>4. \A condition \in BOOLEAN : \A code :
        (\A e \in Found(Fails(condition, code)).errors : e.severity # "Error") => ~ condition
      BY DEF Found, Fails, Violation
<1>5. /\ \A e \in Found(Fails(incoming = Nothing \/ incoming = <<>>, "FIGMA_PAYLOAD")).errors : e.severity # "Error"
      /\ \A e \in Found(Fails(incoming # Nothing /\ ~ themed, "TOKEN_CONTRACT")).errors : e.severity # "Error"
      BY <1>1, <1>3
<1>6. incoming # Nothing /\ themed
  <2>1. ~ (incoming = Nothing \/ incoming = <<>>)
        BY <1>4, <1>5
  <2>2. ~ (incoming # Nothing /\ ~ themed)
        BY <1>4, <1>5
  <2> QED BY <2>1, <2>2
<1>7. Parses(committed)
  <2>1. ~ checks.CommittedExportMatchesLedger.threw
        BY <1>1, <1>3
  <2> QED BY <1>1, <2>1 DEF Threw
<1>8. ~ drift
  <2>1. \A e \in Found(Fails(drift, "LEDGER_DRIFT")).errors : e.severity # "Error"
        BY <1>1, <1>3, <1>7
  <2> QED BY <2>1, <1>4
<1>9. "Error" \notin contrast
  <2>1. \A e \in {Violation("CONTRAST_AA", s) : s \in contrast} : e.severity # "Error"
        BY <1>1, <1>3, <1>6 DEF Found
  <2>2. Violation("CONTRAST_AA", "Error").severity = "Error"
        BY DEF Violation
  <2> QED BY <2>1, <2>2
<1> QED BY <1>6, <1>7, <1>8, <1>9 DEF themed, drift, contrast, ThemeOK, IncomingParses

LEMMA DesignsAreExports ==
  /\ \A d \in Design : FromDesign(d) /\ IsExport(d)
  /\ \A files : FromDesign(files) => IsExport(files)
BY SyncAssumption DEF FromDesign, IsExport

\* A ledger that verifies an export has a release, and it is of that export.
LEMMA VerifiedIsReleased ==
  ASSUME NEW l, GoodLedger(l), NEW files, IsExport(files), Verifies(l, Digest(files))
  PROVE  /\ l.releases # <<>> /\ 1 \in DOMAIN l.releases
         /\ l.releases[1].version = l.version /\ l.releases[1].digest = Tokens(files)
         /\ Approved(l.releases[1])
<1>1. l.digest = Tokens(files) /\ Tokens(files) \subseteq Entry
      BY TokensAreTyped DEF Verifies, Digest
<1>2. NoLedger.digest = {Nothing}
      BY DEF NoLedger
<1>3. l.releases # <<>>
      BY <1>1, <1>2, SyncAssumption DEF GoodLedger
<1>4. 1 \in DOMAIN l.releases
      BY <1>3, ListIs, LenProperties, EmptySeq DEF GoodLedger, IsList
<1> QED BY <1>1, <1>3, <1>4 DEF GoodLedger

LEMMA PlanFits ==
  ASSUME NEW incoming \in Design \union {Nothing}, NEW committed, FromDesign(committed), NEW old, GoodLedger(old),
         NEW author, NEW trace, Validate(Rules(incoming, committed, old, author)).approved,
         Plan(incoming, committed, old, trace) # NoPlan
  PROVE  Fits(Plan(incoming, committed, old, trace), committed, old)
<1> DEFINE changes == Diff(committed, incoming)
           bump == BumpFor(changes)
           release == Release(NextVersion(old.version, bump), bump, Tokens(incoming), changes, trace)
           last == old.releases[1]
<1>1. /\ incoming \in Design /\ Parses(incoming) /\ Transforms(Tokens(incoming))
      /\ "Error" \notin Contrast(Tokens(incoming))
      /\ Parses(committed) /\ Verifies(old, Digest(committed))
      BY RulesApprove
<1>2. IsExport(incoming) /\ IsExport(committed)
      BY <1>1, DesignsAreExports
<1>3. /\ old.releases # <<>> /\ last.version = old.version /\ last.digest = Tokens(committed)
      /\ Approved(last)
      BY <1>1, <1>2, VerifiedIsReleased
<1>4. bump # "none" /\ Plan(incoming, committed, old, trace) =
        [release |-> release, files |-> incoming, removed |-> DOMAIN committed \ DOMAIN incoming]
      BY DEF Plan, Digest
<1>5. bump \in {"major", "minor", "patch"}
      BY <1>4 DEF BumpFor
<1>6. Tokens(incoming) \subseteq Entry /\ changes \subseteq TokenChange
      BY <1>2, TokensAreTyped, DiffIsTyped
<1>7. /\ release.version = NextVersion(last.version, bump) /\ release.bump = bump
      /\ release.digest = Tokens(incoming) /\ release.changes = changes
      BY <1>3 DEF Release
<1> HIDE DEF release, last
<1>8. last.version \in Version
      BY <1>3 DEF Approved, Released
<1>9. Approved(release)
      BY <1>1, <1>5, <1>6, <1>7, <1>8, NextVersionIsNewer DEF Approved, Released
<1>10. Follows(last, release)
      BY <1>1, <1>3, <1>7, DiffReplays DEF Follows
<1>11. Compatible(last, release)
  <2>1. Older(last.version, release.version)
        BY <1>5, <1>7, <1>8, NextVersionIsNewer
  <2>2. ASSUME release.version[1] = last.version[1], NEW t \in last.digest
        PROVE  \E u \in At(release.digest, t.mode, t.path) : t.type # NoType => u.type = t.type
    <3>1. bump # "major"
          BY <1>5, <1>7, <1>8, <2>2, NextVersionIsNewer
    <3> QED BY <1>1, <1>3, <1>7, <2>2, <3>1, MinorKeepsTokens
  <2> QED BY <2>1, <2>2 DEF Compatible
<1>12. GoodLedger(Record(old, release))
      BY <1>3, <1>9, <1>10, <1>11, RecordIsGood DEF last
<1>13. Transforms(Tokens(committed))
      BY <1>3 DEF Approved
<1> QED BY <1>1, <1>4, <1>7, <1>12, <1>13 DEF Fits

LEMMA FirstRecordIsGood ==
  ASSUME NEW old, IsList(old.releases), Len(old.releases) = 0, NEW release, Approved(release)
  PROVE  GoodLedger(Record(old, release))
<1> DEFINE s == old.releases
           list == <<release>> \o s
<1>1. IsList(list) /\ Len(list) = Len(s) + 1 /\ list # <<>> /\ list[1] = release
      BY Prepend
<1>2. Record(old, release) = [version |-> release.version, digest |-> release.digest, releases |-> list]
      BY DEF Record
<1> HIDE DEF list
<1>3. Len(list) = 1 /\ DOMAIN list = {1} /\ 1 .. Len(list) - 1 = {}
  <2>1. Len(list) = 1 /\ DOMAIN list = 1 .. Len(list)
        BY <1>1, ListIs
  <2> QED BY <2>1
<1>4. ASSUME NEW l, l.releases = list, l.version = release.version, l.digest = release.digest
      PROVE  GoodLedger(l)
  <2>1. \A i \in DOMAIN list : i = 1 /\ Approved(list[i])
        BY <1>1, <1>3
  <2>2. \A i, j \in DOMAIN list : ~ (i < j)
        BY <1>3
  <2>3. l.version = l.releases[1].version /\ l.digest = l.releases[1].digest /\ l.releases # <<>>
        BY <1>1, <1>4
  <2> QED BY <1>1, <1>3, <1>4, <2>1, <2>2, <2>3 DEF GoodLedger
<1> QED BY <1>2, <1>4

LEMMA FirstIsGood ==
  GoodLedger(Record(NoLedger, Release(<<1, 0, 0>>, "major", Digest(First), {}, <<>>)))
<1>1. Tokens(First) \subseteq Entry
      BY FirstAssumption, DesignsAreExports, TokensAreTyped
<1>2. Approved(Release(<<1, 0, 0>>, "major", Digest(First), {}, <<>>))
      BY <1>1, FirstAssumption DEF Release, Digest, Approved, Released, Version
<1>3. NoLedger.releases = <<>>
      BY DEF NoLedger
<1>4. IsList(NoLedger.releases) /\ Len(NoLedger.releases) = 0
      BY <1>3, EmptySeq, IsListWhen
<1> QED BY <1>2, <1>4, FirstRecordIsGood

-----------------------------------------------------------------------------
(* What a run that succeeds says.                                          *)

LEMMA AloneIs ==
  ASSUME NEW f, NEW a
  PROVE  \A t : t \in Tokens(Alone(f, a)) <=>
           \E p \in DOMAIN a : t = [mode |-> ModeOf[f], path |-> p, type |-> a[p].type, value |-> a[p].value]
BY DEF Tokens, Alone

\* A file in which no diff shows has the paths, types and displays of the other.
LEMMA AlikeWhenNoDiff ==
  ASSUME NEW f, NEW a, NEW b, Diff(Alone(f, a), Alone(f, b)) = {}
  PROVE  /\ DOMAIN a = DOMAIN b
         /\ \A p \in DOMAIN a : a[p].type = b[p].type /\ Display[a[p].value] = Display[b[p].value]
<1> DEFINE before == Tokens(Alone(f, a))
           after == Tokens(Alone(f, b))
           token(c, p) == [mode |-> ModeOf[f], path |-> p, type |-> c[p].type, value |-> c[p].value]
<1>1. /\ \A t : t \in before <=> \E p \in DOMAIN a : t = token(a, p)
      /\ \A t : t \in after <=> \E p \in DOMAIN b : t = token(b, p)
      BY AloneIs
<1>2. /\ \A u \in after : At(before, u.mode, u.path) # {}
      /\ \A t \in before : At(after, t.mode, t.path) # {}
      /\ \A t \in before, u \in after : SameKey(t, u) => ~ Differ(t, u)
  <2>1. \A c : ~ (\/ \E u \in after : At(before, u.mode, u.path) = {} /\ c = Added(u)
                  \/ \E t \in before : At(after, t.mode, t.path) = {} /\ c = Removed(t)
                  \/ \E t \in before, u \in after : SameKey(t, u) /\ Differ(t, u) /\ c = Changed(t, u))
        BY DiffIs
  <2> HIDE DEF before, after
  <2> QED BY <2>1
<1> HIDE DEF before, after
<1>3. ASSUME NEW p \in DOMAIN a PROVE p \in DOMAIN b
  <2>1. token(a, p) \in before
        BY <1>1
  <2>2. PICK u \in after : u.path = p
        BY <1>2, <2>1 DEF At
  <2> QED BY <1>1, <2>2
<1>4. ASSUME NEW p \in DOMAIN b PROVE p \in DOMAIN a
  <2>1. token(b, p) \in after
        BY <1>1
  <2>2. PICK t \in before : t.path = p
        BY <1>2, <2>1 DEF At
  <2> QED BY <1>1, <2>2
<1>5. ASSUME NEW p \in DOMAIN a
      PROVE  a[p].type = b[p].type /\ Display[a[p].value] = Display[b[p].value]
  <2>1. token(a, p) \in before /\ token(b, p) \in after /\ SameKey(token(a, p), token(b, p))
        BY <1>1, <1>3 DEF SameKey
  <2>2. ~ Differ(token(a, p), token(b, p))
        BY <1>2, <2>1
  <2> QED BY <2>2 DEF Differ
<1> QED BY <1>3, <1>4, <1>5

LEMMA AlikeShowsTheSame ==
  ASSUME NEW files, NEW shadow, Parses(files), DOMAIN shadow = DOMAIN files,
         \A f \in DOMAIN files :
           /\ DOMAIN shadow[f] = DOMAIN files[f]
           /\ \A p \in DOMAIN files[f] : /\ shadow[f][p].type = files[f][p].type
                                         /\ Display[shadow[f][p].value] = Display[files[f][p].value]
  PROVE  Parses(shadow) /\ Shown(Tokens(shadow)) = Shown(Tokens(files))
<1> DEFINE look(g, f, p) ==
             [mode |-> ModeOf[f], path |-> p, type |-> g[f][p].type, shows |-> Display[g[f][p].value]]
<1>1. Parses(shadow)
      BY DEF Parses
<1>2. ASSUME NEW g
      PROVE  \A s : s \in Shown(Tokens(g)) <=> \E f \in DOMAIN g : \E p \in DOMAIN g[f] : s = look(g, f, p)
  <2>1. \A s : s \in Shown(Tokens(g)) <=>
          \E t \in Tokens(g) : s = [mode |-> t.mode, path |-> t.path, type |-> t.type, shows |-> Display[t.value]]
        BY DEF Shown
  <2>2. ASSUME NEW f \in DOMAIN g, NEW p \in DOMAIN g[f] PROVE look(g, f, p) \in Shown(Tokens(g))
    <3>1. EntryOf(g, f, p) \in Tokens(g)
          BY TokensOfFiles
    <3> QED BY <2>1, <3>1 DEF EntryOf
  <2>3. ASSUME NEW s \in Shown(Tokens(g))
        PROVE  \E f \in DOMAIN g : \E p \in DOMAIN g[f] : s = look(g, f, p)
    <3>1. PICK t \in Tokens(g) :
            s = [mode |-> t.mode, path |-> t.path, type |-> t.type, shows |-> Display[t.value]]
          BY <2>1
    <3>2. PICK f \in DOMAIN g : \E p \in DOMAIN g[f] : t = EntryOf(g, f, p)
          BY TokensOfFiles
    <3> QED BY <3>1, <3>2 DEF EntryOf
  <2> QED BY <2>2, <2>3
<1>3. \A f \in DOMAIN files : \A p \in DOMAIN files[f] : look(shadow, f, p) = look(files, f, p)
      OBVIOUS
<1>4. \A s : s \in Shown(Tokens(shadow)) <=> s \in Shown(Tokens(files))
      BY <1>2, <1>3
<1> QED BY <1>1, <1>4

LEMMA BumpIsReasoned ==
  ASSUME NEW changes, BumpFor(changes) # "none"
  PROVE  BumpReason(changes).says =
           [major |-> "can break", minor |-> "none removed or retyped", patch |-> "values changed"][BumpFor(changes)]
<1> DEFINE breaks == \E c \in changes : c.kind = "removed" \/ c.retypedFrom # NoType
           adds == \E c \in changes : c.kind = "added"
<1>1. BumpFor(changes) = IF breaks THEN "major" ELSE IF adds THEN "minor" ELSE "patch"
      BY DEF BumpFor
<1>2. BumpReason(changes).says =
        IF breaks THEN "can break" ELSE IF adds THEN "none removed or retyped" ELSE "values changed"
      BY DEF BumpReason
<1> DEFINE says == [major |-> "can break", minor |-> "none removed or retyped", patch |-> "values changed"]
<1>3. says["major"] = "can break" /\ says["minor"] = "none removed or retyped" /\ says["patch"] = "values changed"
      OBVIOUS
<1> HIDE DEF says, breaks, adds
<1>4. BumpReason(changes).says = says[BumpFor(changes)]
  <2>1. CASE breaks
        BY <1>1, <1>2, <1>3, <2>1
  <2>2. CASE ~ breaks /\ adds
        BY <1>1, <1>2, <1>3, <2>2
  <2>3. CASE ~ breaks /\ ~ adds
        BY <1>1, <1>2, <1>3, <2>3
  <2> QED BY <2>1, <2>2, <2>3
<1> QED BY <1>4 DEF says

\* A token of an export of the designs has its value from one of them.
LEMMA ValuesAreOfDesigns ==
  ASSUME NEW files, FromDesign(files), NEW t \in Tokens(files)
  PROVE  \E d \in Design : \E f \in DOMAIN d : t.path \in DOMAIN d[f] /\ t.value = d[f][t.path].value
<1>1. PICK f \in DOMAIN files : \E p \in DOMAIN files[f] : t = EntryOf(files, f, p)
      BY TokensOfFiles
<1>2. PICK p \in DOMAIN files[f] : t = EntryOf(files, f, p)
      BY <1>1
<1>3. PICK d \in Design : f \in DOMAIN d /\ files[f] = d[f]
      BY DEF FromDesign
<1> QED BY <1>2, <1>3 DEF EntryOf

LEMMA SwatchesDiffer ==
  ASSUME NEW source, NEW target, FromDesign(source), FromDesign(target),
         NEW t \in Tokens(source), NEW u \in Tokens(target), SameKey(t, u), t.path \in Swatch, t.value # u.value
  PROVE  Differ(t, u)
<1>1. PICK d \in Design : \E f \in DOMAIN d : t.path \in DOMAIN d[f] /\ t.value = d[f][t.path].value
      BY ValuesAreOfDesigns
<1>2. PICK e \in Design : \E f \in DOMAIN e : u.path \in DOMAIN e[f] /\ u.value = e[f][u.path].value
      BY ValuesAreOfDesigns
<1>3. PICK f \in DOMAIN d : t.path \in DOMAIN d[f] /\ t.value = d[f][t.path].value
      BY <1>1
<1>4. PICK g \in DOMAIN e : u.path \in DOMAIN e[g] /\ u.value = e[g][u.path].value
      BY <1>2
<1>5. t.path \in Swatch \cap DOMAIN d[f] \cap DOMAIN e[g]
      BY <1>3, <1>4 DEF SameKey
<1> QED BY <1>3, <1>4, <1>5, SwatchAssumption DEF SameKey, Differ

ValuesAt(tokens, mode, path) == {t.value : t \in At(tokens, mode, path)}

\* When what is at a path of a mode is not the same before and after, a row of
\* the pull request is about it.
LEMMA ChangeIsListed ==
  ASSUME NEW source, NEW target, FromDesign(source), FromDesign(target), Parses(source), Parses(target),
         NEW mode, NEW path \in Swatch,
         ValuesAt(Tokens(source), mode, path) # ValuesAt(Tokens(target), mode, path)
  PROVE  \E c \in Diff(source, target) : c.mode = mode /\ c.path = path
<1> DEFINE before == Tokens(source)
           after == Tokens(target)
<1>1. Unique(before) /\ Unique(after)
      BY TokensAreUnique
<1>2. \A c : c \in Diff(source, target) <=>
           \/ \E u \in after : At(before, u.mode, u.path) = {} /\ c = Added(u)
           \/ \E t \in before : At(after, t.mode, t.path) = {} /\ c = Removed(t)
           \/ \E t \in before, u \in after : SameKey(t, u) /\ Differ(t, u) /\ c = Changed(t, u)
  <2> TAKE c
  <2> QED BY ONLY DiffIs
<1>3. \A t \in before, u \in after : SameKey(t, u) /\ t.path \in Swatch /\ t.value # u.value => Differ(t, u)
      BY SwatchesDiffer
<1> HIDE DEF before, after
<1>4. CASE At(before, mode, path) = {}
  <2>1. PICK u \in after : u.mode = mode /\ u.path = path
        BY <1>4 DEF At, ValuesAt, before, after
  <2>2. Added(u) \in Diff(source, target)
        BY <1>2, <1>4, <2>1
  <2> QED BY <2>1, <2>2 DEF Added, ChangeOf
<1>5. CASE At(after, mode, path) = {}
  <2>1. PICK t \in before : t.mode = mode /\ t.path = path
        BY <1>5 DEF At, ValuesAt, before, after
  <2>2. Removed(t) \in Diff(source, target)
        BY <1>2, <1>5, <2>1
  <2> QED BY <2>1, <2>2 DEF Removed, ChangeOf
<1>6. CASE At(before, mode, path) # {} /\ At(after, mode, path) # {}
  <2>1. PICK t \in before : t.mode = mode /\ t.path = path
        BY <1>6 DEF At
  <2>2. PICK u \in after : u.mode = mode /\ u.path = path
        BY <1>6 DEF At
  <2>3. At(before, mode, path) = {t} /\ At(after, mode, path) = {u}
        BY <1>1, <2>1, <2>2 DEF At, Unique
  <2>4. t.value # u.value
        BY <2>3 DEF ValuesAt, before, after
  <2>5. Changed(t, u) \in Diff(source, target)
        BY <1>2, <1>3, <2>1, <2>2, <2>4 DEF SameKey
  <2> QED BY <2>1, <2>5 DEF Changed, ChangeOf
<1> QED BY <1>4, <1>5, <1>6

LEMMA RecordHeads ==
  ASSUME NEW old, GoodLedger(old), NEW release
  PROVE  /\ Record(old, release).version = release.version
         /\ Record(old, release).digest = release.digest
         /\ Record(old, release).releases[1] = release
         /\ 1 \in DOMAIN Record(old, release).releases
<1> DEFINE list == <<release>> \o old.releases
<1>1. IsList(list) /\ Len(list) = Len(old.releases) + 1 /\ list[1] = release
      BY Prepend DEF GoodLedger
<1>2. Len(old.releases) \in Nat
      BY ListIs DEF GoodLedger
<1> HIDE DEF list
<1>3. DOMAIN list = 1 .. Len(list)
      BY <1>1, ListIs
<1>4. 1 \in DOMAIN list
      BY <1>1, <1>2, <1>3
<1>5. Record(old, release) = [version |-> release.version, digest |-> release.digest, releases |-> list]
      BY DEF Record, list
<1> QED BY <1>1, <1>4, <1>5

LEMMA PreviewTells ==
  ASSUME NEW committed, FromDesign(committed), NEW old, GoodLedger(old), NEW plan, Fits(plan, committed, old)
  PROVE  LET preview == Preview(committed, plan.release) IN
         /\ preview # NoPreview /\ preview.version = plan.release.version
         /\ \A c \in preview.cells : c.was # c.now =>
              \E row \in PullRequest(plan.release).rows : row.path = c.path /\ row.mode \in {c.mode, BaseMode}
<1> DEFINE preview == Preview(committed, plan.release)
           before == Tokens(committed)
           after == Tokens(plan.files)
           changes == Diff(committed, plan.files)
           cell(m, p) == [mode |-> m, path |-> p, was |-> Painted(before, m, p), now |-> Painted(after, m, p)]
<1>1. Approved(plan.release)
      BY RecordHeads DEF Fits, GoodLedger
<1>2. preview = [version |-> plan.release.version,
                 cells |-> {cell(m, p) : m \in Mode \ {BaseMode}, p \in Swatch}]
      BY <1>1 DEF Preview, Fits, Approved
<1>3. preview # NoPreview
      BY <1>2 DEF NoPreview
<1>4. \A c \in changes : \E row \in PullRequest(plan.release).rows : row.path = c.path /\ row.mode = c.mode
  <2> DEFINE line(c) == [mode |-> c.mode, path |-> c.path, before |-> c.before, after |-> c.after,
                        label |-> IF c.retypedFrom # NoType THEN "retyped" ELSE c.kind]
  <2>1. PullRequest(plan.release).rows = {line(c) : c \in plan.release.changes}
        BY DEF PullRequest
  <2>2. plan.release.changes = changes
        BY DEF Fits
  <2>3. \A c : line(c).path = c.path /\ line(c).mode = c.mode
        OBVIOUS
  <2> HIDE DEF changes, line
  <2> QED BY <2>1, <2>2, <2>3
<1>5. ASSUME NEW m \in Mode, NEW p \in Swatch, Painted(before, m, p) # Painted(after, m, p)
      PROVE  \E c \in changes : c.path = p /\ c.mode \in {m, BaseMode}
  <2>1. ASSUME NEW mode, ValuesAt(before, mode, p) # ValuesAt(after, mode, p)
        PROVE  \E c \in changes : c.mode = mode /\ c.path = p
    <3>1. FromDesign(plan.files) /\ Parses(plan.files) /\ Parses(committed)
          BY DesignsAreExports DEF Fits
    <3> QED BY <2>1, <3>1, ChangeIsListed
  <2>2. \A tokens : Painted(tokens, m, p) =
          IF At(tokens, m, p) # {} THEN ValuesAt(tokens, m, p) ELSE ValuesAt(tokens, BaseMode, p)
        BY DEF Painted, ValuesAt
  <2>3. \A tokens : At(tokens, m, p) = {} <=> ValuesAt(tokens, m, p) = {}
        BY DEF ValuesAt
  <2> HIDE DEF before, after, changes
  <2> QED BY <1>5, <2>1, <2>2, <2>3
<1>6. ASSUME NEW c \in preview.cells, c.was # c.now
      PROVE  \E row \in PullRequest(plan.release).rows : row.path = c.path /\ row.mode \in {c.mode, BaseMode}
  <2>1. PICK m \in Mode \ {BaseMode}, p \in Swatch : c = cell(m, p)
        BY <1>2
  <2>2. PICK d \in changes : d.path = p /\ d.mode \in {m, BaseMode}
        BY <1>5, <1>6, <2>1
  <2> QED BY <1>4, <2>1, <2>2
<1> QED BY <1>2, <1>3, <1>6

LEMMA WrittenExportShows ==
  ASSUME FromDesign(run.committed), Fits(run.plan, run.committed, run.old), ExportSoFar, run.todo = {}
  PROVE  Parses(export) /\ Shown(Tokens(export)) = Shown(run.plan.release.digest)
<1> DEFINE files == run.plan.files
           committed == run.committed
<1>1. Parses(files) /\ run.plan.release.digest = Tokens(files)
      BY DEF Fits
<1>2. \A op, f : ~ Pending(op, f)
      BY DEF Pending
<1>3. /\ \A f \in DOMAIN export : /\ f \in DOMAIN files
                                  /\ \/ export[f] = files[f]
                                     \/ /\ export[f] = committed[f] /\ f \in DOMAIN committed
                                        /\ f \notin Rewritten(committed, files)
      /\ \A f \in DOMAIN files : f \in DOMAIN export
      BY <1>2 DEF ExportSoFar
<1>4. ASSUME NEW f \in DOMAIN files
      PROVE  /\ DOMAIN export[f] = DOMAIN files[f]
             /\ \A p \in DOMAIN files[f] : /\ export[f][p].type = files[f][p].type
                                           /\ Display[export[f][p].value] = Display[files[f][p].value]
  <2>1. CASE export[f] = files[f]
        BY <2>1
  <2>2. CASE export[f] = committed[f] /\ f \in DOMAIN committed /\ f \notin Rewritten(committed, files)
    <3>1. Diff(Alone(f, committed[f]), Alone(f, files[f])) = {}
          BY <2>2 DEF Rewritten
    <3> QED BY <2>2, <3>1, AlikeWhenNoDiff
  <2> QED BY <1>3, <2>1, <2>2
<1>5. DOMAIN export = DOMAIN files
      BY <1>3
<1> QED BY <1>1, <1>4, <1>5, AlikeShowsTheSame

-----------------------------------------------------------------------------
(* The steps.                                                              *)

LEMMA WithIsFromDesign ==
  ASSUME NEW files, FromDesign(files), NEW d \in Design, NEW f \in DOMAIN d
  PROVE  /\ FromDesign(With(files, f, d[f])) /\ FromDesign(Without(files, f))
         /\ f \in File
<1>1. f \in File
      BY SyncAssumption DEF IsExport
<1> QED BY <1>1 DEF FromDesign, With, Without

\* What there is to write, of an approved plan.
LEMMA StepIs ==
  ASSUME NEW committed, NEW old, NEW plan, Fits(plan, committed, old), NEW step \in Writes(committed, plan)
  PROVE  /\ step = [op |-> step.op, file |-> step.file]
         /\ \/ step.op = "remove" /\ step.file \in plan.removed /\ step.file \notin DOMAIN plan.files
            \/ step.op = "write" /\ step.file \in Rewritten(committed, plan.files)
                 /\ step.file \in DOMAIN plan.files /\ step.file \in File /\ step.file # LedgerFile
            \/ step.op = "write" /\ step.file = LedgerFile
<1>1. Rewritten(committed, plan.files) \subseteq DOMAIN plan.files
      BY DEF Rewritten
<1>2. DOMAIN plan.files \subseteq File /\ LedgerFile \notin File
      BY SyncAssumption DEF Fits, IsExport
<1> QED BY <1>1, <1>2 DEF Writes, Fits

LEMMA InitInv ==
  ASSUME Init
  PROVE  SyncInv
<1>1. run = [at |-> "exited", code |-> 1, calm |-> FALSE,
             committed |-> <<>>, old |-> NoLedger, plan |-> NoPlan, todo |-> {}]
      BY DEF Init
<1>2. Fields
      BY <1>1 DEF Init, Fields
<1>3. FilesInv
      BY DesignsAreExports, FirstAssumption DEF Init, FilesInv
<1>4. LedgerInv
      BY FirstIsGood DEF Init, LedgerInv
<1>5. RunInv /\ CalmInv /\ RequestInv /\ SuccessTellsTheTruth
      BY <1>1 DEF RunInv, CalmInv, RequestInv, SuccessTellsTheTruth
<1> QED BY <1>2, <1>3, <1>4, <1>5 DEF SyncInv

\* A run that stops with no success keeps what it has written.
LEMMA FailingKeepsInv ==
  ASSUME SyncInv, run' = Exit(1) \/ run' = [Exit(1) EXCEPT !.calm = FALSE],
         UNCHANGED published, FilesInv', LedgerInv'
  PROVE  SyncInv'
<1>1. \E calm : run' = [at |-> "exited", code |-> 1, calm |-> calm, committed |-> <<>>, old |-> NoLedger,
                        plan |-> NoPlan, todo |-> {}]
      BY DEF Exit
<1>2. Fields'
      BY <1>1 DEF Fields, SyncInv
<1>3. (RunInv /\ CalmInv /\ RequestInv /\ SuccessTellsTheTruth)'
      BY <1>1 DEF RunInv, CalmInv, RequestInv, SuccessTellsTheTruth
<1> QED BY <1>2, <1>3 DEF SyncInv

LEMMA ReadCommittedKeepsInv ==
  ASSUME SyncInv, ReadCommitted
  PROVE  SyncInv'
<1>1. UNCHANGED <<export, ledger, torn, published, head>>
      BY DEF ReadCommitted
<1>2. (FilesInv /\ LedgerInv)'
      BY <1>1 DEF SyncInv, FilesInv, LedgerInv
<1>3. CASE ~ Readable
      BY <1>1, <1>2, <1>3, FailingKeepsInv DEF ReadCommitted
<1>4. CASE Readable
  <2>1. run' = [at |-> "awaiting", code |-> 1, calm |-> TRUE,
                committed |-> export, old |-> ledger, plan |-> NoPlan, todo |-> {}]
        BY <1>4 DEF ReadCommitted
  <2>2. Fields'
        BY <1>1, <2>1 DEF SyncInv, Fields
  <2>3. RunInv'
        BY <2>1 DEF SyncInv, FilesInv, LedgerInv, RunInv
  <2>4. CalmInv'
        BY <1>1, <2>1 DEF CalmInv
  <2>5. RequestInv' /\ SuccessTellsTheTruth'
        BY <2>1 DEF RequestInv, SuccessTellsTheTruth
  <2> QED BY <1>2, <2>2, <2>3, <2>4, <2>5 DEF SyncInv
<1> QED BY <1>3, <1>4

LEMMA DecideKeepsInv ==
  ASSUME SyncInv, NEW source \in ReadSource, Decide(source.incoming, source.author)
  PROVE  SyncInv'
<1> DEFINE rules == Rules(source.incoming, run.committed, run.old, source.author)
           plan == Plan(source.incoming, run.committed, run.old, Validate(rules).trace)
           approved == Validate(rules).approved
<1>1. /\ run.at = "awaiting" /\ UNCHANGED <<export, ledger, torn, head>>
      /\ \/ /\ approved /\ plan # NoPlan
            /\ run' = [run EXCEPT !.at = "writing", !.plan = plan, !.todo = Writes(run.committed, plan)]
            /\ UNCHANGED published
         \/ ~ approved /\ run' = Exit(1) /\ UNCHANGED published
         \/ /\ approved /\ run' = Exit(0)
            /\ published' = [published EXCEPT !.changed = FALSE, !.version = run.old.version]
      BY DEF Decide, Handle
<1>2. source.incoming \in Design \union {Nothing}
      BY DEF ReadSource
<1>3. (FilesInv /\ LedgerInv)'
      BY <1>1 DEF SyncInv, FilesInv, LedgerInv
<1>4. ASSUME approved, plan # NoPlan,
             run' = [run EXCEPT !.at = "writing", !.plan = plan, !.todo = Writes(run.committed, plan)],
             UNCHANGED published
      PROVE  SyncInv'
  <2>1. Fits(plan, run.committed, run.old) /\ FromDesign(run.committed) /\ GoodLedger(run.old)
    <3>1. FromDesign(run.committed) /\ GoodLedger(run.old)
          BY <1>1 DEF SyncInv, RunInv
    <3> QED BY <1>2, <1>4, <3>1, PlanFits
  <2> HIDE DEF plan, approved, rules
  <2>2. run' = [at |-> "writing", code |-> run.code, calm |-> run.calm, committed |-> run.committed,
                old |-> run.old, plan |-> plan, todo |-> Writes(run.committed, plan)]
        BY <1>4 DEF SyncInv, Fields
  <2>3. Fields'
        BY <1>4, <2>2 DEF SyncInv, Fields
  <2>4. RunInv'
        BY <2>1, <2>2 DEF RunInv
  <2>5. CalmInv'
    <3>1. SUFFICES ASSUME run.calm PROVE (ExportSoFar /\ LedgerSoFar)'
          BY <2>2 DEF CalmInv
    <3>2. export = run.committed /\ ledger = run.old
          BY <1>1, <3>1 DEF SyncInv, CalmInv
    <3>3. /\ \A f \in plan.removed : Pending("remove", f)'
          /\ \A f \in Rewritten(run.committed, plan.files) \union {LedgerFile} : Pending("write", f)'
          BY <2>2 DEF Pending, Writes
    <3>4. \A f \in DOMAIN plan.files : f \notin DOMAIN run.committed => f \in Rewritten(run.committed, plan.files)
          BY DEF Rewritten
    <3>5. plan.removed = DOMAIN run.committed \ DOMAIN plan.files
          BY <2>1 DEF Fits
    <3>6. ExportSoFar'
          BY <1>1, <2>2, <3>2, <3>3, <3>4, <3>5 DEF ExportSoFar
    <3>7. LedgerSoFar'
          BY <1>1, <2>2, <3>2, <3>3 DEF LedgerSoFar
    <3> QED BY <3>6, <3>7
  <2>6. RequestInv' /\ SuccessTellsTheTruth'
        BY <2>2 DEF RequestInv, SuccessTellsTheTruth
  <2> QED BY <1>3, <2>3, <2>4, <2>5, <2>6 DEF SyncInv
<1>5. ASSUME run' = Exit(0), published' = [published EXCEPT !.changed = FALSE, !.version = run.old.version]
      PROVE  SyncInv'
  <2>1. run' = [at |-> "exited", code |-> 0, calm |-> run.calm, committed |-> <<>>, old |-> NoLedger,
                plan |-> NoPlan, todo |-> {}]
        BY <1>5 DEF Exit
  <2>2. published' = [changed |-> FALSE, version |-> run.old.version,
                      request |-> published.request, preview |-> published.preview]
        BY <1>5 DEF SyncInv, Fields
  <2>3. (Fields /\ RunInv /\ CalmInv /\ RequestInv)'
        BY <2>1, <2>2 DEF Fields, RunInv, CalmInv, RequestInv
  <2>4. run.calm => ledger' = run.old
        BY <1>1 DEF SyncInv, CalmInv
  <2>5. SuccessTellsTheTruth'
        BY <2>1, <2>2, <2>4 DEF SuccessTellsTheTruth
  <2> QED BY <1>3, <2>3, <2>5 DEF SyncInv
<1> QED BY <1>1, <1>3, <1>4, <1>5, FailingKeepsInv

LEMMA WriteNextKeepsInv ==
  ASSUME SyncInv, WriteNext
  PROVE  SyncInv'
<1> DEFINE files == run.plan.files
           committed == run.committed
<1>1. /\ run.at = "writing" /\ UNCHANGED <<torn, published, head>>
      /\ Fits(run.plan, committed, run.old) /\ FromDesign(committed) /\ GoodLedger(run.old)
      /\ run.todo \subseteq Writes(committed, run.plan)
      /\ files \in Design
      BY DEF WriteNext, SyncInv, RunInv, Fits
<1>2. PICK step \in run.todo :
        \/ /\ step.op = "remove" /\ step.file \in DOMAIN export /\ export' = Without(export, step.file)
           /\ run' = [run EXCEPT !.todo = @ \ {step}] /\ UNCHANGED ledger
        \/ run' = Exit(1) /\ UNCHANGED <<export, ledger>>
        \/ /\ step.op = "write" /\ step.file # LedgerFile /\ export' = With(export, step.file, files[step.file])
           /\ run' = [run EXCEPT !.todo = @ \ {step}] /\ UNCHANGED ledger
        \/ /\ step.op = "write" /\ step.file = LedgerFile /\ ledger' = Record(run.old, run.plan.release)
           /\ run' = [run EXCEPT !.todo = @ \ {step}] /\ UNCHANGED export
      BY DEF WriteNext
<1>3. /\ step = [op |-> step.op, file |-> step.file]
      /\ \/ step.op = "remove" /\ step.file \in run.plan.removed /\ step.file \notin DOMAIN files
         \/ step.op = "write" /\ step.file \in Rewritten(committed, files)
              /\ step.file \in DOMAIN files /\ step.file \in File /\ step.file # LedgerFile
         \/ step.op = "write" /\ step.file = LedgerFile
      BY <1>1, StepIs
<1>4. ASSUME run' = [run EXCEPT !.todo = @ \ {step}], FromDesign(export'), GoodLedger(ledger'),
             run.calm => (ExportSoFar /\ LedgerSoFar)'
      PROVE  SyncInv'
  <2>1. run' = [at |-> "writing", code |-> run.code, calm |-> run.calm, committed |-> committed,
                old |-> run.old, plan |-> run.plan, todo |-> run.todo \ {step}]
        BY <1>1, <1>4 DEF SyncInv, Fields
  <2>2. (Fields /\ FilesInv /\ LedgerInv)'
        BY <1>1, <1>4, <2>1 DEF SyncInv, Fields, FilesInv, LedgerInv
  <2>3. RunInv'
        BY <1>1, <2>1 DEF RunInv
  <2>4. RequestInv' /\ SuccessTellsTheTruth'
        BY <2>1 DEF RequestInv, SuccessTellsTheTruth
  <2>5. run'.calm = run.calm /\ run'.at = "writing"
        BY <2>1
  <2>6. CalmInv'
        BY <1>4, <2>5 DEF CalmInv
  <2> QED BY <2>2, <2>3, <2>4, <2>6 DEF SyncInv
<1>5. run.calm => ExportSoFar /\ LedgerSoFar
      BY <1>1 DEF SyncInv, CalmInv
<1>6. FromDesign(export) /\ GoodLedger(ledger) /\ DOMAIN export \subseteq File /\ DOMAIN files \subseteq File
      /\ LedgerFile \notin File
      BY <1>1, SyncAssumption, DesignsAreExports DEF SyncInv, FilesInv, LedgerInv, IsExport
\* What is pending after the step.
<1>7. ASSUME run' = [run EXCEPT !.todo = @ \ {step}]
      PROVE  /\ \A op, f : Pending(op, f)' <=> Pending(op, f) /\ ~ (op = step.op /\ f = step.file)
             /\ UNCHANGED <<run.plan, run.committed, run.old>>
  <2>1. run'.todo = run.todo \ {step} /\ UNCHANGED <<run.plan, run.committed, run.old>>
        BY <1>7 DEF SyncInv, Fields
  <2>2. \A op, f : [op |-> op, file |-> f] = step <=> op = step.op /\ f = step.file
        BY <1>3
  <2> QED BY <2>1, <2>2 DEF Pending
<1>8. ASSUME step.op = "remove", step.file \in DOMAIN export, export' = Without(export, step.file),
             run' = [run EXCEPT !.todo = @ \ {step}], UNCHANGED ledger
      PROVE  SyncInv'
  <2>1. FromDesign(export')
        BY <1>6, <1>8 DEF FromDesign, Without
  <2>2. DOMAIN export' = DOMAIN export \ {step.file} /\ \A f \in DOMAIN export' : export'[f] = export[f]
        BY <1>8 DEF Without
  <2>3. ASSUME run.calm PROVE ExportSoFar' /\ LedgerSoFar'
    <3>1. step.file \notin DOMAIN files
          BY <1>3, <1>8
    <3>2. ExportSoFar'
          BY <1>5, <1>7, <1>8, <2>2, <2>3, <3>1 DEF ExportSoFar
    <3>3. LedgerSoFar'
          BY <1>5, <1>7, <1>8, <2>3 DEF LedgerSoFar
    <3> QED BY <3>2, <3>3
  <2> QED BY <1>4, <1>6, <1>8, <2>1, <2>3
<1>9. ASSUME step.op = "write", step.file # LedgerFile, export' = With(export, step.file, files[step.file]),
             run' = [run EXCEPT !.todo = @ \ {step}], UNCHANGED ledger
      PROVE  SyncInv'
  <2>1. step.file \in DOMAIN files /\ step.file \in Rewritten(committed, files)
        BY <1>3, <1>9
  <2>2. FromDesign(export')
        BY <1>1, <1>6, <1>9, <2>1, WithIsFromDesign
  <2>3. DOMAIN export' = DOMAIN export \union {step.file}
        /\ \A f \in DOMAIN export' : export'[f] = IF f = step.file THEN files[f] ELSE export[f]
        BY <1>9 DEF With
  <2>4. ASSUME run.calm PROVE ExportSoFar' /\ LedgerSoFar'
    <3>1. ExportSoFar'
          BY <1>5, <1>7, <1>9, <2>1, <2>3, <2>4 DEF ExportSoFar
    <3>2. LedgerSoFar'
          BY <1>5, <1>7, <1>9, <2>4 DEF LedgerSoFar
    <3> QED BY <3>1, <3>2
  <2> QED BY <1>4, <1>6, <1>9, <2>2, <2>4
<1>10. ASSUME step.op = "write", step.file = LedgerFile, ledger' = Record(run.old, run.plan.release),
              run' = [run EXCEPT !.todo = @ \ {step}], UNCHANGED export
       PROVE  SyncInv'
  <2>1. GoodLedger(ledger')
        BY <1>1, <1>10 DEF Fits
  <2>2. ASSUME run.calm PROVE ExportSoFar' /\ LedgerSoFar'
    <3>1. \A op, f : f \in DOMAIN export \/ f \in DOMAIN files => (Pending(op, f)' <=> Pending(op, f))
          BY <1>6, <1>7, <1>10
    <3>2. ExportSoFar'
          BY <1>5, <1>7, <1>10, <2>2, <3>1 DEF ExportSoFar
    <3>3. LedgerSoFar'
          BY <1>7, <1>10 DEF LedgerSoFar
    <3> QED BY <3>2, <3>3
  <2> QED BY <1>4, <1>6, <1>10, <2>1, <2>2
<1>11. ASSUME run' = Exit(1), UNCHANGED <<export, ledger>> PROVE SyncInv'
  <2>1. (FilesInv /\ LedgerInv)'
        BY <1>1, <1>11 DEF SyncInv, FilesInv, LedgerInv
  <2> QED BY <1>1, <1>11, <2>1, FailingKeepsInv
<1> QED BY <1>2, <1>8, <1>9, <1>10, <1>11

LEMMA WriteRequestKeepsInv ==
  ASSUME SyncInv, WriteRequest
  PROVE  SyncInv'
<1>1. /\ run.at = "writing" /\ run.todo = {} /\ UNCHANGED <<export, ledger, torn, head>>
      /\ run' = [at |-> "publishing", code |-> run.code, calm |-> run.calm, committed |-> run.committed,
                 old |-> run.old, plan |-> run.plan, todo |-> run.todo]
      /\ published' = [changed |-> published.changed, version |-> published.version,
                       request |-> PullRequest(run.plan.release),
                       preview |-> Preview(run.committed, run.plan.release)]
      BY DEF WriteRequest, SyncInv, Fields
<1>2. (Fields /\ FilesInv /\ LedgerInv)'
      BY <1>1 DEF SyncInv, Fields, FilesInv, LedgerInv
<1>3. RunInv'
      BY <1>1 DEF SyncInv, RunInv
<1>4. CalmInv'
      BY <1>1 DEF SyncInv, CalmInv, ExportSoFar, LedgerSoFar, Pending
<1>5. RequestInv' /\ SuccessTellsTheTruth'
      BY <1>1 DEF RequestInv, SuccessTellsTheTruth
<1> QED BY <1>2, <1>3, <1>4, <1>5 DEF SyncInv

LEMMA PublishKeepsInv ==
  ASSUME SyncInv, Publish
  PROVE  SyncInv'
<1> DEFINE release == run.plan.release
<1>1. /\ run.at = "publishing" /\ UNCHANGED <<export, ledger, torn, head>>
      /\ run' = [at |-> "exited", code |-> 0, calm |-> run.calm, committed |-> <<>>, old |-> NoLedger,
                 plan |-> NoPlan, todo |-> {}]
      /\ published' = [changed |-> TRUE, version |-> release.version,
                       request |-> published.request, preview |-> published.preview]
      BY DEF Publish, Exit, SyncInv, Fields
<1>2. (Fields /\ FilesInv /\ LedgerInv /\ RunInv /\ CalmInv /\ RequestInv)'
      BY <1>1 DEF SyncInv, Fields, FilesInv, LedgerInv, RunInv, CalmInv, RequestInv
<1>3. /\ Fits(run.plan, run.committed, run.old) /\ FromDesign(run.committed) /\ GoodLedger(run.old)
      /\ run.todo = {}
      /\ published.request = PullRequest(release)
      /\ published.preview = Preview(run.committed, release)
      BY <1>1 DEF SyncInv, RunInv, RequestInv
<1>4. ASSUME run.calm
      PROVE  SuccessTellsTheTruth'
  <2>1. ExportSoFar /\ ledger = Record(run.old, release)
        BY <1>1, <1>3, <1>4 DEF SyncInv, CalmInv, LedgerSoFar, Pending
  <2>2. ledger.version = release.version /\ ledger.digest = release.digest /\ ledger.releases[1] = release
        BY <1>3, <2>1, RecordHeads
  <2>3. Parses(export) /\ Shown(Tokens(export)) = Shown(ledger.digest)
        BY <1>3, <2>1, <2>2, WrittenExportShows
  <2>4. /\ published.preview # NoPreview /\ published.preview.version = ledger.version
        /\ \A c \in published.preview.cells : c.was # c.now =>
             \E row \in published.request.rows : row.path = c.path /\ row.mode \in {c.mode, BaseMode}
        BY <1>3, <2>2, PreviewTells
  <2>5. published.request.reason.says =
          [major |-> "can break", minor |-> "none removed or retyped", patch |-> "values changed"]
            [published.request.bump]
    <3>1. published.request.reason = BumpReason(release.changes) /\ published.request.bump = release.bump
          BY <1>3 DEF PullRequest
    <3>2. release.bump = BumpFor(release.changes) /\ GoodLedger(Record(run.old, release))
          BY <1>3 DEF Fits
    <3>3. Approved(release)
          BY <1>3, <3>2, RecordHeads DEF GoodLedger
    <3>4. release.bump # "none"
          BY <3>3 DEF Approved, Released
    <3> QED BY <3>1, <3>2, <3>4, BumpIsReasoned
  <2>6. published.request = PullRequest(ledger.releases[1])
        BY <1>3, <2>2
  <2> HIDE DEF release
  <2> QED BY <1>1, <2>2, <2>3, <2>4, <2>5, <2>6 DEF SuccessTellsTheTruth
<1>5. ~ run.calm => SuccessTellsTheTruth'
      BY <1>1 DEF SuccessTellsTheTruth
<1> QED BY <1>2, <1>4, <1>5 DEF SyncInv

LEMMA StopKeepsInv ==
  ASSUME SyncInv, Stop
  PROVE  SyncInv'
<1>1. /\ run' = Exit(1) /\ UNCHANGED <<export, ledger, published, head>>
      /\ torn' = torn \/ \E step \in run.todo : step.op = "write" /\ torn' = torn \union {step.file}
      BY DEF Stop
<1>2. \A step \in run.todo : step.op = "write" => step.file \in File \union {LedgerFile}
  <2>1. run.todo # {} => /\ run.at \in {"writing", "publishing"}
                         /\ Fits(run.plan, run.committed, run.old) /\ run.todo \subseteq Writes(run.committed, run.plan)
        BY DEF SyncInv, RunInv
  <2> QED BY <2>1, StepIs
<1>3. (FilesInv /\ LedgerInv)'
      BY <1>1, <1>2 DEF SyncInv, FilesInv, LedgerInv
<1> QED BY <1>1, <1>3, FailingKeepsInv

\* Whoever else is at the files: what a run has planned stays, and it is no
\* longer alone.
LEMMA OthersKeepInv ==
  ASSUME SyncInv, run' = [run EXCEPT !.calm = FALSE], UNCHANGED published, FilesInv', LedgerInv'
  PROVE  SyncInv'
<1>1. run' = [at |-> run.at, code |-> run.code, calm |-> FALSE, committed |-> run.committed, old |-> run.old,
              plan |-> run.plan, todo |-> run.todo]
      BY DEF SyncInv, Fields
<1>2. Fields'
      BY <1>1 DEF SyncInv, Fields
<1>3. RunInv'
      BY <1>1 DEF SyncInv, RunInv
<1>4. CalmInv' /\ SuccessTellsTheTruth'
      BY <1>1 DEF CalmInv, SuccessTellsTheTruth
<1>5. RequestInv'
      BY <1>1 DEF SyncInv, RequestInv
<1> QED BY <1>2, <1>3, <1>4, <1>5 DEF SyncInv

LEMMA HandEditKeepsInv ==
  ASSUME SyncInv, HandEdit
  PROVE  SyncInv'
<1>1. FromDesign(export) /\ GoodLedger(ledger) /\ torn \subseteq File \union {LedgerFile}
      BY DEF SyncInv, FilesInv, LedgerInv
<1>2. run' = [run EXCEPT !.calm = FALSE] /\ UNCHANGED <<published, head>>
      BY DEF HandEdit
<1>3. FromDesign(export') /\ GoodLedger(ledger') /\ torn' \subseteq torn
  <2>1. CASE \E d \in Design : \E f \in DOMAIN d :
               export' = With(export, f, d[f]) /\ torn' = torn \ {f} /\ UNCHANGED ledger
        BY <1>1, <2>1, WithIsFromDesign
  <2>2. CASE \E f \in DOMAIN export :
               export' = Without(export, f) /\ torn' = torn \ {f} /\ UNCHANGED ledger
        BY <1>1, <2>2 DEF FromDesign, Without
  <2>3. CASE ledger' = NoLedger /\ torn' = torn \ {LedgerFile} /\ UNCHANGED export
    <3>1. GoodLedger(NoLedger)
      <4>1. NoLedger.releases = <<>>
            BY DEF NoLedger
      <4>2. IsList(<<>>) /\ Len(<<>>) = 0
            BY EmptySeq, IsListWhen
      <4>3. DOMAIN NoLedger.releases = {} /\ 1 .. Len(NoLedger.releases) - 1 = {}
            BY <4>1, <4>2, ListIs
      <4> QED BY <4>1, <4>2, <4>3 DEF GoodLedger
    <3> QED BY <1>1, <2>3, <3>1
  <2> QED BY <2>1, <2>2, <2>3 DEF HandEdit
<1>4. (FilesInv /\ LedgerInv)'
      BY <1>1, <1>2, <1>3 DEF SyncInv, FilesInv, LedgerInv
<1> QED BY <1>2, <1>4, OthersKeepInv

LEMMA CommitKeepsInv ==
  ASSUME SyncInv, Commit
  PROVE  SyncInv'
<1>1. UNCHANGED <<export, ledger, torn, published, run>> /\ head' = [export |-> export, ledger |-> ledger]
      BY DEF Commit
<1>2. (FilesInv /\ LedgerInv)'
      BY <1>1 DEF SyncInv, FilesInv, LedgerInv
<1>3. (Fields /\ RunInv /\ RequestInv)'
      BY <1>1 DEF SyncInv, Fields, RunInv, RequestInv
<1>4. (CalmInv /\ SuccessTellsTheTruth)'
      BY <1>1 DEF SyncInv, CalmInv, ExportSoFar, LedgerSoFar, Pending, SuccessTellsTheTruth
<1> QED BY <1>2, <1>3, <1>4 DEF SyncInv

LEMMA RestoreKeepsInv ==
  ASSUME SyncInv, Restore
  PROVE  SyncInv'
<1>1. /\ export' = head.export /\ ledger' = head.ledger /\ torn' = {}
      /\ run' = [run EXCEPT !.calm = FALSE] /\ UNCHANGED <<published, head>>
      BY DEF Restore
<1>2. (FilesInv /\ LedgerInv)'
      BY <1>1 DEF SyncInv, FilesInv, LedgerInv
<1> QED BY <1>1, <1>2, OthersKeepInv

LEMMA NextKeepsInv ==
  ASSUME SyncInv, [Next]_syncVars
  PROVE  SyncInv'
<1>1. ASSUME UNCHANGED syncVars PROVE SyncInv'
  <2>1. UNCHANGED <<export, ledger, torn, published, head, run>>
        BY <1>1 DEF syncVars
  <2> QED BY <2>1 DEF SyncInv, Fields, FilesInv, LedgerInv, RunInv, RequestInv, CalmInv, ExportSoFar,
                      LedgerSoFar, Pending, SuccessTellsTheTruth
<1> QED BY <1>1, ReadCommittedKeepsInv, DecideKeepsInv, WriteNextKeepsInv, WriteRequestKeepsInv,
           PublishKeepsInv, StopKeepsInv, HandEditKeepsInv, CommitKeepsInv, RestoreKeepsInv DEF Next

-----------------------------------------------------------------------------
(* The theorems.                                                           *)

THEOREM SyncInvHolds == SyncSpec => []SyncInv
<1>1. Init => SyncInv
      BY InitInv
<1>2. SyncInv /\ [Next]_syncVars => SyncInv'
      BY NextKeepsInv
<1> QED BY <1>1, <1>2, PTL DEF SyncSpec

\* Whatever people edit and wherever runs die, the state has its types, and
\* a plan never both writes and removes a file (handler.ts L59-60).
THEOREM SyncTypeCorrect == SyncSpec => []SyncTypeOK
<1>1. SyncInv => SyncTypeOK
  <2> SUFFICES ASSUME SyncInv PROVE SyncTypeOK
      OBVIOUS
  <2>1. IsExport(export) /\ torn \subseteq File \union {LedgerFile}
        BY DesignsAreExports DEF SyncInv, FilesInv
  <2>2. \A i \in DOMAIN ledger.releases : Released(ledger.releases[i])
        BY DEF SyncInv, LedgerInv, GoodLedger, Approved
  <2>3. ledger.version \in Version
    <3>1. CASE ledger.releases = <<>>
          BY <3>1 DEF SyncInv, LedgerInv, GoodLedger, NoLedger, Version
    <3>2. CASE ledger.releases # <<>>
      <4>1. 1 \in DOMAIN ledger.releases
            BY <3>2, ListIs, LenProperties, EmptySeq DEF SyncInv, LedgerInv, GoodLedger, IsList
      <4> QED BY <2>2, <3>2, <4>1 DEF SyncInv, LedgerInv, GoodLedger, Released
    <3> QED BY <3>1, <3>2
  <2>4. run.at \in {"exited", "awaiting", "writing", "publishing"}
        BY DEF SyncInv, RunInv
  <2>5. run.at \in {"writing", "publishing"} =>
          run.plan # NoPlan /\ run.plan.removed \cap DOMAIN run.plan.files = {}
    <3>1. SUFFICES ASSUME run.at \in {"writing", "publishing"}
                   PROVE  run.plan # NoPlan /\ run.plan.removed \cap DOMAIN run.plan.files = {}
          OBVIOUS
    <3>2. Fits(run.plan, run.committed, run.old)
          BY <3>1 DEF SyncInv, RunInv
    <3> QED BY <3>2 DEF Fits, NoPlan
  <2>6. run.at \in {"exited", "awaiting"} => run.plan = NoPlan
        BY DEF SyncInv, RunInv
  <2> QED BY <2>1, <2>2, <2>3, <2>4, <2>5, <2>6 DEF SyncTypeOK
<1> QED BY <1>1, SyncInvHolds, PTL

\* The ledger's releases leave no gap, in any ledger a run, a crash, an edit
\* or a restore leaves behind.
THEOREM LedgerAlwaysReplays == SyncSpec => []LedgerReplays
<1>1. SyncInv => LedgerReplays
      BY DEF SyncInv, LedgerInv, GoodLedger, Follows, LedgerReplays
<1> QED BY <1>1, SyncInvHolds, PTL

\* Between any two releases of one major version every token stays, one that
\* had a $type keeps it, and versions only go up (diff.ts L52-58); a token
\* that had none may gain one (L89).
THEOREM SameMajorStaysCompatible == SyncSpec => []SameMajorIsCompatible
<1>1. SyncInv => SameMajorIsCompatible
      BY DEF SyncInv, LedgerInv, GoodLedger, Compatible, SameMajorIsCompatible
<1> QED BY <1>1, SyncInvHolds, PTL

\* What passes --check has been through the rules, and there is a ledger.
THEOREM CheckIsSound == SyncSpec => []CheckedIsSound
<1>1. SyncInv => CheckedIsSound
  <2> SUFFICES ASSUME SyncInv, ChecksOut
               PROVE  Transforms(Tokens(export)) /\ "Error" \notin Contrast(Tokens(export))
      BY DEF CheckedIsSound
  <2>1. GoodLedger(ledger) /\ IsExport(export) /\ Verifies(ledger, Digest(export))
        BY DesignsAreExports DEF SyncInv, LedgerInv, FilesInv, ChecksOut
  <2>2. ledger.releases[1].digest = Tokens(export) /\ Approved(ledger.releases[1])
        BY <2>1, VerifiedIsReleased
  <2> QED BY <2>2 DEF Approved
<1> QED BY <1>1, SyncInvHolds, PTL

\* A run that nobody disturbed and that says it succeeded did what it says: the
\* files show what its release covers, the ledger has the release, the request
\* describes it with the right reason, and the preview shows no other change.
THEOREM SuccessIsTrue == SyncSpec => []SuccessTellsTheTruth
<1>1. SyncInv => SuccessTellsTheTruth
      BY DEF SyncInv
<1> QED BY <1>1, SyncInvHolds, PTL

=============================================================================
